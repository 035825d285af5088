----------------------------- MODULE Gr1Solver ------------------------------
(***************************************************************************)
(* The in-process GR(1) solver (gr1_oxidd.c): the nested fixpoint of       *)
(* Piterman, Pnueli and Sa'ar, the verdict at the reset state, the         *)
(* controller read off the fixpoint's levels with its one-hot goal         *)
(* counter; for a lost game whose export was asked for, the dual fixpoint  *)
(* and the environment's counter-strategy; the exports; and the entry      *)
(* point that stages and publishes them.                                   *)
(*                                                                         *)
(* BDDs are sets, the wrapped BDD operations are what RunGuard promises of *)
(* them: every phase may be cut short.                                     *)
(***************************************************************************)
EXTENDS Gr1Game

CONSTANTS StopKinds,   \* limits the caller may arm
          Options      \* option records to try

\* staged: the caller passes Gr1CertificateOptions; exports: what it requests;
\* strict: the game comes from a reduction that is sound for REALIZABLE only.
OptionRecords ==
  {o \in [staged : BOOLEAN, exports : SUBSET {"certificate", "policy"},
          strict : BOOLEAN] : o.exports # {} => o.staged}

ASSUME OptionAssumption ==
  StopKinds \subseteq {"DEADLINE", "CANCELLED"} /\ Options \subseteq OptionRecords

VARIABLES pc, game, opts, guard,
          certFailed,            \* Gr1CertificateOptions.failed
          ok, unreal,
          outer, combined,       \* outer approximation, and the next one so far
          mid, gathered,         \* the same of the middle fixpoint
          inner, j, i,           \* inner approximation, goal, assumption
          xs, ys,                \* the levels of the current outer round
          W,                     \* the controller's winning region
          levels, L,             \* the dual's outer levels and its result
          moves,                 \* move relation per goal, or per assumption
          strat, envStrat,       \* the strategies, or None
          artifacts,             \* exports produced so far
          status                 \* what the caller sees

loop == <<outer, combined, mid, gathered, inner, j, i, xs, ys>>
result == <<W, levels, L, moves, strat, envStrat>>
report == <<artifacts, status>>
vars == <<pc, game, opts, guard, certFailed, ok, unreal, loop, result, report>>

Guarded == INSTANCE RunGuard WITH valid <- ~guard.failed

None == [none |-> TRUE]

GoalIx == 1..NumGoals(game)
FairIx == 1..NumFairs(game)

NoLevels == [ji \in GoalIx \X FairIx |-> << >>]
NoSets == [k \in GoalIx |-> << >>]

Init ==
  /\ pc = "enter" /\ game \in Games /\ opts \in Options
  /\ guard = Guarded!FreshGuard /\ certFailed = FALSE
  /\ ok = TRUE /\ unreal = FALSE
  /\ outer = {} /\ combined = {} /\ mid = {} /\ gathered = {} /\ inner = {}
  /\ j = 0 /\ i = 0 /\ xs = NoLevels /\ ys = NoSets
  /\ W = {} /\ levels = << >> /\ L = {} /\ moves = << >>
  /\ strat = None /\ envStrat = None
  /\ artifacts = {} /\ status = "none"

\* The guards after wrapped operations that all succeed, or one that fails.
Succeeds == guard' \in Guarded!Outcomes(guard, TRUE) /\ ~guard'.failed
OperationFailed == guard' \in Guarded!Outcomes(guard, TRUE) /\ guard'.failed

-----------------------------------------------------------------------------
\* The wrapper finds the export buffers inconsistent, and returns.
BadBuffers ==
  /\ pc = "enter" /\ opts.staged
  /\ guard' = Guarded!RecordFailure(guard, "INVALID")
  /\ certFailed' = TRUE
  /\ pc' = "done" /\ status' = "ERROR"
  /\ UNCHANGED <<game, opts, ok, unreal, loop, result, artifacts>>

\* The early returns: no verdict output (INVALID), no game, a safety-only
\* option (CONFIGURATION), no justice record (nothing recorded).
EarlyReturn ==
  /\ pc = "enter"
  /\ \E kind \in {"INVALID", "CONFIGURATION", "NONE"} :
       guard' = Guarded!RecordFailure(guard, kind)
  /\ pc' = "returned"
  /\ UNCHANGED <<game, opts, certFailed, ok, unreal, loop, result, report>>

\* The game has goals; the manager and its variables are there, own or the
\* session's, and the tables allocated.
SetUp ==
  /\ pc = "enter" /\ GoalIx # {}
  /\ pc' = "construct"
  /\ UNCHANGED <<game, opts, guard, certFailed, ok, unreal, loop, result, report>>

\* Order, capacity or session mismatch (CONFIGURATION), no memory (HOST), no
\* variable numbers left in the session (nothing recorded).
SetUpFails ==
  /\ pc = "enter" /\ GoalIx # {}
  /\ \E kind \in {"CONFIGURATION", "HOST", "NONE"} :
       guard' = Guarded!RecordFailure(guard, kind)
  /\ pc' = "returned"
  /\ UNCHANGED <<game, opts, certFailed, ok, unreal, loop, result, report>>

-----------------------------------------------------------------------------
\* W* = nu Z. AND_j mu Y. OR_i nu X. cpre((Z & goal_j) | Y | (X & ~fair_i)).

\* Goal k's least fixpoint starts, its levels of the last round forgotten.
StartGoal(k, levelsX, levelsY) ==
  /\ j' = k /\ mid' = {} /\ gathered' = {}
  /\ i' = 1 /\ inner' = State
  /\ xs' = [ji \in GoalIx \X FairIx |-> IF ji[1] = k THEN << >> ELSE levelsX[ji]]
  /\ ys' = [levelsY EXCEPT ![k] = << >>]

\* The roots, the negated bad, the substitution and the cubes; then Z := true.
Construct ==
  /\ pc = "construct"
  /\ Succeeds
  /\ outer' = State /\ combined' = State
  /\ StartGoal(1, xs, ys)
  /\ pc' = "x"
  /\ UNCHANGED <<game, opts, certFailed, ok, unreal, result, report>>

Target == (outer \cap game.goals[j]) \cup mid \cup (inner \ Fair(game, i))

\* A round of the innermost fixpoint that is not the last.
DescendX ==
  /\ pc = "x"
  /\ Succeeds
  /\ CPre(game, Target) # inner
  /\ inner' = CPre(game, Target)
  /\ UNCHANGED <<pc, game, opts, certFailed, ok, unreal, outer, combined, mid,
                 gathered, j, i, xs, ys, result, report>>

\* X converged: kept as this level's X of assumption i; on to the next one.
SettleX ==
  /\ pc = "x"
  /\ Succeeds
  /\ CPre(game, Target) = inner
  /\ xs' = [xs EXCEPT ![<<j, i>>] = Append(@, inner)]
  /\ gathered' = gathered \cup inner
  /\ IF i < NumFairs(game)
       THEN i' = i + 1 /\ inner' = State /\ pc' = pc
       ELSE pc' = "y" /\ UNCHANGED <<i, inner>>
  /\ UNCHANGED <<game, opts, certFailed, ok, unreal, outer, combined, mid, j,
                 ys, result, report>>

\* Y grew: another level.
ClimbY ==
  /\ pc = "y" /\ gathered # mid
  /\ ys' = [ys EXCEPT ![j] = Append(@, gathered)]
  /\ mid' = gathered /\ gathered' = {}
  /\ i' = 1 /\ inner' = State /\ pc' = "x"
  /\ UNCHANGED <<game, opts, guard, certFailed, ok, unreal, outer, combined, j,
                 xs, result, report>>

\* Y converged (its last level is kept twice): intersect and take the next goal.
SettleY ==
  /\ pc = "y" /\ gathered = mid
  /\ Succeeds
  /\ combined' = combined \cap gathered
  /\ LET kept == [ys EXCEPT ![j] = Append(@, gathered)]
     IN  IF j < NumGoals(game)
           THEN StartGoal(j + 1, xs, kept) /\ pc' = "x"
           ELSE ys' = kept /\ pc' = "w"
                  /\ UNCHANGED <<mid, gathered, inner, j, i, xs>>
  /\ UNCHANGED <<game, opts, certFailed, ok, unreal, outer, result, report>>

\* Convergence is not noticed.
NeverSettles ==
  /\ pc = "w"
  /\ outer' = combined /\ combined' = State
  /\ StartGoal(1, xs, ys)
  /\ pc' = "x"
  /\ UNCHANGED <<game, opts, guard, certFailed, ok, unreal, result, report>>

\* Z shrank: another outer round.
DescendW ==
  /\ pc = "w" /\ combined # outer
  /\ outer' = combined /\ combined' = State
  /\ StartGoal(1, xs, ys)
  /\ pc' = "x"
  /\ UNCHANGED <<game, opts, guard, certFailed, ok, unreal, result, report>>

SettleW ==
  /\ pc = "w" /\ combined = outer
  /\ W' = outer
  /\ pc' = "reset"
  /\ UNCHANGED <<game, opts, guard, certFailed, ok, unreal, loop, levels, L,
                 moves, strat, envStrat, report>>

\* Any operation of the construction or the fixpoint fails, or pushing a level
\* finds no memory.  A missing safety output is not recorded here.
FixpointFails ==
  /\ pc \in {"construct", "x", "y"}
  /\ \/ OperationFailed
     \/ guard' = Guarded!RecordFailure(guard, "HOST")
     \/ pc = "construct" /\ guard' = guard
  /\ ok' = FALSE /\ pc' = "settle"
  /\ UNCHANGED <<game, opts, certFailed, unreal, loop, result, report>>

-----------------------------------------------------------------------------
\* The dual: L = mu Z. OR_j nu Y. AND_i mu X. dpre((Z | ~goal_j) & Y & (X | fair_i)).

StartDualGoal(k) ==
  /\ j' = k /\ mid' = State /\ gathered' = State
  /\ i' = 1 /\ inner' = {}

\* The verdict at the reset state.  A lost game goes on only when its export is
\* wanted and the reduction that made it was exact.
Verdict ==
  /\ pc = "reset" /\ game.resetKnown
  /\ unreal' = (game.reset \notin W)
  /\ certFailed' = (unreal' /\ opts.strict /\ opts.exports # {})
  /\ ok' = (unreal' => opts.exports # {} /\ ~opts.strict)
  /\ IF unreal' /\ ok'
       THEN /\ outer' = {} /\ combined' = {}
            /\ StartDualGoal(1)
            /\ xs' = NoLevels /\ ys' = NoSets
            /\ pc' = "dx"
       ELSE /\ pc' = IF ok' THEN "relation" ELSE "settle"
            /\ UNCHANGED loop
  /\ UNCHANGED <<game, opts, guard, result, report>>

\* An uninitialised latch, or no memory for the assignment.
VerdictFails ==
  /\ pc = "reset"
  /\ ok' = FALSE /\ pc' = "settle"
  /\ UNCHANGED <<game, opts, guard, certFailed, unreal, loop, result, report>>

\* The states already lost are left out.
DualTargetWithoutZ ==
  (State \ game.goals[j]) \cap mid \cap (inner \cup Fair(game, i))

DualTarget ==
  (outer \cup (State \ game.goals[j])) \cap mid \cap (inner \cup Fair(game, i))

\* X grew; every approximation is kept as an inner rank.
ClimbDualX ==
  /\ pc = "dx"
  /\ Succeeds
  /\ LET x == DPre(game, DualTarget) IN
       /\ x # inner
       /\ inner' = x
       /\ xs' = [xs EXCEPT ![<<j, i>>] = Append(@, x)]
  /\ UNCHANGED <<pc, game, opts, certFailed, ok, unreal, outer, combined, mid,
                 gathered, j, i, ys, result, report>>

\* X converged: intersect, and restart the ranks of the next assumption.
SettleDualX ==
  /\ pc = "dx"
  /\ Succeeds
  /\ DPre(game, DualTarget) = inner
  /\ gathered' = gathered \cap inner
  /\ LET kept == [xs EXCEPT ![<<j, i>>] = Append(@, inner)]
     IN  IF i < NumFairs(game)
           THEN /\ i' = i + 1 /\ inner' = {} /\ pc' = pc
                /\ xs' = [kept EXCEPT ![<<j, i + 1>>] = << >>]
           ELSE xs' = kept /\ pc' = "dy" /\ UNCHANGED <<i, inner>>
  /\ UNCHANGED <<game, opts, certFailed, ok, unreal, outer, combined, mid, j,
                 ys, result, report>>

\* Y shrank: another round for this goal, its ranks forgotten.
DescendDualY ==
  /\ pc = "dy" /\ gathered # mid
  /\ mid' = gathered /\ gathered' = State
  /\ i' = 1 /\ inner' = {} /\ pc' = "dx"
  /\ xs' = [xs EXCEPT ![<<j, 1>>] = << >>]
  /\ UNCHANGED <<game, opts, guard, certFailed, ok, unreal, outer, combined, j,
                 ys, result, report>>

SettleDualY ==
  /\ pc = "dy" /\ gathered = mid
  /\ Succeeds
  /\ ys' = [ys EXCEPT ![j] = <<mid>>]
  /\ combined' = combined \cup mid
  /\ IF j < NumGoals(game)
       THEN StartDualGoal(j + 1) /\ pc' = "dx"
       ELSE pc' = "dz" /\ UNCHANGED <<mid, gathered, inner, j, i>>
  /\ UNCHANGED <<game, opts, certFailed, ok, unreal, outer, xs, result, report>>

\* Z grew strictly: its level is kept, another outer round.
ClimbDualZ ==
  /\ pc = "dz" /\ combined # outer
  /\ levels' = Append(levels, [z |-> combined, y |-> ys, x |-> xs])
  /\ outer' = combined /\ combined' = {}
  /\ StartDualGoal(1)
  /\ xs' = NoLevels /\ ys' = NoSets
  /\ pc' = "dx"
  /\ UNCHANGED <<game, opts, guard, certFailed, ok, unreal, W, L, moves, strat,
                 envStrat, report>>

\* Z converged; a losing region without the reset state would contradict the
\* verdict and fails the solve.
SettleDualZ ==
  /\ pc = "dz" /\ combined = outer
  /\ L' = outer
  /\ IF game.reset \in outer
       THEN pc' = "counterstrategy" /\ UNCHANGED <<guard, certFailed, ok>>
       ELSE /\ guard' = Guarded!RecordFailure(guard, "INVALID")
            /\ certFailed' = TRUE /\ ok' = FALSE /\ pc' = "settle"
  /\ UNCHANGED <<game, opts, unreal, loop, W, levels, moves, strat, envStrat,
                 report>>

\* The dual or the counter-strategy is cut short: an operation, or an allocation
\* recorded (HOST) or not.
DualFails ==
  /\ pc \in {"dx", "dy", "dz", "counterstrategy"}
  /\ \/ OperationFailed
     \/ guard' = Guarded!RecordFailure(guard, "HOST")
     \/ pc \in {"dz", "counterstrategy"} /\ guard' = guard
  /\ certFailed' = TRUE
  /\ ok' = FALSE /\ pc' = "settle"
  /\ UNCHANGED <<game, opts, unreal, loop, result, report>>

-----------------------------------------------------------------------------
\* Counters are one bit per index, all 0 at reset; no bit set stands for the
\* first index.
Effective(counter) == IF counter = {} THEN {1} ELSE counter

\* The environment's counter moves past an assumption that holds now, and the
\* move is chosen for the counter it has moved to.
Phase(s, counter) ==
  {k \in FairIx : \/ k \in Effective(counter) /\ s \notin Fair(game, k)
                  \/ \E p \in Effective(counter) :
                       k = Cyclic(p, NumFairs(game)) /\ s \in Fair(game, p)}

LowerZ(k) == IF k = 1 THEN {} ELSE levels[k - 1].z

\* The goal the environment denies in s: the first whose Y holds s.
Denies(k, g, s) ==
  /\ s \in levels[k].z \ LowerZ(k)
  /\ s \in levels[k].y[g][1]
  /\ \A e \in 1..(g - 1) : s \notin levels[k].y[e][1]

\* s has inner rank l for goal g and assumption a.
HasRank(k, g, a, l, s) ==
  LET ranks == levels[k].x[<<g, a>>]
  IN  s \in ranks[l] /\ \A e \in 1..(l - 1) : s \notin ranks[e]

\* Where that state has to go: the goal denied or a lower Z, still in Y, and
\* closer to the assumption or in it.
RankTarget(k, g, a, l) ==
  LET ranks == levels[k].x[<<g, a>>]
      closer == IF l = 1 THEN {} ELSE ranks[l - 1]
  IN  (LowerZ(k) \cup (State \ game.goals[g])) \cap levels[k].y[g][1]
        \cap (closer \cup Fair(game, a))

EnvMoves(a) ==
  {v \in Val : \E k \in 1..Len(levels), g \in GoalIx :
     /\ Denies(k, g, v[1])
     /\ \E l \in 1..Len(levels[k].x[<<g, a>>]) :
          /\ HasRank(k, g, a, l, v[1])
          /\ v \in BadOrInto(game, RankTarget(k, g, a, l))}

\* extract_environment_counterstrategy: the relation over states and counters,
\* good against every c, Skolemised over the environment's inputs.
CounterStrategy ==
  /\ pc = "counterstrategy"
  /\ Succeeds
  /\ moves' = [a \in FairIx |-> EnvMoves(a)]
  /\ envStrat' =
       [none |-> FALSE,
        out |-> [sc \in State \X (SUBSET FairIx) |->
                   Greatest({u \in UMove : \A c \in CMove :
                     \E a \in Phase(sc[1], sc[2]) : <<sc[1], u, c>> \in moves'[a]})],
        count |-> [sc \in State \X (SUBSET FairIx) |-> Phase(sc[1], sc[2])]]
  /\ pc' = "poll"
  /\ UNCHANGED <<game, opts, certFailed, ok, unreal, loop, W, levels, L, strat,
                 report>>

-----------------------------------------------------------------------------
\* The controller.

AtGoal(g) == W \cap game.goals[g]

\* Strict progress from level k: the goal, or a lower level.
Strict(g, k) == AtGoal(g) \cup (IF k = 1 THEN {} ELSE ys[g][k - 1])

\* Level k, assumption a is the first place that holds s.
FirstLevel(g, k, a, s) ==
  /\ s \in xs[<<g, a>>][k] \ AtGoal(g)
  /\ \A e \in 1..(k - 1), b \in FairIx : s \notin xs[<<g, b>>][e]
  /\ \A b \in 1..(a - 1) : s \notin xs[<<g, b>>][k]

\* Any assumption that is false lets the controller stay in the level.
StayOnAnyAssumption(g) ==
  {v \in Val :
     \/ v[1] \in AtGoal(g) /\ v \in SafeInto(game, W)
     \/ \E k \in 1..Len(ys[g]), a \in FairIx :
          /\ FirstLevel(g, k, a, v[1])
          /\ v \in SafeInto(game, Strict(g, k)
                 \cup UNION {xs[<<g, b>>][k] \ Fair(game, b) : b \in FairIx})}

\* From a goal state any safe move inside W; elsewhere a move to strict progress,
\* or one that stays in the level's X while its assumption is false.
GoalMoves(g) ==
  {v \in Val :
     \/ v[1] \in AtGoal(g) /\ v \in SafeInto(game, W)
     \/ \E k \in 1..Len(ys[g]), a \in FairIx :
          /\ FirstLevel(g, k, a, v[1])
          /\ v \in SafeInto(game, Strict(g, k)
                                    \cup (xs[<<g, a>>][k] \ Fair(game, a)))}

Relation ==
  /\ pc = "relation"
  /\ Succeeds
  /\ moves' = [g \in GoalIx |-> GoalMoves(g)]
  /\ pc' = "skolem"
  /\ UNCHANGED <<game, opts, certFailed, ok, unreal, loop, W, levels, L, strat,
                 envStrat, report>>

\* The controller's output in state s, with the goal counter, against u.
Chosen(s, counter, u) ==
  Greatest({c \in CMove : \E g \in Effective(counter) : <<s, u, c>> \in moves[g]})

\* A goal state sets the next bit and keeps its own.
CounterKeepsBit(s, counter) ==
  {g \in GoalIx : \/ g \in Effective(counter)
                  \/ \E p \in Effective(counter) :
                       g = Cyclic(p, NumGoals(game)) /\ s \in AtGoal(p)}

\* The goal counter moves on from a goal state.
NextCounter(s, counter) ==
  {g \in GoalIx : \/ g \in Effective(counter) /\ s \notin AtGoal(g)
                  \/ \E p \in Effective(counter) :
                       g = Cyclic(p, NumGoals(game)) /\ s \in AtGoal(p)}

\* Skolem functions, goal counter and conversion: the strategy AIG has the
\* game's latches, rewritten with the Skolem functions, and the counter.
Convert ==
  /\ pc = "skolem"
  /\ Succeeds
  /\ strat' =
       [none |-> FALSE,
        out |-> [scu \in State \X (SUBSET GoalIx) \X UMove |->
                   Chosen(scu[1], scu[2], scu[3])],
        next |-> [scu \in State \X (SUBSET GoalIx) \X UMove |->
                    game.succ[<<scu[1], scu[3], Chosen(scu[1], scu[2], scu[3])>>]],
        count |-> [sc \in State \X (SUBSET GoalIx) |-> NextCounter(sc[1], sc[2])]]
  /\ pc' = "poll"
  /\ UNCHANGED <<game, opts, certFailed, ok, unreal, loop, W, levels, L, moves,
                 envStrat, report>>

\* An operation fails or there is no memory; a failed conversion is recorded
\* unless a limit stopped it.
ExtractionFails ==
  /\ pc \in {"relation", "skolem"}
  /\ \/ OperationFailed
     \/ guard' = guard
     \/ pc = "skolem" /\ guard' = Guarded!RecordFailure(guard, "CONVERSION")
  /\ ok' = FALSE /\ pc' = "settle"
  /\ UNCHANGED <<game, opts, certFailed, unreal, loop, result, report>>

-----------------------------------------------------------------------------
\* The limits are looked at once more before exporting, and after it.
Poll(from, to) ==
  /\ pc = from
  /\ guard' \in {guard} \cup {Guarded!RunStops(guard, k) : k \in StopKinds}
  /\ ok' = ~guard'.failed
  /\ pc' = IF ok' THEN to ELSE "settle"
  /\ UNCHANGED <<game, opts, certFailed, unreal, loop, result, report>>

NextExport(kind) == IF kind = "policy" THEN "certificate" ELSE "poll2"

\* export_policy, export_certificate or their environment versions write one
\* artifact into memory; nothing happens when it was not requested.
Export(kind) ==
  /\ pc = kind
  /\ artifacts' = artifacts \cup ({kind} \cap opts.exports)
  /\ pc' = NextExport(kind)
  /\ UNCHANGED <<game, opts, guard, certFailed, ok, unreal, loop, result, status>>

\* A limit, a conversion, the host or the artifact cap: the export fails, and
\* the strategy with it.
ExportFails(kind) ==
  /\ pc = kind /\ kind \in opts.exports
  /\ guard' \in {guard} \cup {Guarded!RunStops(guard, k) : k \in StopKinds}
                  \cup {Guarded!RecordFailure(guard, k) :
                          k \in {"CONVERSION", "HOST", "ARTIFACT_LIMIT"}}
  /\ certFailed' = TRUE /\ ok' = FALSE
  /\ strat' = None
  /\ pc' = "settle"
  /\ UNCHANGED <<game, opts, unreal, loop, W, levels, L, moves, envStrat, report>>

\* After a failure the verdict stands only if no export was wanted, and the
\* strategy is dropped; a solve that leaves nothing has a failure on record.
Settle ==
  /\ pc = "settle"
  /\ unreal' = (unreal /\ (ok \/ opts.exports = {}))
  /\ strat' = IF ok THEN strat ELSE None
  /\ guard' = IF strat'.none /\ ~unreal' /\ ~certFailed
                THEN Guarded!RecordFailure(guard, "HOST") ELSE guard
  /\ pc' = "returned"
  /\ UNCHANGED <<game, opts, certFailed, ok, loop, W, levels, L, moves, envStrat,
                 report>>

Reported == IF ~strat.none THEN "REALIZABLE"
            ELSE IF unreal THEN "UNREALIZABLE" ELSE "ERROR"

\* Without export options solve_gr1_oxidd returns what it got.
ReturnUnstaged ==
  /\ pc = "returned" /\ ~opts.staged
  /\ status' = Reported /\ pc' = "done"
  /\ UNCHANGED <<game, opts, guard, certFailed, ok, unreal, loop, result, artifacts>>

Complete ==
  /\ ~certFailed /\ guard.failure = "NONE"
  /\ ~strat.none \/ unreal
  /\ opts.exports \subseteq artifacts

\* Everything requested is there and is published.
Publish ==
  /\ pc = "returned" /\ opts.staged /\ Complete
  /\ status' = Reported /\ pc' = "done"
  /\ UNCHANGED <<game, opts, guard, certFailed, ok, unreal, loop, result, artifacts>>

\* What was exported before the failure stays.
WithdrawVerdictOnly ==
  /\ pc = "returned" /\ opts.staged
  /\ ~Complete \/ opts.exports # {}
  /\ guard' = Guarded!RecordFailure(guard, "HOST")
  /\ certFailed' = TRUE
  /\ strat' = None /\ envStrat' = None /\ unreal' = FALSE
  /\ status' = "ERROR" /\ pc' = "done"
  /\ UNCHANGED <<game, opts, ok, loop, W, levels, L, moves, artifacts>>

\* Something is missing or cannot be published: no verdict, no strategy, no
\* exports, and a failure on record.
Withdraw ==
  /\ pc = "returned" /\ opts.staged
  /\ ~Complete \/ opts.exports # {}
  /\ guard' = Guarded!RecordFailure(guard, "HOST")
  /\ certFailed' = TRUE
  /\ strat' = None /\ envStrat' = None /\ unreal' = FALSE
  /\ artifacts' = {}
  /\ status' = "ERROR" /\ pc' = "done"
  /\ UNCHANGED <<game, opts, ok, loop, W, levels, L, moves>>

Next ==
  \/ BadBuffers \/ EarlyReturn \/ SetUp \/ SetUpFails
  \/ Construct \/ DescendX \/ SettleX \/ ClimbY \/ SettleY \/ DescendW
  \/ SettleW \/ FixpointFails \/ Verdict \/ VerdictFails
  \/ ClimbDualX \/ SettleDualX \/ DescendDualY \/ SettleDualY \/ ClimbDualZ
  \/ SettleDualZ \/ DualFails \/ CounterStrategy
  \/ Relation \/ Convert \/ ExtractionFails
  \/ Poll("poll", "policy") \/ Poll("poll2", "settle")
  \/ \E kind \in {"policy", "certificate"} : Export(kind) \/ ExportFails(kind)
  \/ Settle \/ ReturnUnstaged \/ Publish \/ Withdraw

Spec == Init /\ [][Next]_vars

\* The solver is one sequential function: it always takes its next step.
FairSpec == Spec /\ WF_vars(Next)

-----------------------------------------------------------------------------
Phases == {"enter", "construct", "x", "y", "w", "reset", "dx", "dy", "dz",
           "counterstrategy", "relation", "skolem", "poll", "policy",
           "certificate", "poll2", "settle", "returned", "done"}

Ranked == [GoalIx \X FairIx -> Seq(SUBSET State)]
Levelled == [GoalIx -> Seq(SUBSET State)]

TypeOK ==
  /\ pc \in Phases
  /\ game \in Games /\ opts \in Options
  /\ guard \in Guarded!Guards
  /\ certFailed \in BOOLEAN /\ ok \in BOOLEAN /\ unreal \in BOOLEAN
  /\ \A S \in {outer, combined, mid, gathered, inner, W, L} : S \subseteq State
  /\ j \in 0..NumGoals(game) /\ i \in 0..NumFairs(game)
  /\ xs \in Ranked /\ ys \in Levelled
  /\ levels \in Seq([z : SUBSET State, y : Levelled, x : Ranked])
  /\ strat.none \in BOOLEAN /\ envStrat.none \in BOOLEAN
  /\ artifacts \subseteq opts.exports
  /\ status \in {"none", "REALIZABLE", "UNREALIZABLE", "ERROR"}

\* The dual fixpoint computes exactly what the controller cannot win, so that a
\* lost reset state always has a counter-strategy and "reset_not_environment_
\* winning" is never recorded.
DualIsComplement ==
  /\ pc \in {"counterstrategy", "poll", "policy", "certificate", "poll2"} /\ unreal
       => L = State \ W /\ game.reset \in L
  /\ pc = "settle" => guard.failure # "INVALID"

\* A verdict comes without a failure, an ERROR of the staged interface with one,
\* and the exports of a verdict are complete: never a part of them, never one
\* beside an ERROR (solve_gr1_oxidd), never one that refutes a strict reduction,
\* which is sound for REALIZABLE only.
HonestReport ==
  /\ TypeOK
  /\ status \in {"REALIZABLE", "UNREALIZABLE"} =>
       /\ guard.failure = "NONE" /\ ~certFailed
       /\ artifacts = opts.exports
  /\ status = "UNREALIZABLE" /\ opts.strict => artifacts = {}
  /\ status = "ERROR" =>
       /\ artifacts = {} /\ strat.none /\ ~unreal
       /\ opts.staged => certFailed /\ guard.failure # "NONE"

\* Every solve returns: the nested fixpoints converge.
Terminates == <>(pc = "done")
=============================================================================
