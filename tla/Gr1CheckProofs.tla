--------------------------- MODULE Gr1CheckProofs ---------------------------
(***************************************************************************)
(* The checker, for every finite set of states and every request: its      *)
(* reports are closed under failure, and its verdicts are right.           *)
(***************************************************************************)
EXTENDS Gr1Check, FiniteSetTheorems, WellFoundedInduction, TLAPS

-----------------------------------------------------------------------------
\* What is known of the request and of the run in each phase.
LoopPhases == {"loop", "reach", "avoid", "y", "z"}
Compiled == {"compile", "modes", "decide"} \cup PremiseStages \cup LoopPhases

PhaseInv ==
  /\ req \in Requests
  /\ pc \in Compiled \cup {"read"} => ArgumentsFit
  /\ pc \in Compiled => WellFormed
  /\ pc \in {"enter", "read", "compile"} \cup PremiseStages => mode = 0
  /\ pc = "modes" => mode <= NumCounters(req)
  /\ pc \in LoopPhases \/ closedLoop # "SKIPPED" =>
       req.method \in {"AUTO", "CLOSED_LOOP", "BOTH"}
  /\ legacy => req.auto /\ req.window /\ req.method = "CERTIFICATE"

\* Nothing is handed out before the end; a code against a policy comes from a
\* pass that is not repeated.
ReportInv ==
  /\ pc # "done" => verdict = "UNKNOWN" /\ status = "none"
  /\ pc \notin {"return", "done"} => ~json
  /\ pc \in {"result", "return"} => code # "none"
  /\ pc \in {"result", "return"} /\ code \in {"CERT_FAILED", "UNKNOWN"} =>
       ~Speculative \/ TimedOut
  /\ pc = "return" => json \/ code = "ERROR"

\* FailClosed but for the types.
EndInv ==
  /\ status = "OK" /\ verdict \in {"CERT_FAILED", "UNKNOWN"} => ~Speculative
  /\ pc = "done" =>
    IF status = "OK"
      THEN /\ json /\ ~TimedOut
           /\ verdict = "UNKNOWN" => failure = "NONE"
      ELSE verdict = "UNKNOWN" /\ ~json

RunInv == TypeOK /\ PhaseInv /\ ReportInv /\ EndInv

-----------------------------------------------------------------------------
\* The game and the artifacts of a request that was read.
LEMMA RequestTyped ==
  ASSUME NEW R \in Requests
  PROVE  /\ R.game \in GameRecords /\ NumGoals(R.game) \in Nat
         /\ NumFairs(R.game) \in Nat \ {0} /\ NumCounters(R) \in Nat
         /\ R.method \in Methods
         /\ {R.environment, R.readable, R.window, R.auto} \subseteq BOOLEAN
<1>1. R.game \in GameRecords
  BY CheckConstants, Gr1Constants
<1>2. R.game.goals \in Seq(SUBSET State) /\ R.game.fairs \in Seq(SUBSET State)
  BY <1>1 DEF GameRecords
<1>3. Len(R.game.goals) \in Nat /\ Len(R.game.fairs) \in Nat
  BY <1>2
<1> QED
  BY <1>1, <1>3, CheckConstants DEF NumGoals, NumFairs, NumCounters

\* The same of the request of the run.
LEMMA Counters ==
  ASSUME req \in Requests
  PROVE  /\ Game \in GameRecords /\ NumGoals(Game) \in Nat
         /\ NumFairs(Game) \in Nat \ {0} /\ NumCounters(req) \in Nat
         /\ req.method \in Methods
         /\ {req.environment, req.readable, req.window, req.auto} \subseteq BOOLEAN
  BY RequestTyped DEF Game

\* The artifacts were read, and there is a policy.
Playable(R) == R \in Requests /\ R.readable /\ NumGoals(R.game) > 0 /\ ~R.policy.none

\* A policy's rounds are rounds of the game, and its counter is one.
LEMMA SuccessorsTyped ==
  ASSUME NEW R, Playable(R), NEW q \in LoopStates(R)
  PROVE  /\ Rounds(R, q) \subseteq Val
         /\ Successors(R, q) \subseteq LoopStates(R)
<1>1. R.game \in GameRecords /\ R.game.succ \in [Val -> State]
  BY RequestTyped DEF Playable, GameRecords
<1>2. R \in Requests /\ R.readable /\ NumGoals(R.game) > 0 /\ ~R.policy.none
  BY DEF Playable
<1>3. CASE R.environment
  <2>1. EnvironmentPolicyFits(R.game, R.policy)
    BY <1>2, <1>3, CheckConstants
  <2>2. q \in State \X SUBSET (1..NumFairs(R.game))
    BY <1>3 DEF LoopStates, NumCounters
  <2>3. R.policy.out[q] \in UMove /\ R.policy.count[q] \in SUBSET (1..NumFairs(R.game))
    BY <2>1, <2>2 DEF EnvironmentPolicyFits
  <2>4. q[1] \in State
    BY <2>2
  <2>5. Rounds(R, q) \subseteq Val
    BY <1>3, <2>3, <2>4 DEF Rounds, Val
  <2>6. \A v \in Val : <<R.game.succ[v], Counted(R, q, v)>> \in LoopStates(R)
    BY <1>1, <1>3, <2>3 DEF Counted, LoopStates, NumCounters
  <2> QED
    BY <2>5, <2>6 DEF Successors
<1>4. CASE ~R.environment
  <2>1. SystemPolicyFits(R.game, R.policy)
    BY <1>2, <1>4, CheckConstants
  <2>2. q \in State \X SUBSET (1..NumGoals(R.game))
    BY <1>4 DEF LoopStates, NumCounters
  <2>3. \A u \in UMove : /\ R.policy.out[<<q[1], q[2], u>>] \in CMove
                         /\ R.policy.count[<<q[1], q[2], u>>] \in SUBSET (1..NumGoals(R.game))
    <3> SUFFICES ASSUME NEW u \in UMove
                 PROVE  /\ R.policy.out[<<q[1], q[2], u>>] \in CMove
                        /\ R.policy.count[<<q[1], q[2], u>>] \in SUBSET (1..NumGoals(R.game))
      OBVIOUS
    <3>1. <<q[1], q[2], u>> \in State \X (SUBSET (1..NumGoals(R.game))) \X UMove
      BY <2>2
    <3> QED
      BY <2>1, <3>1 DEF SystemPolicyFits
  <2>4. q[1] \in State
    BY <2>2
  <2>5. Rounds(R, q) \subseteq Val
    <3>1. \A u \in UMove : <<q[1], u, R.policy.out[<<q[1], q[2], u>>]>> \in Val
      BY <2>3, <2>4 DEF Val
    <3> QED
      BY <1>4, <3>1 DEF Rounds
  <2>6. \A v \in Val : v[2] \in UMove
    BY DEF Val
  <2>7. \A v \in Val : <<R.game.succ[v], Counted(R, q, v)>> \in LoopStates(R)
    BY <1>1, <1>4, <2>3, <2>6 DEF Counted, LoopStates, NumCounters
  <2> QED
    BY <2>5, <2>7 DEF Successors
<1> QED
  BY <1>3, <1>4

\* The request stays, and what is said of it alone.
LEMMA RequestKept ==
  ASSUME [Next]_vars
  PROVE  /\ req' = req /\ Game' = Game /\ NumCounters(req)' = NumCounters(req)
         /\ WellFormed' = WellFormed /\ ArgumentsFit' = ArgumentsFit
         /\ LoopStates(req)' = LoopStates(req)
<1>1. req' = req
  BY DEF Next, vars, Step, Strike, Refuse, Enter, Read, ReadFails, Compile, CompileFails,
         PremiseHolds, PremiseFails, PremiseUnknown, ModePasses, ModeViolated, ModeUnknown,
         StartLoop, LoopUnknown, ReachMore, ReachDone, AvoidStep, YStep, ZStep, Decide,
         WriteResult, Return
<1> QED
  BY <1>1 DEF Game, NumCounters, WellFormed, ArgumentsFit, LoopStates

\* The phases that only say how the request is read, refused or reported.
LEMMA FrameStep ==
  ASSUME RunInv,
         \/ \E kind \in StopKinds : Strike(kind)
         \/ Refuse \/ Enter \/ Read \/ ReadFails \/ Compile \/ WriteResult \/ Return
         \/ UNCHANGED vars
  PROVE  RunInv'
<1>1. [Next]_vars
  BY DEF Next, Step
<1>r. /\ req' = req /\ Game' = Game /\ NumCounters(req)' = NumCounters(req)
      /\ WellFormed' = WellFormed /\ ArgumentsFit' = ArgumentsFit /\ LoopStates(req)' = LoopStates(req)
  BY <1>1, RequestKept
<1>k. StopKinds \subseteq {"DEADLINE", "CANCELLED"}
  BY CheckConstants
<1>i. TypeOK /\ PhaseInv /\ ReportInv /\ EndInv
  BY DEF RunInv
<1>m. req.method \in Methods
  BY <1>i, Counters DEF PhaseInv
<1>2. CASE \E kind \in StopKinds : Strike(kind)
  <2>1. TypeOK'
    BY <1>r, <1>k, <1>i, <1>2 DEF TypeOK, PhaseInv, ReportInv, Strike, output, methods, search, Phases, Results, TimedOut
  <2>2. PhaseInv'
    BY <1>r, <1>i, <1>m, <1>2 DEF PhaseInv, Strike, output, methods, search, Compiled, PremiseStages, LoopPhases, Methods
  <2>3. ReportInv'
    BY <1>r, <1>k, <1>i, <1>2 DEF TypeOK, PhaseInv, ReportInv, Strike, output, methods, TimedOut, Speculative
  <2>4. EndInv'
    BY <1>r, <1>k, <1>i, <1>2 DEF TypeOK, PhaseInv, ReportInv, EndInv, Strike, output, methods, TimedOut, Speculative
  <2> QED
    BY <2>1, <2>2, <2>3, <2>4 DEF RunInv
<1>3. CASE Refuse
  <2>1. TypeOK'
    <3>1. json' \in BOOLEAN
      BY <1>i, <1>3 DEF TypeOK, Refuse, CheckFailure
    <3>2. /\ pc' \in Phases /\ code' \in Results \cup {"none", "INVALID", "ERROR", "INTERNAL"}
          /\ jsonFault' \in {"NONE", "LIMIT", "HOST", "OTHER"}
          /\ status' \in {"none", "OK", "BAD_ARGUMENT", "LIMIT", "ERROR"} \cup StopKinds
          /\ verdict' \in Results \cup {"REGION_VERIFIED", "INVALID"}
      BY <1>k, <1>i, <1>3 DEF TypeOK, ReportInv, Refuse, CheckFailure, Phases, Results, TimedOut
    <3>3. UNCHANGED <<stopped, legacy, methods, search>>
      BY <1>3 DEF Refuse
    <3> QED
      BY <1>r, <1>i, <3>1, <3>2, <3>3 DEF TypeOK, methods, search
  <2>2. PhaseInv'
    BY <1>r, <1>i, <1>m, <1>3 DEF PhaseInv, Refuse, CheckFailure, methods, search, Compiled, PremiseStages, LoopPhases, Methods
  <2>3. ReportInv'
    BY <1>r, <1>k, <1>i, <1>3 DEF TypeOK, PhaseInv, ReportInv, Refuse, CheckFailure, methods, TimedOut, Speculative
  <2>4. EndInv'
    BY <1>r, <1>k, <1>i, <1>3 DEF TypeOK, PhaseInv, ReportInv, EndInv, Refuse, CheckFailure, methods, TimedOut, Speculative
  <2> QED
    BY <2>1, <2>2, <2>3, <2>4 DEF RunInv
<1>4. CASE Enter
  <2>1. TypeOK'
    BY <1>r, <1>k, <1>i, <1>4 DEF TypeOK, PhaseInv, ReportInv, Enter, output, methods, search, Phases, Results, TimedOut
  <2>2. PhaseInv'
    BY <1>r, <1>i, <1>m, <1>4 DEF PhaseInv, Enter, output, methods, search, Compiled, PremiseStages, LoopPhases, Methods
  <2>3. ReportInv'
    BY <1>r, <1>k, <1>i, <1>4 DEF TypeOK, PhaseInv, ReportInv, Enter, output, methods, TimedOut, Speculative
  <2>4. EndInv'
    BY <1>r, <1>k, <1>i, <1>4 DEF TypeOK, PhaseInv, ReportInv, EndInv, Enter, output, methods, TimedOut, Speculative
  <2> QED
    BY <2>1, <2>2, <2>3, <2>4 DEF RunInv
<1>5. CASE Read
  <2>1. TypeOK'
    BY <1>r, <1>k, <1>i, <1>5 DEF TypeOK, PhaseInv, ReportInv, Read, output, methods, search, Phases, Results, TimedOut
  <2>2. PhaseInv'
    BY <1>r, <1>i, <1>m, <1>5 DEF PhaseInv, Read, output, methods, search, Compiled, PremiseStages, LoopPhases, Methods
  <2>3. ReportInv'
    BY <1>r, <1>k, <1>i, <1>5 DEF TypeOK, PhaseInv, ReportInv, Read, output, methods, TimedOut, Speculative
  <2>4. EndInv'
    BY <1>r, <1>k, <1>i, <1>5 DEF TypeOK, PhaseInv, ReportInv, EndInv, Read, output, methods, TimedOut, Speculative
  <2> QED
    BY <2>1, <2>2, <2>3, <2>4 DEF RunInv
<1>6. CASE ReadFails
  <2>1. TypeOK'
    BY <1>r, <1>k, <1>i, <1>6 DEF TypeOK, PhaseInv, ReportInv, ReadFails, output, methods, search, Phases, Results, TimedOut
  <2>2. PhaseInv'
    BY <1>r, <1>i, <1>m, <1>6 DEF PhaseInv, ReadFails, output, methods, search, Compiled, PremiseStages, LoopPhases, Methods
  <2>3. ReportInv'
    BY <1>r, <1>k, <1>i, <1>6 DEF TypeOK, PhaseInv, ReportInv, ReadFails, output, methods, TimedOut, Speculative
  <2>4. EndInv'
    BY <1>r, <1>k, <1>i, <1>6 DEF TypeOK, PhaseInv, ReportInv, EndInv, ReadFails, output, methods, TimedOut, Speculative
  <2> QED
    BY <2>1, <2>2, <2>3, <2>4 DEF RunInv
<1>7. CASE Compile
  <2>1. TypeOK'
    BY <1>r, <1>k, <1>i, <1>7 DEF TypeOK, PhaseInv, ReportInv, Compile, output, RunsProof, methods, search, Phases, Results, TimedOut
  <2>2. PhaseInv'
    BY <1>r, <1>i, <1>m, <1>7 DEF PhaseInv, Compile, output, RunsProof, methods, search, Compiled, PremiseStages, LoopPhases, Methods
  <2>3. ReportInv'
    BY <1>r, <1>k, <1>i, <1>7 DEF TypeOK, PhaseInv, ReportInv, Compile, output, RunsProof, methods, TimedOut, Speculative
  <2>4. EndInv'
    BY <1>r, <1>k, <1>i, <1>7 DEF TypeOK, PhaseInv, ReportInv, EndInv, Compile, output, RunsProof, methods, TimedOut, Speculative
  <2> QED
    BY <2>1, <2>2, <2>3, <2>4 DEF RunInv
<1>8. CASE WriteResult
  <2>1. TypeOK'
    <3>1. json' \in BOOLEAN
      BY <1>i, <1>8 DEF TypeOK, WriteResult
    <3>2. /\ pc' \in Phases /\ code' \in Results \cup {"none", "INVALID", "ERROR", "INTERNAL"}
          /\ jsonFault' \in {"NONE", "LIMIT", "HOST", "OTHER"}
          /\ status' \in {"none", "OK", "BAD_ARGUMENT", "LIMIT", "ERROR"} \cup StopKinds
          /\ verdict' \in Results \cup {"REGION_VERIFIED", "INVALID"}
      BY <1>k, <1>i, <1>8 DEF TypeOK, ReportInv, WriteResult, Phases, Results, TimedOut
    <3>3. UNCHANGED <<stopped, legacy, methods, search>>
      BY <1>8 DEF WriteResult
    <3> QED
      BY <1>r, <1>i, <3>1, <3>2, <3>3 DEF TypeOK, methods, search
  <2>2. PhaseInv'
    BY <1>r, <1>i, <1>m, <1>8 DEF PhaseInv, WriteResult, methods, search, Compiled, PremiseStages, LoopPhases, Methods
  <2>3. ReportInv'
    BY <1>r, <1>k, <1>i, <1>8 DEF TypeOK, PhaseInv, ReportInv, WriteResult, methods, TimedOut, Speculative
  <2>4. EndInv'
    BY <1>r, <1>k, <1>i, <1>8 DEF TypeOK, PhaseInv, ReportInv, EndInv, WriteResult, methods, TimedOut, Speculative
  <2> QED
    BY <2>1, <2>2, <2>3, <2>4 DEF RunInv
<1>9. CASE Return
  <2>1. TypeOK'
    <3>1. json' \in BOOLEAN
      BY <1>i, <1>9 DEF TypeOK, Return, CheckFailure
    <3>2. /\ pc' \in Phases /\ code' \in Results \cup {"none", "INVALID", "ERROR", "INTERNAL"}
          /\ jsonFault' \in {"NONE", "LIMIT", "HOST", "OTHER"}
          /\ status' \in {"none", "OK", "BAD_ARGUMENT", "LIMIT", "ERROR"} \cup StopKinds
          /\ verdict' \in Results \cup {"REGION_VERIFIED", "INVALID"}
      BY <1>k, <1>i, <1>9 DEF TypeOK, ReportInv, Return, CheckFailure, Phases, Results, TimedOut
    <3>3. UNCHANGED <<stopped, legacy, methods, search>>
      BY <1>9 DEF Return
    <3> QED
      BY <1>r, <1>i, <3>1, <3>2, <3>3 DEF TypeOK, methods, search
  <2>2. PhaseInv'
    BY <1>r, <1>i, <1>m, <1>9 DEF PhaseInv, Return, CheckFailure, methods, search, Compiled, PremiseStages, LoopPhases, Methods
  <2>3. ReportInv'
    BY <1>r, <1>k, <1>i, <1>9 DEF TypeOK, PhaseInv, ReportInv, Return, CheckFailure, methods, TimedOut, Speculative
  <2>4. EndInv'
    BY <1>r, <1>k, <1>i, <1>9 DEF TypeOK, PhaseInv, ReportInv, EndInv, Return, CheckFailure, methods, TimedOut, Speculative
  <2> QED
    BY <2>1, <2>2, <2>3, <2>4 DEF RunInv
<1>10. CASE UNCHANGED vars
  <2>1. TypeOK'
    BY <1>r, <1>k, <1>i, <1>10 DEF TypeOK, PhaseInv, ReportInv, vars, output, methods, search, Phases, Results, TimedOut
  <2>2. PhaseInv'
    BY <1>r, <1>i, <1>m, <1>10 DEF PhaseInv, vars, output, methods, search, Compiled, PremiseStages, LoopPhases, Methods
  <2>3. ReportInv'
    BY <1>r, <1>k, <1>i, <1>10 DEF TypeOK, PhaseInv, ReportInv, vars, output, methods, TimedOut, Speculative
  <2>4. EndInv'
    BY <1>r, <1>k, <1>i, <1>10 DEF TypeOK, PhaseInv, ReportInv, EndInv, vars, output, methods, TimedOut, Speculative
  <2> QED
    BY <2>1, <2>2, <2>3, <2>4 DEF RunInv
<1> QED
  BY <1>2, <1>3, <1>4, <1>5, <1>6, <1>7, <1>8, <1>9, <1>10

\* The compilation, the certificate and the end of a pass.
LEMMA MethodStep ==
  ASSUME RunInv,
         CompileFails \/ PremiseHolds \/ PremiseFails \/ PremiseUnknown \/ ModePasses \/ ModeViolated \/ ModeUnknown \/ LoopUnknown \/ Decide
  PROVE  RunInv'
<1>1. [Next]_vars
  BY DEF Next, Step
<1>r. /\ req' = req /\ Game' = Game /\ NumCounters(req)' = NumCounters(req)
      /\ WellFormed' = WellFormed /\ ArgumentsFit' = ArgumentsFit /\ LoopStates(req)' = LoopStates(req)
  BY <1>1, RequestKept
<1>k. StopKinds \subseteq {"DEADLINE", "CANCELLED"}
  BY CheckConstants
<1>i. TypeOK /\ PhaseInv /\ ReportInv /\ EndInv
  BY DEF RunInv
<1>m. req.method \in Methods /\ NumCounters(req) \in Nat /\ NumGoals(Game) \in Nat
  BY <1>i, Counters DEF PhaseInv
<1>2. CASE CompileFails
  <2>1. TypeOK'
    <3>1. bddFailed' \in BOOLEAN
      BY <1>i, <1>2 DEF TypeOK, CompileFails, Repeat, CompileFailures, Speculative
    <3>2. legacy' \in BOOLEAN
      BY <1>i, <1>2 DEF TypeOK, CompileFails, Repeat, CompileFailures, Speculative
    <3>3. /\ pc' \in Phases
          /\ failure' \in {"NONE", "BDD", "HOST"} \cup StopKinds
          /\ proof' \in Results \ {"REFUTED"}
          /\ mode' \in 0..(NumCounters(req) + 1)
          /\ code' \in Results \cup {"none", "INVALID", "ERROR", "INTERNAL"}
      BY <1>k, <1>i, <1>m, <1>2 DEF TypeOK, PhaseInv, CompileFails, Repeat, CompileFailures, Speculative, Phases, Results, PremiseStages
    <3>4. UNCHANGED <<stopped, closedLoop, reach, z, newZ, y, goal, fi, output>>
      BY <1>2 DEF CompileFails, Repeat, CompileFailures, Speculative, methods, search
    <3> QED
      BY <1>r, <1>i, <3>1, <3>2, <3>3, <3>4 DEF TypeOK, output
  <2>2. PhaseInv'
    BY <1>r, <1>i, <1>m, <1>2 DEF TypeOK, PhaseInv, CompileFails, Repeat, CompileFailures, Speculative, methods, Compiled, PremiseStages, LoopPhases, Methods
  <2>3. ReportInv'
    BY <1>r, <1>k, <1>i, <1>2 DEF TypeOK, PhaseInv, ReportInv, CompileFails, Repeat, CompileFailures, Speculative, methods, output, TimedOut, PremiseStages
  <2>4. EndInv'
    BY <1>r, <1>k, <1>i, <1>2 DEF TypeOK, PhaseInv, ReportInv, EndInv, CompileFails, Repeat, CompileFailures, Speculative, methods, output, TimedOut, PremiseStages
  <2> QED
    BY <2>1, <2>2, <2>3, <2>4 DEF RunInv
<1>3. CASE PremiseHolds
  <2>1. TypeOK'
    <3>1. /\ pc' \in Phases
      BY <1>k, <1>i, <1>m, <1>3 DEF TypeOK, PhaseInv, PremiseHolds, AfterPremise, Phases, Results, PremiseStages
    <3>2. UNCHANGED <<stopped, legacy, bddFailed, failure, proof, closedLoop, mode, code, reach, z, newZ, y, goal, fi, output>>
      BY <1>3 DEF PremiseHolds, AfterPremise, methods, search
    <3> QED
      BY <1>r, <1>i, <3>1, <3>2 DEF TypeOK, output
  <2>2. PhaseInv'
    BY <1>r, <1>i, <1>m, <1>3 DEF TypeOK, PhaseInv, PremiseHolds, AfterPremise, methods, Compiled, PremiseStages, LoopPhases, Methods
  <2>3. ReportInv'
    BY <1>r, <1>k, <1>i, <1>3 DEF TypeOK, PhaseInv, ReportInv, PremiseHolds, AfterPremise, methods, output, TimedOut, Speculative, PremiseStages
  <2>4. EndInv'
    BY <1>r, <1>k, <1>i, <1>3 DEF TypeOK, PhaseInv, ReportInv, EndInv, PremiseHolds, AfterPremise, methods, output, TimedOut, Speculative, PremiseStages
  <2> QED
    BY <2>1, <2>2, <2>3, <2>4 DEF RunInv
<1>4. CASE PremiseFails
  <2>1. TypeOK'
    <3>1. bddFailed' \in BOOLEAN
      BY <1>i, <1>4 DEF TypeOK, PremiseFails, Concluded
    <3>2. /\ pc' \in Phases
          /\ proof' \in Results \ {"REFUTED"}
      BY <1>k, <1>i, <1>m, <1>4 DEF TypeOK, PhaseInv, PremiseFails, Concluded, Phases, Results, PremiseStages
    <3>3. UNCHANGED <<stopped, legacy, failure, closedLoop, mode, code, reach, z, newZ, y, goal, fi, output>>
      BY <1>4 DEF PremiseFails, Concluded, methods, search
    <3> QED
      BY <1>r, <1>i, <3>1, <3>2, <3>3 DEF TypeOK, output
  <2>2. PhaseInv'
    BY <1>r, <1>i, <1>m, <1>4 DEF TypeOK, PhaseInv, PremiseFails, Concluded, methods, Compiled, PremiseStages, LoopPhases, Methods
  <2>3. ReportInv'
    BY <1>r, <1>k, <1>i, <1>4 DEF TypeOK, PhaseInv, ReportInv, PremiseFails, Concluded, methods, output, TimedOut, Speculative, PremiseStages
  <2>4. EndInv'
    BY <1>r, <1>k, <1>i, <1>4 DEF TypeOK, PhaseInv, ReportInv, EndInv, PremiseFails, Concluded, methods, output, TimedOut, Speculative, PremiseStages
  <2> QED
    BY <2>1, <2>2, <2>3, <2>4 DEF RunInv
<1>5. CASE PremiseUnknown
  <2>1. TypeOK'
    <3>1. bddFailed' \in BOOLEAN
      BY <1>i, <1>5 DEF TypeOK, PremiseUnknown, Concluded, AfterPremise
    <3>2. /\ pc' \in Phases
          /\ proof' \in Results \ {"REFUTED"}
      BY <1>k, <1>i, <1>m, <1>5 DEF TypeOK, PhaseInv, PremiseUnknown, Concluded, AfterPremise, Phases, Results, PremiseStages
    <3>3. UNCHANGED <<stopped, legacy, failure, closedLoop, mode, code, reach, z, newZ, y, goal, fi, output>>
      BY <1>5 DEF PremiseUnknown, Concluded, AfterPremise, methods, search
    <3> QED
      BY <1>r, <1>i, <3>1, <3>2, <3>3 DEF TypeOK, output
  <2>2. PhaseInv'
    BY <1>r, <1>i, <1>m, <1>5 DEF TypeOK, PhaseInv, PremiseUnknown, Concluded, AfterPremise, methods, Compiled, PremiseStages, LoopPhases, Methods
  <2>3. ReportInv'
    BY <1>r, <1>k, <1>i, <1>5 DEF TypeOK, PhaseInv, ReportInv, PremiseUnknown, Concluded, AfterPremise, methods, output, TimedOut, Speculative, PremiseStages
  <2>4. EndInv'
    BY <1>r, <1>k, <1>i, <1>5 DEF TypeOK, PhaseInv, ReportInv, EndInv, PremiseUnknown, Concluded, AfterPremise, methods, output, TimedOut, Speculative, PremiseStages
  <2> QED
    BY <2>1, <2>2, <2>3, <2>4 DEF RunInv
<1>6. CASE ModePasses
  <2>1. TypeOK'
    <3>1. /\ pc' \in Phases
          /\ mode' \in 0..(NumCounters(req) + 1)
          /\ proof' \in Results \ {"REFUTED"}
      BY <1>k, <1>i, <1>m, <1>6 DEF TypeOK, PhaseInv, ModePasses, Concluded, Phases, Results, PremiseStages
    <3>2. UNCHANGED <<stopped, legacy, bddFailed, failure, closedLoop, code, reach, z, newZ, y, goal, fi, output>>
      BY <1>6 DEF ModePasses, Concluded, methods, search
    <3> QED
      BY <1>r, <1>i, <3>1, <3>2 DEF TypeOK, output
  <2>2. PhaseInv'
    BY <1>r, <1>i, <1>m, <1>6 DEF TypeOK, PhaseInv, ModePasses, Concluded, methods, Compiled, PremiseStages, LoopPhases, Methods
  <2>3. ReportInv'
    BY <1>r, <1>k, <1>i, <1>6 DEF TypeOK, PhaseInv, ReportInv, ModePasses, Concluded, methods, output, TimedOut, Speculative, PremiseStages
  <2>4. EndInv'
    BY <1>r, <1>k, <1>i, <1>6 DEF TypeOK, PhaseInv, ReportInv, EndInv, ModePasses, Concluded, methods, output, TimedOut, Speculative, PremiseStages
  <2> QED
    BY <2>1, <2>2, <2>3, <2>4 DEF RunInv
<1>7. CASE ModeViolated
  <2>1. TypeOK'
    <3>1. /\ pc' \in Phases
          /\ proof' \in Results \ {"REFUTED"}
      BY <1>k, <1>i, <1>m, <1>7 DEF TypeOK, PhaseInv, ModeViolated, Concluded, Phases, Results, PremiseStages
    <3>2. UNCHANGED <<stopped, legacy, bddFailed, failure, closedLoop, mode, code, reach, z, newZ, y, goal, fi, output>>
      BY <1>7 DEF ModeViolated, Concluded, methods, search
    <3> QED
      BY <1>r, <1>i, <3>1, <3>2 DEF TypeOK, output
  <2>2. PhaseInv'
    BY <1>r, <1>i, <1>m, <1>7 DEF TypeOK, PhaseInv, ModeViolated, Concluded, methods, Compiled, PremiseStages, LoopPhases, Methods
  <2>3. ReportInv'
    BY <1>r, <1>k, <1>i, <1>7 DEF TypeOK, PhaseInv, ReportInv, ModeViolated, Concluded, methods, output, TimedOut, Speculative, PremiseStages
  <2>4. EndInv'
    BY <1>r, <1>k, <1>i, <1>7 DEF TypeOK, PhaseInv, ReportInv, EndInv, ModeViolated, Concluded, methods, output, TimedOut, Speculative, PremiseStages
  <2> QED
    BY <2>1, <2>2, <2>3, <2>4 DEF RunInv
<1>8. CASE ModeUnknown
  <2>1. TypeOK'
    <3>1. bddFailed' \in BOOLEAN
      BY <1>i, <1>8 DEF TypeOK, ModeUnknown, Concluded, CompileFailures
    <3>2. /\ pc' \in Phases
          /\ failure' \in {"NONE", "BDD", "HOST"} \cup StopKinds
          /\ proof' \in Results \ {"REFUTED"}
      BY <1>k, <1>i, <1>m, <1>8 DEF TypeOK, PhaseInv, ModeUnknown, Concluded, CompileFailures, Phases, Results, PremiseStages
    <3>3. UNCHANGED <<stopped, legacy, closedLoop, mode, code, reach, z, newZ, y, goal, fi, output>>
      BY <1>8 DEF ModeUnknown, Concluded, CompileFailures, methods, search
    <3> QED
      BY <1>r, <1>i, <3>1, <3>2, <3>3 DEF TypeOK, output
  <2>2. PhaseInv'
    BY <1>r, <1>i, <1>m, <1>8 DEF TypeOK, PhaseInv, ModeUnknown, Concluded, CompileFailures, methods, Compiled, PremiseStages, LoopPhases, Methods
  <2>3. ReportInv'
    BY <1>r, <1>k, <1>i, <1>8 DEF TypeOK, PhaseInv, ReportInv, ModeUnknown, Concluded, CompileFailures, methods, output, TimedOut, Speculative, PremiseStages
  <2>4. EndInv'
    BY <1>r, <1>k, <1>i, <1>8 DEF TypeOK, PhaseInv, ReportInv, EndInv, ModeUnknown, Concluded, CompileFailures, methods, output, TimedOut, Speculative, PremiseStages
  <2> QED
    BY <2>1, <2>2, <2>3, <2>4 DEF RunInv
<1>9. CASE LoopUnknown
  <2>1. TypeOK'
    <3>1. bddFailed' \in BOOLEAN
      BY <1>i, <1>9 DEF TypeOK, LoopUnknown, CompileFailures
    <3>2. /\ pc' \in Phases
          /\ failure' \in {"NONE", "BDD", "HOST"} \cup StopKinds
          /\ closedLoop' \in Results \ {"CERT_FAILED"}
      BY <1>k, <1>i, <1>m, <1>9 DEF TypeOK, PhaseInv, LoopUnknown, CompileFailures, Phases, Results, PremiseStages
    <3>3. UNCHANGED <<stopped, legacy, proof, mode, code, reach, z, newZ, y, goal, fi, output>>
      BY <1>9 DEF LoopUnknown, CompileFailures, methods, search
    <3> QED
      BY <1>r, <1>i, <3>1, <3>2, <3>3 DEF TypeOK, output
  <2>2. PhaseInv'
    BY <1>r, <1>i, <1>m, <1>9 DEF TypeOK, PhaseInv, LoopUnknown, CompileFailures, methods, Compiled, PremiseStages, LoopPhases, Methods
  <2>3. ReportInv'
    BY <1>r, <1>k, <1>i, <1>9 DEF TypeOK, PhaseInv, ReportInv, LoopUnknown, CompileFailures, methods, output, TimedOut, Speculative, PremiseStages
  <2>4. EndInv'
    BY <1>r, <1>k, <1>i, <1>9 DEF TypeOK, PhaseInv, ReportInv, EndInv, LoopUnknown, CompileFailures, methods, output, TimedOut, Speculative, PremiseStages
  <2> QED
    BY <2>1, <2>2, <2>3, <2>4 DEF RunInv
<1>10. CASE Decide
  <2>1. TypeOK'
    <3>1. bddFailed' \in BOOLEAN
      BY <1>i, <1>10 DEF TypeOK, Decide, Repeat, ExitCode, Speculative, methods
    <3>2. legacy' \in BOOLEAN
      BY <1>i, <1>10 DEF TypeOK, Decide, Repeat, ExitCode, Speculative, methods
    <3>3. /\ pc' \in Phases
          /\ failure' \in {"NONE", "BDD", "HOST"} \cup StopKinds
          /\ proof' \in Results \ {"REFUTED"}
          /\ mode' \in 0..(NumCounters(req) + 1)
          /\ code' \in Results \cup {"none", "INVALID", "ERROR", "INTERNAL"}
      BY <1>k, <1>i, <1>m, <1>10 DEF TypeOK, PhaseInv, Decide, Repeat, ExitCode, Speculative, methods, Phases, Results, PremiseStages
    <3>4. UNCHANGED <<stopped, closedLoop, reach, z, newZ, y, goal, fi, output>>
      BY <1>10 DEF Decide, Repeat, ExitCode, Speculative, methods, search
    <3> QED
      BY <1>r, <1>i, <3>1, <3>2, <3>3, <3>4 DEF TypeOK, output
  <2>2. PhaseInv'
    BY <1>r, <1>i, <1>m, <1>10 DEF TypeOK, PhaseInv, Decide, Repeat, ExitCode, Speculative, methods, Compiled, PremiseStages, LoopPhases, Methods
  <2>3. ReportInv'
    <3>1. CASE Speculative /\ ~TimedOut /\ proof # "VERIFIED"
      <4>1. pc' = "read" /\ UNCHANGED <<json, status, verdict>>
        BY <1>10, <3>1 DEF Decide, Repeat, output
      <4> QED
        BY <1>i, <1>10, <4>1 DEF ReportInv, Decide
    <3>2. CASE ~(Speculative /\ ~TimedOut /\ proof # "VERIFIED")
      <4>1. /\ pc' = "result" /\ code' = ExitCode
            /\ UNCHANGED <<json, status, verdict, legacy, stopped>>
        BY <1>10, <3>2 DEF Decide, output
      <4>2. ExitCode # "none"
        BY <1>i DEF TypeOK, Results, ExitCode
      <4>3. ExitCode \in {"CERT_FAILED", "UNKNOWN"} => ~Speculative \/ TimedOut
        <5>1. SUFFICES ASSUME Speculative, ~TimedOut
                       PROVE  ExitCode = "VERIFIED"
          OBVIOUS
        <5>2. proof = "VERIFIED" /\ req.method = "CERTIFICATE"
          BY <3>2, <5>1 DEF Speculative
        <5>3. closedLoop = "SKIPPED"
          BY <1>i, <5>2 DEF PhaseInv
        <5> QED
          BY <5>2, <5>3 DEF ExitCode
      <4>4. Speculative' = Speculative /\ TimedOut' = TimedOut
        BY <1>r, <4>1 DEF Speculative, TimedOut
      <4> QED
        BY <1>i, <1>10, <4>1, <4>2, <4>3, <4>4 DEF ReportInv, Decide
    <3> QED
      BY <3>1, <3>2
  <2>4. EndInv'
    BY <1>r, <1>k, <1>i, <1>10 DEF TypeOK, PhaseInv, ReportInv, EndInv, Decide, Repeat, ExitCode, Speculative, methods, output, TimedOut, PremiseStages
  <2> QED
    BY <2>1, <2>2, <2>3, <2>4 DEF RunInv
<1> QED
  BY <1>2, <1>3, <1>4, <1>5, <1>6, <1>7, <1>8, <1>9, <1>10

\* The closed loop: what is looked at are states of it.
LEMMA LoopStep ==
  ASSUME RunInv,
         StartLoop \/ ReachMore \/ ReachDone \/ AvoidStep \/ YStep \/ ZStep
  PROVE  RunInv'
<1>1. [Next]_vars
  BY DEF Next, Step
<1>r. /\ req' = req /\ Game' = Game /\ NumCounters(req)' = NumCounters(req)
      /\ WellFormed' = WellFormed /\ ArgumentsFit' = ArgumentsFit /\ LoopStates(req)' = LoopStates(req)
  BY <1>1, RequestKept
<1>k. StopKinds \subseteq {"DEADLINE", "CANCELLED"}
  BY CheckConstants
<1>i. TypeOK /\ PhaseInv /\ ReportInv /\ EndInv
  BY DEF RunInv
<1>m. req.method \in Methods /\ NumCounters(req) \in Nat /\ NumGoals(Game) \in Nat
  BY <1>i, Counters DEF PhaseInv
<1>s. pc \in LoopPhases =>
        /\ <<Game.reset, {}>> \in LoopStates(req)
        /\ \A q \in LoopStates(req) : Successors(req, q) \subseteq LoopStates(req)
  <2> SUFFICES ASSUME pc \in LoopPhases
               PROVE  /\ <<Game.reset, {}>> \in LoopStates(req)
                      /\ \A q \in LoopStates(req) : Successors(req, q) \subseteq LoopStates(req)
    OBVIOUS
  <2>1. WellFormed /\ req \in Requests
    BY <1>i DEF PhaseInv, Compiled
  <2>2. ~req.policy.none
    BY <1>i DEF PhaseInv, Compiled, ArgumentsFit
  <2>3. Game.reset \in State
    BY <2>1, Counters DEF GameRecords
  <2>4. Playable(req)
    BY <2>1, <2>2 DEF Playable, WellFormed, Game
  <2> QED
    BY <2>3, <2>4, SuccessorsTyped DEF LoopStates
<1>2. CASE StartLoop
  <2>1. TypeOK'
    <3>1. {reach', z', newZ', y'} \subseteq SUBSET LoopStates(req)
      BY <1>i, <1>s, <1>2 DEF TypeOK, LoopPhases, StartLoop
    <3>2. /\ pc' \in Phases
      BY <1>k, <1>i, <1>m, <1>2 DEF TypeOK, PhaseInv, StartLoop, Phases, Results, PremiseStages
    <3>3. UNCHANGED <<stopped, legacy, bddFailed, failure, proof, closedLoop, mode, code, goal, fi, output>>
      BY <1>2 DEF StartLoop, methods, search
    <3> QED
      BY <1>r, <1>i, <3>1, <3>2, <3>3 DEF TypeOK, output
  <2>2. PhaseInv'
    BY <1>r, <1>i, <1>m, <1>2 DEF TypeOK, PhaseInv, StartLoop, methods, Compiled, PremiseStages, LoopPhases, Methods
  <2>3. ReportInv'
    BY <1>r, <1>k, <1>i, <1>2 DEF TypeOK, PhaseInv, ReportInv, StartLoop, methods, output, TimedOut, Speculative, PremiseStages
  <2>4. EndInv'
    BY <1>r, <1>k, <1>i, <1>2 DEF TypeOK, PhaseInv, ReportInv, EndInv, StartLoop, methods, output, TimedOut, Speculative, PremiseStages
  <2> QED
    BY <2>1, <2>2, <2>3, <2>4 DEF RunInv
<1>3. CASE ReachMore
  <2>1. TypeOK'
    <3>1. {reach', z', newZ', y'} \subseteq SUBSET LoopStates(req)
      BY <1>i, <1>s, <1>3 DEF TypeOK, LoopPhases, ReachMore
    <3>2. UNCHANGED <<pc, stopped, legacy, bddFailed, failure, proof, closedLoop, mode, code, goal, fi, output>>
      BY <1>3 DEF ReachMore, methods, search
    <3> QED
      BY <1>r, <1>i, <3>1, <3>2 DEF TypeOK, output
  <2>2. PhaseInv'
    BY <1>r, <1>i, <1>m, <1>3 DEF TypeOK, PhaseInv, ReachMore, methods, Compiled, PremiseStages, LoopPhases, Methods
  <2>3. ReportInv'
    BY <1>r, <1>k, <1>i, <1>3 DEF TypeOK, PhaseInv, ReportInv, ReachMore, methods, output, TimedOut, Speculative, PremiseStages
  <2>4. EndInv'
    BY <1>r, <1>k, <1>i, <1>3 DEF TypeOK, PhaseInv, ReportInv, EndInv, ReachMore, methods, output, TimedOut, Speculative, PremiseStages
  <2> QED
    BY <2>1, <2>2, <2>3, <2>4 DEF RunInv
<1>4. CASE ReachDone
  <2>1. TypeOK'
    <3>1. {reach', z', newZ', y'} \subseteq SUBSET LoopStates(req)
      BY <1>i, <1>s, <1>4 DEF TypeOK, LoopPhases, ReachDone, StartAvoiding, StartSearch, LoopConcluded, Allowed, Avoiding, In
    <3>2. /\ pc' \in Phases
          /\ closedLoop' \in Results \ {"CERT_FAILED"}
          /\ goal' \in Nat /\ fi' \in Nat
      BY <1>k, <1>i, <1>m, <1>4 DEF TypeOK, PhaseInv, ReachDone, StartAvoiding, StartSearch, LoopConcluded, Phases, Results, PremiseStages
    <3>3. UNCHANGED <<stopped, legacy, bddFailed, failure, proof, mode, code, output>>
      BY <1>4 DEF ReachDone, StartAvoiding, StartSearch, LoopConcluded, methods, search
    <3> QED
      BY <1>r, <1>i, <3>1, <3>2, <3>3 DEF TypeOK, output
  <2>2. PhaseInv'
    BY <1>r, <1>i, <1>m, <1>4 DEF TypeOK, PhaseInv, ReachDone, StartAvoiding, StartSearch, LoopConcluded, methods, Compiled, PremiseStages, LoopPhases, Methods
  <2>3. ReportInv'
    BY <1>r, <1>k, <1>i, <1>4 DEF TypeOK, PhaseInv, ReportInv, ReachDone, StartAvoiding, StartSearch, LoopConcluded, methods, output, TimedOut, Speculative, PremiseStages
  <2>4. EndInv'
    BY <1>r, <1>k, <1>i, <1>4 DEF TypeOK, PhaseInv, ReportInv, EndInv, ReachDone, StartAvoiding, StartSearch, LoopConcluded, methods, output, TimedOut, Speculative, PremiseStages
  <2> QED
    BY <2>1, <2>2, <2>3, <2>4 DEF RunInv
<1>5. CASE AvoidStep
  <2>1. TypeOK'
    <3>1. {reach', z', newZ', y'} \subseteq SUBSET LoopStates(req)
      BY <1>i, <1>s, <1>5 DEF TypeOK, LoopPhases, AvoidStep, StartAvoiding, StartSearch, LoopConcluded, Allowed, Avoiding, In
    <3>2. /\ pc' \in Phases
          /\ closedLoop' \in Results \ {"CERT_FAILED"}
          /\ goal' \in Nat /\ fi' \in Nat
      BY <1>k, <1>i, <1>m, <1>5 DEF TypeOK, PhaseInv, AvoidStep, StartAvoiding, StartSearch, LoopConcluded, Phases, Results, PremiseStages
    <3>3. UNCHANGED <<stopped, legacy, bddFailed, failure, proof, mode, code, output>>
      BY <1>5 DEF AvoidStep, StartAvoiding, StartSearch, LoopConcluded, methods, search
    <3> QED
      BY <1>r, <1>i, <3>1, <3>2, <3>3 DEF TypeOK, output
  <2>2. PhaseInv'
    BY <1>r, <1>i, <1>m, <1>5 DEF TypeOK, PhaseInv, AvoidStep, StartAvoiding, StartSearch, LoopConcluded, methods, Compiled, PremiseStages, LoopPhases, Methods
  <2>3. ReportInv'
    BY <1>r, <1>k, <1>i, <1>5 DEF TypeOK, PhaseInv, ReportInv, AvoidStep, StartAvoiding, StartSearch, LoopConcluded, methods, output, TimedOut, Speculative, PremiseStages
  <2>4. EndInv'
    BY <1>r, <1>k, <1>i, <1>5 DEF TypeOK, PhaseInv, ReportInv, EndInv, AvoidStep, StartAvoiding, StartSearch, LoopConcluded, methods, output, TimedOut, Speculative, PremiseStages
  <2> QED
    BY <2>1, <2>2, <2>3, <2>4 DEF RunInv
<1>6. CASE YStep
  <2>1. TypeOK'
    <3>1. {reach', z', newZ', y'} \subseteq SUBSET LoopStates(req)
      BY <1>i, <1>s, <1>6 DEF TypeOK, LoopPhases, YStep, NextY, Allowed, In
    <3>2. /\ pc' \in Phases
          /\ goal' \in Nat /\ fi' \in Nat
      BY <1>k, <1>i, <1>m, <1>6 DEF TypeOK, PhaseInv, YStep, Phases, Results, PremiseStages
    <3>3. UNCHANGED <<stopped, legacy, bddFailed, failure, proof, closedLoop, mode, code, output>>
      BY <1>6 DEF YStep, methods, search
    <3> QED
      BY <1>r, <1>i, <3>1, <3>2, <3>3 DEF TypeOK, output
  <2>2. PhaseInv'
    BY <1>r, <1>i, <1>m, <1>6 DEF TypeOK, PhaseInv, YStep, methods, Compiled, PremiseStages, LoopPhases, Methods
  <2>3. ReportInv'
    BY <1>r, <1>k, <1>i, <1>6 DEF TypeOK, PhaseInv, ReportInv, YStep, methods, output, TimedOut, Speculative, PremiseStages
  <2>4. EndInv'
    BY <1>r, <1>k, <1>i, <1>6 DEF TypeOK, PhaseInv, ReportInv, EndInv, YStep, methods, output, TimedOut, Speculative, PremiseStages
  <2> QED
    BY <2>1, <2>2, <2>3, <2>4 DEF RunInv
<1>7. CASE ZStep
  <2>1. TypeOK'
    <3>1. {reach', z', newZ', y'} \subseteq SUBSET LoopStates(req)
      BY <1>i, <1>s, <1>7 DEF TypeOK, LoopPhases, ZStep, StartSearch, LoopConcluded, Allowed, In
    <3>2. /\ pc' \in Phases
          /\ closedLoop' \in Results \ {"CERT_FAILED"}
          /\ goal' \in Nat /\ fi' \in Nat
      BY <1>k, <1>i, <1>m, <1>7 DEF TypeOK, PhaseInv, ZStep, StartSearch, LoopConcluded, Phases, Results, PremiseStages
    <3>3. UNCHANGED <<stopped, legacy, bddFailed, failure, proof, mode, code, output>>
      BY <1>7 DEF ZStep, StartSearch, LoopConcluded, methods, search
    <3> QED
      BY <1>r, <1>i, <3>1, <3>2, <3>3 DEF TypeOK, output
  <2>2. PhaseInv'
    BY <1>r, <1>i, <1>m, <1>7 DEF TypeOK, PhaseInv, ZStep, StartSearch, LoopConcluded, methods, Compiled, PremiseStages, LoopPhases, Methods
  <2>3. ReportInv'
    BY <1>r, <1>k, <1>i, <1>7 DEF TypeOK, PhaseInv, ReportInv, ZStep, StartSearch, LoopConcluded, methods, output, TimedOut, Speculative, PremiseStages
  <2>4. EndInv'
    BY <1>r, <1>k, <1>i, <1>7 DEF TypeOK, PhaseInv, ReportInv, EndInv, ZStep, StartSearch, LoopConcluded, methods, output, TimedOut, Speculative, PremiseStages
  <2> QED
    BY <2>1, <2>2, <2>3, <2>4 DEF RunInv
<1> QED
  BY <1>2, <1>3, <1>4, <1>5, <1>6, <1>7

\* The invariant of the run.
LEMMA RunInvAlways == Spec => []RunInv
<1>1. Init => RunInv
  <2> SUFFICES ASSUME Init PROVE RunInv
    OBVIOUS
  <2>1. NumCounters(req) \in Nat
    BY Counters DEF Init
  <2>2. TypeOK
    <3>1. legacy \in BOOLEAN /\ bddFailed \in BOOLEAN /\ json \in BOOLEAN
      BY DEF Init
    <3>2. mode \in 0..(NumCounters(req) + 1)
      BY <2>1 DEF Init
    <3>3. {reach, z, newZ, y} \subseteq SUBSET LoopStates(req)
      BY DEF Init
    <3> QED
      BY <3>1, <3>2, <3>3 DEF Init, TypeOK, Phases, Results
  <2>3. PhaseInv
    BY DEF Init, PhaseInv, Compiled, PremiseStages, LoopPhases
  <2> QED
    BY <2>2, <2>3 DEF Init, RunInv, ReportInv, EndInv
<1>2. RunInv /\ [Next]_vars => RunInv'
  BY FrameStep, MethodStep, LoopStep DEF Next, Step
<1> QED
  BY <1>1, <1>2, PTL DEF Spec

\* What a check reports is closed under failure: a status other than OK comes with
\* no verdict and no JSON, an OK one with both, in time and with no resource
\* failure behind UNKNOWN, and no verdict against a policy rests on the
\* speculative pass (tlsf_gr1_check, gr1_check.c).
THEOREM ReportsFailClosed == Spec => []FailClosed
<1>1. RunInv => FailClosed
  BY DEF RunInv, PhaseInv, EndInv, FailClosed
<1> QED
  BY <1>1, RunInvAlways, PTL

-----------------------------------------------------------------------------
\* Paths.

\* Every non-empty set of naturals has a least element.
LEMMA LeastNatural ==
  ASSUME NEW T \in SUBSET Nat, T # {}
  PROVE  \E n \in T : \A m \in T : n <= m
<1> DEFINE R == {ss \in Nat \X Nat : ss[1] < ss[2]}
<1>1. IsWellFoundedOn(R, Nat)
  BY NatLessThanWellFounded, Zenon DEF OpToRel
<1>2. \A n, m \in Nat : ~(<<m, n>> \in R) => n <= m
  OBVIOUS
<1> HIDE DEF R
<1>3. \E n \in T : \A m \in T : ~(<<m, n>> \in R)
  BY <1>1, WFMin, Zenon
<1> QED
  BY <1>2, <1>3, Zenon

\* A property of 0 that every number passes on to the next, up to N.
LEMMA UpTo ==
  ASSUME NEW N \in Nat, NEW T \in SUBSET (0..N), 0 \in T,
         \A n \in 0..N : n \in T /\ n + 1 \in 0..N => n + 1 \in T
  PROVE  T = 0..N
<1> DEFINE F == (0..N) \ T
<1>1. SUFFICES ASSUME F # {} PROVE FALSE
  OBVIOUS
<1>2. F \in SUBSET Nat
  OBVIOUS
<1> HIDE DEF F
<1>3. PICK n \in F : \A m \in F : n <= m
  BY <1>1, <1>2, LeastNatural
<1> USE DEF F
<1>4. n # 0 /\ n - 1 \in 0..N /\ n - 1 \notin F
  BY <1>3
<1>5. n - 1 \in T /\ (n - 1) + 1 = n
  BY <1>3, <1>4
<1> QED
  BY <1>3, <1>4, <1>5

\* The right-hand side of the recursion, and its solutions up to n.
Wave(R, q, Q, f, n) == IF n = 0 THEN OneStep(R, {q}, Q) ELSE f[n - 1] \cup OneStep(R, f[n - 1], Q)
Waves(R, q, Q, f, n) == f \in [0..n -> SUBSET Q] /\ \A m \in 0..n : f[m] = Wave(R, q, Q, f, m)

\* The recursion has a solution up to every N,
LEMMA WavesExist ==
  ASSUME NEW R, NEW q, NEW Q, NEW N \in Nat
  PROVE  \E f : Waves(R, q, Q, f, N)
<1> DEFINE T == {n \in 0..N : \E f : Waves(R, q, Q, f, n)}
<1>o. \A S : OneStep(R, S, Q) \in SUBSET Q
  BY Zenon DEF OneStep
<1>1. 0 \in T
  <2> DEFINE f == [m \in 0..0 |-> OneStep(R, {q}, Q)]
  <2>1. f \in [0..0 -> SUBSET Q] /\ \A m \in 0..0 : m = 0 /\ f[m] = OneStep(R, {q}, Q)
    BY <1>o
  <2> HIDE DEF f
  <2>2. Waves(R, q, Q, f, 0)
    BY <2>1 DEF Waves, Wave
  <2> QED
    BY <2>2
<1>2. ASSUME NEW n \in 0..N, n \in T, n + 1 \in 0..N PROVE n + 1 \in T
  <2>1. PICK f : Waves(R, q, Q, f, n)
    BY <1>2
  <2> DEFINE h == [m \in 0..(n + 1) |-> IF m = n + 1 THEN f[n] \cup OneStep(R, f[n], Q) ELSE f[m]]
  <2>2. f[n] \in SUBSET Q /\ \A m \in 0..n : f[m] \in SUBSET Q
    BY <2>1 DEF Waves
  <2>3. h \in [0..(n + 1) -> SUBSET Q]
    BY <1>o, <2>2
  <2>4. \A m \in 0..n : h[m] = f[m]
    OBVIOUS
  <2>5. h[n + 1] = f[n] \cup OneStep(R, f[n], Q)
    OBVIOUS
  <2> HIDE DEF h
  <2>6. ASSUME NEW m \in 0..(n + 1) PROVE h[m] = Wave(R, q, Q, h, m)
    <3>1. CASE m = n + 1
      <4>1. m # 0 /\ m - 1 = n /\ n \in 0..n
        BY <3>1
      <4> QED
        BY <3>1, <2>4, <2>5, <4>1 DEF Wave
    <3>2. CASE m # n + 1 /\ m # 0
      <4>1. m \in 0..n /\ m - 1 \in 0..n
        BY <3>2
      <4> QED
        BY <2>1, <2>4, <4>1 DEF Waves, Wave
    <3>3. CASE m = 0
      <4>1. m \in 0..n
        BY <3>3
      <4> QED
        BY <2>1, <2>4, <3>3, <4>1 DEF Waves, Wave
    <3> QED
      BY <3>1, <3>2, <3>3
  <2>7. Waves(R, q, Q, h, n + 1)
    BY <2>3, <2>6 DEF Waves
  <2> QED
    BY <1>2, <2>7
<1> HIDE DEF T
<1>3. T = 0..N
  <2>1. T \in SUBSET (0..N)
    BY DEF T
  <2> QED
    BY <1>1, <1>2, <2>1, UpTo
<1> QED
  BY <1>3 DEF T

\* and ReachedFrom is the last wave of one.
LEMMA ReachedByWaves ==
  ASSUME NEW R, NEW q, NEW Q, IsFiniteSet(Q)
  PROVE  \E f : Waves(R, q, Q, f, Cardinality(Q)) /\ ReachedFrom(R, q, Q) = f[Cardinality(Q)]
<1> DEFINE N == Cardinality(Q)
           F == CHOOSE f : f = [n \in 0..N |-> Wave(R, q, Q, f, n)]
<1>1. N \in Nat
  BY FS_CardinalityType
<1>2. PICK f : Waves(R, q, Q, f, N)
  <2> HIDE DEF N
  <2> QED
    BY <1>1, WavesExist
<1>3. f = [n \in 0..N |-> Wave(R, q, Q, f, n)]
  BY <1>2 DEF Waves
<1>4. F = [n \in 0..N |-> Wave(R, q, Q, F, n)]
  <2> HIDE DEF N
  <2> QED
    BY <1>3, Zenon
<1>5. ReachedFrom(R, q, Q) = F[N]
  BY DEF ReachedFrom, Wave
<1> HIDE DEF F, N
<1>6. \A n \in 0..N : F[n] = Wave(R, q, Q, F, n)
  BY <1>4, Zenon
<1>7. DOMAIN F = 0..N
  BY <1>4, Zenon
<1> DEFINE T == {n \in 0..N : F[n] \in SUBSET Q}
<1>o. \A S : OneStep(R, S, Q) \in SUBSET Q
  BY Zenon DEF OneStep
<1>8. 0 \in T
  <2>1. 0 \in 0..N
    BY <1>1
  <2>2. F[0] = Wave(R, q, Q, F, 0)
    BY <1>6, <2>1, Zenon
  <2>3. Wave(R, q, Q, F, 0) = OneStep(R, {q}, Q)
    BY DEF Wave
  <2> QED
    BY <1>o, <2>1, <2>2, <2>3
<1>9. ASSUME NEW n \in 0..N, n \in T, n + 1 \in 0..N PROVE n + 1 \in T
  <2>1. n + 1 # 0 /\ (n + 1) - 1 = n
    BY <1>1
  <2>2. F[n + 1] = F[n] \cup OneStep(R, F[n], Q)
    BY <1>6, <1>9, <2>1 DEF Wave
  <2> QED
    BY <1>9, <2>2, <1>o
<1> HIDE DEF T
<1>10. T = 0..N
  <2>1. T \in SUBSET (0..N)
    BY DEF T
  <2> QED
    BY <1>1, <1>8, <1>9, <2>1, UpTo
<1>11. \A n \in 0..N : F[n] \in SUBSET Q
  BY <1>10 DEF T
<1>12. F \in [0..N -> SUBSET Q]
  BY <1>4, <1>6, <1>11
<1> QED
  BY <1>5, <1>6, <1>12 DEF Waves, N

\* The waves only grow, and stop growing before they are more than Q has.
LEMMA WavesSettle ==
  ASSUME NEW R, NEW q, NEW Q, IsFiniteSet(Q), NEW f, Waves(R, q, Q, f, Cardinality(Q))
  PROVE  OneStep(R, f[Cardinality(Q)], Q) \subseteq f[Cardinality(Q)]
<1> DEFINE N == Cardinality(Q)
           Settled(n) == OneStep(R, f[n], Q) \subseteq f[n]
<1>1. N \in Nat
  BY FS_CardinalityType
<1>2. /\ \A n \in 0..N : f[n] \in SUBSET Q
      /\ \A n \in 0..N : n + 1 \in 0..N => f[n + 1] = f[n] \cup OneStep(R, f[n], Q)
  <2> SUFFICES ASSUME NEW n \in 0..N
               PROVE  /\ f[n] \in SUBSET Q
                      /\ n + 1 \in 0..N => f[n + 1] = f[n] \cup OneStep(R, f[n], Q)
    OBVIOUS
  <2>1. n + 1 # 0 /\ (n + 1) - 1 = n
    BY <1>1
  <2> QED
    BY <2>1 DEF Waves, Wave
<1>3. SUFFICES ASSUME ~Settled(N) PROVE FALSE
  OBVIOUS
<1> HIDE DEF N
\* Once settled, always settled.
<1>4. \A n \in 0..N : ~Settled(n)
  <2> SUFFICES ASSUME NEW n \in 0..N, Settled(n) PROVE FALSE
    OBVIOUS
  <2> DEFINE T == {m \in 0..N : m >= n => f[m] = f[n]}
  <2>1. 0 \in T
    BY <1>1
  <2>2. ASSUME NEW m \in 0..N, m \in T, m + 1 \in 0..N PROVE m + 1 \in T
    <3>1. CASE m >= n
      <4>1. f[m] = f[n] /\ f[m + 1] = f[m] \cup OneStep(R, f[m], Q)
        BY <1>2, <2>2, <3>1
      <4> QED
        BY <2>2, <4>1
    <3>2. CASE ~(m >= n)
      <4>1. m + 1 >= n => m + 1 = n
        BY <1>1, <3>2
      <4> QED
        BY <2>2, <4>1
    <3> QED
      BY <3>1, <3>2
  <2> HIDE DEF T
  <2>3. T = 0..N
    <3>1. T \in SUBSET (0..N)
      BY DEF T
    <3> QED
      BY <1>1, <2>1, <2>2, <3>1, UpTo
  <2>4. f[N] = f[n]
    BY <1>1, <2>3 DEF T
  <2> QED
    BY <1>3, <2>4
<1> DEFINE T == {n \in 0..N : Cardinality(f[n]) > n}
<1>f. \A n \in 0..N : IsFiniteSet(f[n]) /\ Cardinality(f[n]) \in Nat
  BY <1>2, FS_Subset, FS_CardinalityType
<1>5. 0 \in T
  <2>1. f[0] # {}
    BY <1>1, <1>4 DEF OneStep
  <2> QED
    BY <1>1, <1>f, <2>1, FS_EmptySet
<1>6. ASSUME NEW n \in 0..N, n \in T, n + 1 \in 0..N PROVE n + 1 \in T
  <2>1. f[n] \subseteq f[n + 1] /\ f[n + 1] # f[n]
    BY <1>2, <1>4, <1>6
  <2>2. Cardinality(f[n]) < Cardinality(f[n + 1])
    BY <2>1, <1>f, <1>6, FS_Subset
  <2> QED
    BY <1>1, <1>f, <1>6, <2>2
<1> HIDE DEF T, Settled
<1>7. T = 0..N
  <2>1. T \in SUBSET (0..N)
    BY DEF T
  <2> QED
    BY <1>1, <1>5, <1>6, <2>1, UpTo
<1>8. Cardinality(f[N]) > N
  BY <1>1, <1>7 DEF T
<1>9. Cardinality(f[N]) <= N
  BY <1>1, <1>2, FS_Subset DEF N
<1> QED
  BY <1>1, <1>f, <1>8, <1>9

\* ReachedFrom is the least set that holds the steps from q and from itself.
LEMMA Reached ==
  ASSUME NEW R, NEW q, NEW Q, IsFiniteSet(Q)
  PROVE  /\ ReachedFrom(R, q, Q) \subseteq Q
         /\ Successors(R, q) \cap Q \subseteq ReachedFrom(R, q, Q)
         /\ \A p \in ReachedFrom(R, q, Q) : Successors(R, p) \cap Q \subseteq ReachedFrom(R, q, Q)
<1>1. PICK f : Waves(R, q, Q, f, Cardinality(Q)) /\ ReachedFrom(R, q, Q) = f[Cardinality(Q)]
  BY ReachedByWaves
<1> DEFINE N == Cardinality(Q)
<1>2. N \in Nat
  BY FS_CardinalityType
<1>3. OneStep(R, f[N], Q) \subseteq f[N]
  BY <1>1, WavesSettle
<1> HIDE DEF N
<1>4. \A n \in 0..N : n + 1 \in 0..N => f[n + 1] = f[n] \cup OneStep(R, f[n], Q)
  <2> SUFFICES ASSUME NEW n \in 0..N, n + 1 \in 0..N
               PROVE  f[n + 1] = f[n] \cup OneStep(R, f[n], Q)
    OBVIOUS
  <2>1. n + 1 # 0 /\ (n + 1) - 1 = n
    BY <1>2
  <2> QED
    BY <1>1, <2>1 DEF Waves, Wave, N
<1>5. f[0] = OneStep(R, {q}, Q) /\ f[N] \subseteq Q
  BY <1>1, <1>2 DEF Waves, Wave, N
<1> DEFINE T == {n \in 0..N : f[0] \subseteq f[n]}
<1>6. 0 \in T
  BY <1>2
<1>7. ASSUME NEW n \in 0..N, n \in T, n + 1 \in 0..N PROVE n + 1 \in T
  BY <1>4, <1>7
<1> HIDE DEF T
<1>8. T = 0..N
  <2>1. T \in SUBSET (0..N)
    BY DEF T
  <2> QED
    BY <1>2, <1>6, <1>7, <2>1, UpTo
<1>9. f[0] \subseteq f[N]
  BY <1>2, <1>8 DEF T
<1>10. Successors(R, q) \cap Q \subseteq f[0]
  BY <1>5 DEF OneStep
<1>11. \A p \in f[N] : Successors(R, p) \cap Q \subseteq f[N]
  BY <1>3 DEF OneStep
<1>12. ReachedFrom(R, q, Q) = f[N]
  BY <1>1 DEF N
<1> QED
  BY <1>5, <1>9, <1>10, <1>11, <1>12

\* and every such set holds it.
LEMMA ReachedLeast ==
  ASSUME NEW R, NEW q, NEW Q, IsFiniteSet(Q), NEW S, Successors(R, q) \cap Q \subseteq S,
         \A p \in S : p \in Q => Successors(R, p) \cap Q \subseteq S
  PROVE  ReachedFrom(R, q, Q) \subseteq S
<1>1. PICK f : Waves(R, q, Q, f, Cardinality(Q)) /\ ReachedFrom(R, q, Q) = f[Cardinality(Q)]
  BY ReachedByWaves
<1> DEFINE N == Cardinality(Q)
           T == {n \in 0..N : f[n] \subseteq S}
<1>2. N \in Nat
  BY FS_CardinalityType
<1> HIDE DEF N
<1>3. 0 \in T
  <2>1. f[0] = OneStep(R, {q}, Q)
    <3>1. 0 \in 0..N
      BY <1>2
    <3>2. f[0] = Wave(R, q, Q, f, 0)
      BY <1>1, <3>1 DEF Waves, N
    <3> QED
      BY <3>2 DEF Wave
  <2>2. f[0] \subseteq S
    BY <2>1 DEF OneStep
  <2> QED
    BY <1>2, <2>2
<1>4. ASSUME NEW n \in 0..N, n \in T, n + 1 \in 0..N PROVE n + 1 \in T
  <2>1. n + 1 # 0 /\ (n + 1) - 1 = n
    BY <1>2
  <2>2. f[n + 1] = f[n] \cup OneStep(R, f[n], Q) /\ f[n] \subseteq Q
    BY <1>1, <1>4, <2>1 DEF Waves, Wave, N
  <2>3. OneStep(R, f[n], Q) \subseteq S
    BY <1>4, <2>2 DEF OneStep
  <2> QED
    BY <1>4, <2>2, <2>3
<1> HIDE DEF T
<1>5. T = 0..N
  <2>1. T \in SUBSET (0..N)
    BY DEF T
  <2> QED
    BY <1>2, <1>3, <1>4, <2>1, UpTo
<1>6. f[N] \subseteq S
  BY <1>2, <1>5 DEF T
<1> QED
  BY <1>1, <1>6 DEF N

\* Paths go on, begin with a step, and are found from behind.
LEMMA ReachedOn ==
  ASSUME NEW R, NEW q, NEW Q, IsFiniteSet(Q), NEW p \in ReachedFrom(R, q, Q)
  PROVE  ReachedFrom(R, p, Q) \subseteq ReachedFrom(R, q, Q)
<1>1. /\ Successors(R, p) \cap Q \subseteq ReachedFrom(R, q, Q)
      /\ \A r \in ReachedFrom(R, q, Q) : Successors(R, r) \cap Q \subseteq ReachedFrom(R, q, Q)
  BY Reached
<1> QED
  BY <1>1, ReachedLeast

\* A path begins with a step,
LEMMA FirstStep ==
  ASSUME NEW R, NEW q, NEW Q, IsFiniteSet(Q), NEW r \in ReachedFrom(R, q, Q)
  PROVE  \E p \in Successors(R, q) \cap Q : r = p \/ r \in ReachedFrom(R, p, Q)
<1> DEFINE S == {t \in Q : \E p \in Successors(R, q) \cap Q : t = p \/ t \in ReachedFrom(R, p, Q)}
<1>1. Successors(R, q) \cap Q \subseteq S
  OBVIOUS
<1>2. ASSUME NEW t \in S PROVE Successors(R, t) \cap Q \subseteq S
  <2>1. PICK p \in Successors(R, q) \cap Q : t = p \/ t \in ReachedFrom(R, p, Q)
    OBVIOUS
  <2>2. Successors(R, t) \cap Q \subseteq ReachedFrom(R, p, Q)
    BY <2>1, Reached
  <2> QED
    BY <2>1, <2>2
<1> HIDE DEF S
<1>3. ReachedFrom(R, q, Q) \subseteq S
  BY <1>1, <1>2, ReachedLeast
<1> QED
  BY <1>3 DEF S

\* and what holds at its end and passes to predecessors holds at its start.
LEMMA FromBehind ==
  ASSUME NEW R, NEW Q, IsFiniteSet(Q), NEW p \in Q, NEW S, NEW r \in S, r \in ReachedFrom(R, p, Q),
         \A t \in Q : Successors(R, t) \cap S # {} => t \in S
  PROVE  p \in S
<1>1. SUFFICES ASSUME p \notin S PROVE FALSE
  OBVIOUS
<1> DEFINE U == Q \ S
<1>2. Successors(R, p) \cap Q \subseteq U
  BY <1>1
<1>3. \A t \in U : Successors(R, t) \cap Q \subseteq U
  OBVIOUS
<1> HIDE DEF U
<1>4. ReachedFrom(R, p, Q) \subseteq U
  BY <1>2, <1>3, ReachedLeast
<1> QED
  BY <1>4 DEF U

-----------------------------------------------------------------------------
\* Sets of states with a cycle.

\* From every state of C a step leads on inside C, and a path back into C meets
\* each of the sets there.
Core(R, C, Q, sets) ==
  /\ C \subseteq Q
  /\ \A p \in C :
       /\ Successors(R, p) \cap C # {}
       /\ \A k \in 1..Len(sets) : \E r \in C \cap ReachedFrom(R, p, Q) : r[1] \in sets[k]

\* The same, with paths for steps.
LooseCore(R, C, Q, sets) ==
  /\ C \subseteq Q
  /\ \A p \in C :
       /\ ReachedFrom(R, p, Q) \cap C # {}
       /\ \A k \in 1..Len(sets) : \E r \in C \cap ReachedFrom(R, p, Q) : r[1] \in sets[k]

\* The states that a cycle shares with q are a core.
LEMMA CycleHasCore ==
  ASSUME NEW R, NEW Q, IsFiniteSet(Q), NEW sets, CycleMeeting(R, Q, sets)
  PROVE  \E C : C # {} /\ Core(R, C, Q, sets)
<1>1. PICK q \in Q :
        /\ q \in ReachedFrom(R, q, Q)
        /\ \A k \in 1..Len(sets) : \E r \in ReachedFrom(R, q, Q) :
             r[1] \in sets[k] /\ q \in ReachedFrom(R, r, Q)
  BY DEF CycleMeeting
<1> DEFINE C == {p \in Q : p \in ReachedFrom(R, q, Q) /\ q \in ReachedFrom(R, p, Q)}
<1>2. q \in C
  BY <1>1
<1>3. ASSUME NEW p \in C PROVE Successors(R, p) \cap C # {}
  <2>1. q \in ReachedFrom(R, p, Q) /\ p \in ReachedFrom(R, q, Q)
    OBVIOUS
  <2>2. PICK t \in Successors(R, p) \cap Q : q = t \/ q \in ReachedFrom(R, t, Q)
    BY <2>1, FirstStep
  <2>3. t \in ReachedFrom(R, q, Q)
    BY <2>1, <2>2, Reached
  <2>4. q \in ReachedFrom(R, t, Q)
    BY <1>1, <2>2
  <2> QED
    BY <2>2, <2>3, <2>4
<1>4. ASSUME NEW p \in C, NEW k \in 1..Len(sets)
      PROVE  \E r \in C \cap ReachedFrom(R, p, Q) : r[1] \in sets[k]
  <2>1. PICK r \in ReachedFrom(R, q, Q) : r[1] \in sets[k] /\ q \in ReachedFrom(R, r, Q)
    BY <1>1
  <2>2. r \in C
    BY <2>1, Reached
  <2>3. ReachedFrom(R, q, Q) \subseteq ReachedFrom(R, p, Q)
    BY ReachedOn
  <2> QED
    BY <2>1, <2>2, <2>3
<1> HIDE DEF C
<1>5. C \subseteq Q
  BY DEF C
<1>6. Core(R, C, Q, sets)
  BY <1>3, <1>4, <1>5 DEF Core
<1> QED
  BY <1>2, <1>6

\* A state of a loose core from which least is reached lies on a cycle.
LEMMA CoreHasCycle ==
  ASSUME NEW R, NEW Q, IsFiniteSet(Q), NEW sets, NEW C, C # {}, LooseCore(R, C, Q, sets)
  PROVE  CycleMeeting(R, Q, sets)
<1> DEFINE Size(p) == Cardinality(ReachedFrom(R, p, Q))
           T == {Size(p) : p \in C}
<1>1. \A p : IsFiniteSet(ReachedFrom(R, p, Q)) /\ Size(p) \in Nat
  BY Reached, FS_Subset, FS_CardinalityType
<1>2. T \in SUBSET Nat /\ T # {}
  BY <1>1
<1> HIDE DEF T
<1>3. PICK n \in T : \A m \in T : n <= m
  BY <1>2, LeastNatural
<1>4. PICK q \in C : Size(q) = n
  BY <1>3 DEF T
<1>5. ASSUME NEW p \in C \cap ReachedFrom(R, q, Q)
      PROVE  ReachedFrom(R, p, Q) = ReachedFrom(R, q, Q)
  <2>1. ReachedFrom(R, p, Q) \subseteq ReachedFrom(R, q, Q)
    BY ReachedOn
  <2>2. ~(Size(p) < Size(q))
    <3>1. Size(p) \in T
      BY DEF T
    <3> QED
      BY <1>1, <1>3, <1>4, <3>1
  <2> QED
    BY <1>1, <2>1, <2>2, FS_Subset
<1>6. PICK p \in C \cap ReachedFrom(R, q, Q) : TRUE
  BY DEF LooseCore
<1>7. p \in Q /\ p \in ReachedFrom(R, p, Q)
  BY <1>5, <1>6 DEF LooseCore
<1>8. ASSUME NEW k \in 1..Len(sets)
      PROVE  \E r \in ReachedFrom(R, p, Q) : r[1] \in sets[k] /\ p \in ReachedFrom(R, r, Q)
  <2>1. PICK r \in C \cap ReachedFrom(R, p, Q) : r[1] \in sets[k]
    BY <1>6 DEF LooseCore
  <2>2. ReachedFrom(R, p, Q) = ReachedFrom(R, q, Q) /\ ReachedFrom(R, r, Q) = ReachedFrom(R, q, Q)
    BY <1>5, <1>6, <2>1
  <2> QED
    BY <1>7, <2>1, <2>2
<1> QED
  BY <1>7, <1>8 DEF CycleMeeting

-----------------------------------------------------------------------------
(***************************************************************************)
(* The checker's verdicts are right.  The closed loop: what the            *)
(* Emerson-Lei search keeps holds every set with a cycle it looks for, and *)
(* what is left when it settles has one.  The certificates: a counter's    *)
(* distance and the ranks fall along every path, so that no cycle defeats  *)
(* an accepted policy, and an accepted region solves the winning           *)
(* condition's fixpoint equation.                                          *)
(***************************************************************************)
\* The closed loop's states.

\* There are finitely many states of a loop.
LEMMA LoopFinite ==
  ASSUME NEW R \in Requests
  PROVE  IsFiniteSet(LoopStates(R))
<1>1. IsFiniteSet(1..NumCounters(R))
  BY RequestTyped, FS_Interval
<1>2. IsFiniteSet(SUBSET (1..NumCounters(R)))
  BY <1>1, FS_SUBSET
<1>3. IsFiniteSet(State)
  BY CheckConstants
<1> QED
  BY <1>2, <1>3, FS_Product DEF LoopStates

\* The reachable states are closed under the rounds of the loop, and least.
LEMMA ReachableClosed ==
  ASSUME NEW R, Playable(R)
  PROVE  /\ InitialState(R) \in Reachable(R) /\ Reachable(R) \subseteq LoopStates(R)
         /\ IsFiniteSet(Reachable(R))
         /\ \A q \in Reachable(R) : Successors(R, q) \subseteq Reachable(R)
<1> DEFINE Q == LoopStates(R)
           q0 == InitialState(R)
<1>1. IsFiniteSet(Q)
  BY LoopFinite DEF Playable
<1>2. q0 \in Q
  <2>1. R.game.reset \in State
    BY RequestTyped DEF Playable, GameRecords
  <2> QED
    BY <2>1 DEF InitialState, LoopStates
<1>3. \A q \in Q : Successors(R, q) \subseteq Q
  BY SuccessorsTyped
<1> HIDE DEF Q, q0
<1>4. /\ ReachedFrom(R, q0, Q) \subseteq Q
      /\ Successors(R, q0) \cap Q \subseteq ReachedFrom(R, q0, Q)
      /\ \A p \in ReachedFrom(R, q0, Q) : Successors(R, p) \cap Q \subseteq ReachedFrom(R, q0, Q)
  BY <1>1, Reached
<1>5. Reachable(R) = {q0} \cup ReachedFrom(R, q0, Q)
  BY DEF Reachable, q0, Q
<1>6. Reachable(R) \subseteq Q
  BY <1>2, <1>4, <1>5
<1>7. \A q \in Reachable(R) : Successors(R, q) \subseteq Reachable(R)
  BY <1>2, <1>3, <1>4, <1>5
<1>8. IsFiniteSet(Reachable(R))
  BY <1>1, <1>6, FS_Subset
<1> QED
  BY <1>5, <1>6, <1>7, <1>8 DEF Q, q0

\* Every set that holds the initial state and is closed holds them.
LEMMA ReachableLeast ==
  ASSUME NEW R, Playable(R), NEW S, InitialState(R) \in S,
         \A q \in S : q \in LoopStates(R) => Successors(R, q) \subseteq S
  PROVE  Reachable(R) \subseteq S
<1>1. IsFiniteSet(LoopStates(R))
  BY LoopFinite DEF Playable
<1>2. InitialState(R) \in LoopStates(R)
  BY ReachableClosed
<1>3. ReachedFrom(R, InitialState(R), LoopStates(R)) \subseteq S
  BY <1>1, <1>2, ReachedLeast
<1> QED
  BY <1>3 DEF Reachable

\* What holds of the states of a set closed under its steps holds along paths.
LEMMA PathStays ==
  ASSUME NEW R, NEW Q, IsFiniteSet(Q), NEW D, NEW q \in D \cap Q,
         \A t \in D \cap Q : Successors(R, t) \cap Q \subseteq D
  PROVE  ReachedFrom(R, q, Q) \subseteq D
BY ReachedLeast

-----------------------------------------------------------------------------
\* The sets of the search, of a request whose loop has been explored.
Sets(R) ==
  IF R.environment THEN R.game.fairs \o R.game.goals
                   ELSE [i \in 1..NumFairs(R.game) |-> Fair(R.game, i)]
Shunning(R, k) == In(Reachable(R), State \ R.game.fairs[k])
Arena(R, g) == IF R.environment THEN Reachable(R)
                                ELSE In(Reachable(R), State \ R.game.goals[g])

\* The states of the arena in set k with a step into Z, and those with a path
\* to one.
Good(R, g, k, Z) ==
  {p \in Arena(R, g) : p[1] \in Sets(R)[k] /\ Successors(R, p) \cap Z # {}}
Meets(R, g, k, Z) ==
  {p \in Arena(R, g) : \E t \in Good(R, g, k, Z) :
                          t = p \/ t \in ReachedFrom(R, p, Arena(R, g))}

\* The sets searched are finite and reachable.
LEMMA ArenaFacts ==
  ASSUME NEW R, Playable(R), NEW g
  PROVE  /\ IsFiniteSet(Arena(R, g)) /\ Arena(R, g) \subseteq Reachable(R)
         /\ IsFiniteSet(Shunning(R, g)) /\ Shunning(R, g) \subseteq Reachable(R)
<1>1. Arena(R, g) \subseteq Reachable(R) /\ Shunning(R, g) \subseteq Reachable(R)
  BY DEF Arena, Shunning, In
<1> QED
  BY <1>1, ReachableClosed, FS_Subset

\* There is at least one set to meet; for the system they are the assumptions.
LEMMA SetsFacts ==
  ASSUME NEW R, Playable(R)
  PROVE  /\ Len(Sets(R)) \in Nat \ {0}
         /\ ~R.environment => /\ Len(Sets(R)) = NumFairs(R.game)
                              /\ \A i \in 1..Len(Sets(R)) : Sets(R)[i] = Fair(R.game, i)
<1>1. /\ R.game.goals \in Seq(SUBSET State) /\ R.game.fairs \in Seq(SUBSET State)
      /\ Len(R.game.goals) \in Nat \ {0} /\ Len(R.game.fairs) \in Nat
      /\ NumFairs(R.game) \in Nat \ {0}
  BY RequestTyped DEF Playable, GameRecords, NumGoals
<1>2. CASE R.environment
  <2>1. Len(Sets(R)) = Len(R.game.fairs) + Len(R.game.goals)
    BY <1>1, <1>2 DEF Sets
  <2>2. \A a \in Nat, b \in Nat \ {0} : a + b \in Nat \ {0}
    OBVIOUS
  <2>3. Len(Sets(R)) \in Nat \ {0}
    BY <1>1, <2>1, <2>2
  <2> QED
    BY <1>2, <2>3
<1>3. CASE ~R.environment
  <2>1. Sets(R) = [i \in 1..NumFairs(R.game) |-> Fair(R.game, i)]
    BY <1>3 DEF Sets
  <2>2. Len(Sets(R)) = NumFairs(R.game)
    BY <1>1, <2>1
  <2> QED
    BY <1>1, <2>1, <2>2
<1> QED
  BY <1>2, <1>3

\* The fair cycles are the same with the assumption that always holds.
LEMMA FairCycles ==
  ASSUME NEW R, Playable(R), ~R.environment, NEW Q \in SUBSET Reachable(R)
  PROVE  CycleMeeting(R, Q, Sets(R)) <=> CycleMeeting(R, Q, R.game.fairs)
<1>1. R.game.fairs \in Seq(SUBSET State) /\ Len(R.game.fairs) \in Nat
  BY RequestTyped DEF Playable, GameRecords
<1>2. CASE Len(R.game.fairs) = 0
  <2>1. \A q \in Q : q[1] \in State
    BY ReachableClosed DEF LoopStates
  <2>2. /\ 1..Len(R.game.fairs) = {} /\ 1..Len(Sets(R)) = {1} /\ Sets(R)[1] = State
    BY <1>2, SetsFacts DEF NumFairs, Fair
  <2> QED
    BY <2>1, <2>2 DEF CycleMeeting
<1>3. CASE Len(R.game.fairs) # 0
  <2>1. /\ 1..Len(R.game.fairs) = 1..Len(Sets(R))
        /\ \A i \in 1..Len(Sets(R)) : Sets(R)[i] = R.game.fairs[i]
    BY <1>3, SetsFacts DEF NumFairs, Fair
  <2> QED
    BY <2>1 DEF CycleMeeting
<1> QED
  BY <1>2, <1>3

-----------------------------------------------------------------------------
\* The approximations of the search: from below what meets a set ...
LEMMA MeetsGrow ==
  ASSUME NEW R, Playable(R), NEW g, NEW k, NEW Z, NEW Y, Y \subseteq Meets(R, g, k, Z),
         NEW p \in Arena(R, g), p \in Good(R, g, k, Z) \/ Successors(R, p) \cap Y # {}
  PROVE  p \in Meets(R, g, k, Z)
<1> DEFINE Q == Arena(R, g)
<1>1. CASE p \in Good(R, g, k, Z)
  BY <1>1 DEF Meets
<1>2. CASE Successors(R, p) \cap Y # {}
  <2>1. PICK t \in Successors(R, p) : t \in Y
    BY <1>2
  <2>2. t \in Q
    BY <2>1 DEF Meets
  <2>3. PICK u \in Good(R, g, k, Z) : u = t \/ u \in ReachedFrom(R, t, Q)
    BY <2>1 DEF Meets
  <2>4. IsFiniteSet(Q)
    BY ArenaFacts
  <2> HIDE DEF Q
  <2>5. t \in ReachedFrom(R, p, Q)
    BY <2>1, <2>2, <2>4, Reached
  <2>6. ReachedFrom(R, t, Q) \subseteq ReachedFrom(R, p, Q)
    BY <2>4, <2>5, ReachedOn
  <2>7. u \in ReachedFrom(R, p, Q)
    BY <2>3, <2>5, <2>6
  <2> QED
    BY <2>7 DEF Meets, Q
<1> QED
  BY <1>1, <1>2

\* ... and from above what a cycle needs.
LEMMA CoresKept ==
  ASSUME NEW R, Playable(R), NEW g, NEW C, Core(R, C, Arena(R, g), Sets(R)),
         NEW Z, C \subseteq Z, NEW k \in 1..Len(Sets(R)), NEW Y,
         Good(R, g, k, Z) \subseteq Y,
         \A t \in Arena(R, g) : Successors(R, t) \cap Y # {} => t \in Y
  PROVE  C \subseteq Y
<1> SUFFICES ASSUME NEW p \in C PROVE p \in Y
  OBVIOUS
<1> DEFINE Q == Arena(R, g)
<1>1. PICK t \in C \cap ReachedFrom(R, p, Q) : t[1] \in Sets(R)[k]
  BY DEF Core
<1>2. t \in Q /\ p \in Q /\ Successors(R, t) \cap C # {}
  BY <1>1 DEF Core
<1>3. t \in Good(R, g, k, Z)
  BY <1>1, <1>2 DEF Good
<1>4. t \in Y /\ t \in ReachedFrom(R, p, Q)
  BY <1>1, <1>3
<1>5. IsFiniteSet(Q)
  BY ArenaFacts
<1>6. \A u \in Q : Successors(R, u) \cap Y # {} => u \in Y
  OBVIOUS
<1> HIDE DEF Q
<1> QED
  BY <1>2, <1>4, <1>5, <1>6, FromBehind

\* A set that the search leaves unchanged holds a cycle.
LEMMA SettledHasCycle ==
  ASSUME NEW R, Playable(R), NEW g, NEW Z, Z # {}, Z \subseteq Arena(R, g),
         \A k \in 1..Len(Sets(R)) : Z \subseteq Meets(R, g, k, Z),
         \A t \in Arena(R, g) : Successors(R, t) \cap Z # {} => t \in Z
  PROVE  CycleMeeting(R, Arena(R, g), Sets(R))
<1> DEFINE Q == Arena(R, g)
           sets == Sets(R)
<1>1. IsFiniteSet(Q) /\ Len(sets) \in Nat \ {0}
  BY ArenaFacts, SetsFacts
<1>2. \A k : Good(R, g, k, Z) \subseteq Z
  BY DEF Good
<1>3. ASSUME NEW p \in Z, NEW k \in 1..Len(sets)
      PROVE  \E t \in Z \cap ReachedFrom(R, p, Q) : t[1] \in sets[k]
  <2>1. \A u \in Z : \E t \in Good(R, g, k, Z) : t = u \/ t \in ReachedFrom(R, u, Q)
    BY <1>3 DEF Meets
  <2>2. PICK t \in Good(R, g, k, Z) : t = p \/ t \in ReachedFrom(R, p, Q)
    BY <2>1
  <2>3. CASE t \in ReachedFrom(R, p, Q)
    BY <1>2, <2>2, <2>3 DEF Good
  <2>4. CASE t = p
    <3>1. PICK u \in Successors(R, p) : u \in Z
      BY <2>2, <2>4 DEF Good
    <3>2. u \in ReachedFrom(R, p, Q)
      BY <1>1, <3>1, Reached
    <3>3. PICK v \in Good(R, g, k, Z) : v = u \/ v \in ReachedFrom(R, u, Q)
      BY <2>1, <3>1
    <3>4. v \in ReachedFrom(R, p, Q)
      BY <1>1, <3>2, <3>3, ReachedOn
    <3> QED
      BY <1>2, <3>3, <3>4 DEF Good
  <2> QED
    BY <2>2, <2>3, <2>4
<1>4. \A p \in Z : ReachedFrom(R, p, Q) \cap Z # {}
  <2>1. 1 \in 1..Len(sets)
    BY <1>1
  <2> QED
    BY <1>3, <2>1
<1>5. LooseCore(R, Z, Q, sets)
  BY <1>3, <1>4 DEF LooseCore
<1> HIDE DEF Q, sets
<1>6. CycleMeeting(R, Q, sets)
  BY <1>1, <1>5, CoreHasCycle
<1> QED
  BY <1>6 DEF Q, sets

\* A set from which a step always leads back inside holds a cycle too.
LEMMA TrapHasCycle ==
  ASSUME NEW R, NEW Q, IsFiniteSet(Q), NEW Z, Z # {}, Z \subseteq Q,
         \A p \in Z : Successors(R, p) \cap Z # {}
  PROVE  CycleMeeting(R, Q, << >>)
<1>1. \A p \in Z : ReachedFrom(R, p, Q) \cap Z # {}
  <2> SUFFICES ASSUME NEW p \in Z PROVE ReachedFrom(R, p, Q) \cap Z # {}
    OBVIOUS
  <2>1. Successors(R, p) \cap Q \subseteq ReachedFrom(R, p, Q)
    BY Reached
  <2> QED
    BY <2>1
<1>2. LooseCore(R, Z, Q, << >>)
  BY <1>1 DEF LooseCore
<1> QED
  BY <1>2, CoreHasCycle

-----------------------------------------------------------------------------
\* What the search knows in each phase.  Of the cycles: none among those looked
\* for before ...
NoUnfairCycle(R, k) == \A i \in 1..k : ~CycleMeeting(R, Shunning(R, i), << >>)
Cleared(R, g) ==
  IF R.environment
    THEN g = 1 /\ NoUnfairCycle(R, Len(R.game.fairs))
    ELSE /\ g \in 1..NumGoals(R.game)
         /\ \A q \in Reachable(R) : Rounds(R, q) \cap R.game.bad = {}
         /\ \A j \in 1..(g - 1) : ~CycleMeeting(R, Arena(R, j), Sets(R))

\* ... and those looked for now lie inside Z.
HoldsCores(R, Q, sets, Z) == \A C \in SUBSET LoopStates(R) : Core(R, C, Q, sets) => C \subseteq Z
AvoidOK(R, k, Z) ==
  /\ k \in 1..Len(R.game.fairs) /\ NoUnfairCycle(R, k - 1)
  /\ HoldsCores(R, Shunning(R, k), << >>, Z)
SearchOK(R, g, Z) ==
  Cleared(R, g) /\ Z \subseteq Arena(R, g) /\ HoldsCores(R, Arena(R, g), Sets(R), Z)
\* The next Z, after the first k sets.
NextOK(R, g, k, Z, N) ==
  /\ N \subseteq Arena(R, g) /\ HoldsCores(R, Arena(R, g), Sets(R), N)
  /\ \A i \in 1..k : N \subseteq Meets(R, g, i, Z)
  /\ \A t \in Arena(R, g) : Successors(R, t) \cap N # {} => t \in N

SearchInv ==
  /\ pc = "reach" => InitialState(req) \in reach /\ reach \subseteq Reachable(req)
  /\ pc \in {"avoid", "y", "z"} => reach = Reachable(req)
  /\ pc = "avoid" => req.environment /\ AvoidOK(req, goal, z)
  /\ pc \in {"y", "z"} => SearchOK(req, goal, z) /\ fi \in 1..Len(Sets(req))
  /\ pc = "y" => NextOK(req, goal, fi - 1, z, newZ) /\ y \subseteq Meets(req, goal, fi, z)
  /\ pc = "z" => NextOK(req, goal, Len(Sets(req)), z, newZ)

LoopInv ==
  /\ closedLoop = "REFUTED" => Loses(req)
  /\ closedLoop = "VERIFIED" => ~Loses(req)

\* Where Z is empty and holds every core, there is no cycle.
LEMMA NoCoreNoCycle ==
  ASSUME NEW R, Playable(R), NEW Q \in SUBSET Reachable(R), NEW sets,
         HoldsCores(R, Q, sets, {})
  PROVE  ~CycleMeeting(R, Q, sets)
<1> SUFFICES ASSUME CycleMeeting(R, Q, sets) PROVE FALSE
  OBVIOUS
<1>1. IsFiniteSet(Q) /\ Q \subseteq LoopStates(R)
  BY ReachableClosed, FS_Subset
<1>2. PICK C : C # {} /\ Core(R, C, Q, sets)
  BY <1>1, CycleHasCore
<1>3. C \in SUBSET LoopStates(R)
  BY <1>1, <1>2 DEF Core
<1> QED
  BY <1>2, <1>3 DEF HoldsCores

\* The search starts with everything, which holds every core.
LEMMA AllHoldCores ==
  ASSUME NEW R, NEW Q, NEW sets
  PROVE  HoldsCores(R, Q, sets, Q)
BY DEF HoldsCores, Core

\* The loop's sets are those of the search once everything reachable is known.
LEMMA SearchSets ==
  /\ Acceptance = Sets(req)
  /\ reach = Reachable(req) =>
       /\ \A g : Allowed(g) = Arena(req, g)
       /\ \A k : Avoiding(k) = Shunning(req, k)
BY DEF Acceptance, Sets, Allowed, Arena, Avoiding, Shunning, Game

\* StartSearch establishes the invariant of the search.
LEMMA SearchStarts ==
  ASSUME NEW g, Playable(req), reach = Reachable(req), Cleared(req, g), StartSearch(g),
         req' = req, reach' = reach
  PROVE  SearchInv' /\ closedLoop' = closedLoop
<1>1. Allowed(g) = Arena(req, g)
  BY SearchSets
<1>2. /\ goal' = g /\ z' = Arena(req, g) /\ newZ' = Arena(req, g) /\ y' = {} /\ fi' = 1
      /\ pc' = "y" /\ closedLoop' = closedLoop
  BY <1>1 DEF StartSearch
<1>3. HoldsCores(req, Arena(req, g), Sets(req), Arena(req, g))
  BY AllHoldCores
<1>4. SearchOK(req, g, z') /\ NextOK(req, g, 0, z', newZ')
  BY <1>2, <1>3 DEF SearchOK, NextOK
<1>5. 1 \in 1..Len(Sets(req))
  BY SetsFacts
<1>6. fi' - 1 = 0
  BY <1>2
<1> QED
  BY <1>2, <1>4, <1>5, <1>6 DEF SearchInv

\* StartAvoiding does, for the next assumption or for the search.
LEMMA AvoidingStarts ==
  ASSUME NEW k \in Nat, k > 0, Playable(req), reach = Reachable(req), req.environment,
         k <= Len(Game.fairs) + 1, NoUnfairCycle(req, k - 1), StartAvoiding(k),
         req' = req, reach' = reach
  PROVE  SearchInv' /\ closedLoop' = closedLoop
<1>1. Len(Game.fairs) \in Nat
  BY RequestTyped DEF Playable, GameRecords, Game
<1>2. CASE k <= Len(Game.fairs)
  <2>1. Avoiding(k) = Shunning(req, k)
    BY SearchSets
  <2>2. goal' = k /\ z' = Shunning(req, k) /\ pc' = "avoid" /\ closedLoop' = closedLoop
    BY <1>2, <2>1 DEF StartAvoiding
  <2>3. HoldsCores(req, Shunning(req, k), << >>, Shunning(req, k))
    BY AllHoldCores
  <2>4. AvoidOK(req, k, z')
    BY <1>1, <1>2, <2>2, <2>3 DEF AvoidOK, Game
  <2> QED
    BY <2>2, <2>4 DEF SearchInv
<1>3. CASE ~(k <= Len(Game.fairs))
  <2>1. k - 1 = Len(Game.fairs)
    BY <1>1, <1>3
  <2>2. Cleared(req, 1)
    BY <2>1 DEF Cleared, Game
  <2>3. StartSearch(1)
    BY <1>3 DEF StartAvoiding
  <2> QED
    BY <2>2, <2>3, SearchStarts
<1> QED
  BY <1>2, <1>3

\* The steps of the loop.
LEMMA ReachSteps ==
  ASSUME Playable(req), SearchInv, LoopInv, req' = req, StartLoop \/ ReachMore \/ ReachDone
  PROVE  SearchInv' /\ LoopInv'
<1>1. CASE StartLoop
  <2>1. reach' = {InitialState(req)} /\ pc' = "reach" /\ closedLoop' = closedLoop
    BY <1>1 DEF StartLoop, methods, InitialState, Game
  <2>2. InitialState(req) \in Reachable(req)
    BY ReachableClosed
  <2> QED
    BY <2>1, <2>2 DEF SearchInv, LoopInv
<1>2. CASE ReachMore
  <2>1. /\ pc = "reach" /\ pc' = pc /\ closedLoop' = closedLoop
        /\ reach' = reach \cup UNION {Successors(req, q) : q \in reach}
    BY <1>2 DEF ReachMore, methods
  <2>2. InitialState(req) \in reach /\ reach \subseteq Reachable(req)
    BY <2>1 DEF SearchInv
  <2>3. UNION {Successors(req, q) : q \in reach} \subseteq Reachable(req)
    BY <2>2, ReachableClosed
  <2> QED
    BY <2>1, <2>2, <2>3 DEF SearchInv, LoopInv
<1>3. CASE ReachDone
  <2>1. /\ pc = "reach" /\ reach' = reach
        /\ UNION {Successors(req, q) : q \in reach} \subseteq reach
    BY <1>3 DEF ReachDone
  <2>2. InitialState(req) \in reach /\ reach \subseteq Reachable(req)
    BY <2>1 DEF SearchInv
  <2>3. Reachable(req) \subseteq reach
    BY <2>1, <2>2, ReachableLeast
  <2>4. reach = Reachable(req)
    BY <2>2, <2>3
  <2>5. CASE req.environment
    <3>1. StartAvoiding(1)
      BY <1>3, <2>5 DEF ReachDone
    <3>2. NoUnfairCycle(req, 1 - 1) /\ 1 <= Len(Game.fairs) + 1
      <4>1. Len(Game.fairs) \in Nat
        BY RequestTyped DEF Playable, GameRecords, Game
      <4> QED
        BY <4>1 DEF NoUnfairCycle
    <3> QED
      BY <2>1, <2>4, <2>5, <3>1, <3>2, AvoidingStarts DEF LoopInv
  <2>6. CASE ~req.environment /\ \E q \in reach : Rounds(req, q) \cap Game.bad # {}
    <3>1. closedLoop' = "REFUTED" /\ pc' = "decide"
      BY <1>3, <2>6 DEF ReachDone, LoopConcluded
    <3>2. Loses(req)
      BY <2>4, <2>6 DEF Loses, Game
    <3> QED
      BY <3>1, <3>2 DEF SearchInv, LoopInv
  <2>7. CASE ~req.environment /\ ~\E q \in reach : Rounds(req, q) \cap Game.bad # {}
    <3>1. StartSearch(1)
      BY <1>3, <2>7 DEF ReachDone
    <3>2. Cleared(req, 1)
      <4>1. 1 \in 1..NumGoals(req.game) /\ 1..(1 - 1) = {}
        BY RequestTyped DEF Playable
      <4> QED
        BY <2>4, <2>7, <4>1 DEF Cleared, Game
    <3> QED
      BY <2>1, <2>4, <3>1, <3>2, SearchStarts DEF LoopInv
  <2> QED
    BY <2>5, <2>6, <2>7
<1> QED
  BY <1>1, <1>2, <1>3

\* The greatest fixpoint for an assumption that fails for ever.
LEMMA AvoidSteps ==
  ASSUME Playable(req), SearchInv, LoopInv, req' = req, AvoidStep
  PROVE  SearchInv' /\ LoopInv'
<1> DEFINE Q == Shunning(req, goal)
<1>1. /\ pc = "avoid" /\ reach' = reach /\ reach = Reachable(req) /\ req.environment
      /\ AvoidOK(req, goal, z)
  BY DEF AvoidStep, SearchInv
<1>2. Avoiding(goal) = Q /\ Q \subseteq reach /\ IsFiniteSet(Q)
  BY <1>1, SearchSets, ArenaFacts
<1>3. Q \cap Pre(z) = {p \in Q : Successors(req, p) \cap z # {}}
  BY <1>2 DEF Pre
<1>4. CASE Q \cap Pre(z) # z
  <2>1. z' = Q \cap Pre(z) /\ pc' = pc /\ goal' = goal /\ closedLoop' = closedLoop
    BY <1>2, <1>4 DEF AvoidStep
  <2>2. HoldsCores(req, Q, << >>, z')
    <3> SUFFICES ASSUME NEW C \in SUBSET LoopStates(req), Core(req, C, Q, << >>)
                 PROVE  C \subseteq z'
      BY DEF HoldsCores
    <3>1. C \subseteq z /\ C \subseteq Q /\ \A p \in C : Successors(req, p) \cap C # {}
      BY <1>1 DEF AvoidOK, HoldsCores, Core
    <3> QED
      BY <1>3, <2>1, <3>1
  <2>3. AvoidOK(req, goal, z')
    BY <1>1, <2>2 DEF AvoidOK
  <2> QED
    BY <1>1, <2>1, <2>3 DEF SearchInv, LoopInv
<1>5. CASE Q \cap Pre(z) = z /\ z # {}
  <2>1. closedLoop' = "REFUTED" /\ pc' = "decide"
    BY <1>2, <1>5 DEF AvoidStep, LoopConcluded
  <2>2. z \subseteq Q /\ \A p \in z : Successors(req, p) \cap z # {}
    BY <1>3, <1>5
  <2>3. CycleMeeting(req, Q, << >>)
    <3> HIDE DEF Q
    <3> QED
      BY <1>2, <1>5, <2>2, TrapHasCycle
  <2>4. Loses(req)
    BY <1>1, <2>3 DEF Loses, AvoidOK, Shunning
  <2> QED
    BY <2>1, <2>4 DEF SearchInv, LoopInv
<1>6. CASE Q \cap Pre(z) = z /\ z = {}
  <2>1. StartAvoiding(goal + 1)
    BY <1>2, <1>6 DEF AvoidStep
  <2>2. ~CycleMeeting(req, Q, << >>)
    <3>1. HoldsCores(req, Q, << >>, {}) /\ Q \in SUBSET Reachable(req)
      BY <1>1, <1>2, <1>6 DEF AvoidOK
    <3> HIDE DEF Q
    <3> QED
      BY <3>1, NoCoreNoCycle
  <2>3. /\ goal + 1 \in Nat /\ goal + 1 > 0 /\ goal + 1 <= Len(Game.fairs) + 1
        /\ (goal + 1) - 1 = goal
    <3>1. Len(Game.fairs) \in Nat /\ goal \in 1..Len(Game.fairs)
      BY <1>1, RequestTyped DEF Playable, GameRecords, Game, AvoidOK
    <3> QED
      BY <3>1
  <2>4. NoUnfairCycle(req, goal)
    <3>1. NoUnfairCycle(req, goal - 1)
      BY <1>1 DEF AvoidOK
    <3>2. goal \in Nat
      BY <1>1 DEF AvoidOK
    <3>3. \A i \in 1..goal : i \in 1..(goal - 1) \/ i = goal
      BY <3>2
    <3> QED
      BY <2>2, <3>1, <3>3 DEF NoUnfairCycle
  <2> QED
    BY <1>1, <2>1, <2>3, <2>4, AvoidingStarts DEF LoopInv
<1> QED
  BY <1>4, <1>5, <1>6

\* The least fixpoint: what reaches set fi, and Z again.
LEMMA YSteps ==
  ASSUME Playable(req), SearchInv, LoopInv, req' = req, YStep
  PROVE  SearchInv' /\ LoopInv'
<1> DEFINE Q == Arena(req, goal)
<1>1. /\ pc = "y" /\ reach' = reach /\ reach = Reachable(req) /\ goal' = goal /\ z' = z
      /\ closedLoop' = closedLoop /\ SearchOK(req, goal, z) /\ fi \in 1..Len(Sets(req))
      /\ NextOK(req, goal, fi - 1, z, newZ) /\ y \subseteq Meets(req, goal, fi, z)
  BY DEF YStep, SearchInv, methods
<1>2. Allowed(goal) = Q /\ Q \subseteq reach /\ Acceptance = Sets(req)
  BY <1>1, SearchSets, ArenaFacts
<1>3. NextY = Good(req, goal, fi, z) \cup {p \in Q : Successors(req, p) \cap y # {}}
  BY <1>2 DEF NextY, In, Pre, Good
<1>4. fi \in Nat /\ fi >= 1 /\ Len(Sets(req)) \in Nat
  BY <1>1, SetsFacts
<1>5. CASE NextY # y
  <2>1. y' = NextY /\ pc' = pc /\ fi' = fi /\ newZ' = newZ
    BY <1>5 DEF YStep
  <2>2. NextY \subseteq Meets(req, goal, fi, z)
    <3> SUFFICES ASSUME NEW p \in NextY PROVE p \in Meets(req, goal, fi, z)
      OBVIOUS
    <3>1. p \in Q /\ (p \in Good(req, goal, fi, z) \/ Successors(req, p) \cap y # {})
      BY <1>3 DEF Good
    <3> QED
      BY <1>1, <3>1, MeetsGrow
  <2> QED
    BY <1>1, <2>1, <2>2 DEF SearchInv, LoopInv
<1>6. CASE NextY = y
  <2>1. newZ' = newZ \cap y
    BY <1>6 DEF YStep
  <2>2. /\ Good(req, goal, fi, z) \subseteq y
        /\ \A t \in Q : Successors(req, t) \cap y # {} => t \in y
    BY <1>3, <1>6
  <2>3. NextOK(req, goal, fi, z, newZ')
    <3>1. newZ' \subseteq Q
      BY <1>1, <2>1 DEF NextOK
    <3>2. HoldsCores(req, Q, Sets(req), newZ')
      <4> SUFFICES ASSUME NEW C \in SUBSET LoopStates(req), Core(req, C, Q, Sets(req))
                   PROVE  C \subseteq newZ'
        BY DEF HoldsCores
      <4>1. C \subseteq z /\ C \subseteq newZ
        BY <1>1 DEF SearchOK, NextOK, HoldsCores
      <4>2. C \subseteq y
        BY <1>1, <2>2, <4>1, CoresKept
      <4> QED
        BY <2>1, <4>1, <4>2
    <3>3. ASSUME NEW i \in 1..fi PROVE newZ' \subseteq Meets(req, goal, i, z)
      <4>1. i \in 1..(fi - 1) \/ i = fi
        BY <1>4
      <4> QED
        BY <1>1, <2>1, <4>1 DEF NextOK
    <3>4. \A t \in Q : Successors(req, t) \cap newZ' # {} => t \in newZ'
      BY <1>1, <2>1, <2>2 DEF NextOK
    <3> QED
      BY <3>1, <3>2, <3>3, <3>4 DEF NextOK
  <2>4. CASE fi < Len(Acceptance)
    <3>1. fi' = fi + 1 /\ y' = {} /\ pc' = "y"
      BY <1>1, <1>6, <2>4 DEF YStep
    <3>2. fi' - 1 = fi /\ fi' \in 1..Len(Sets(req))
      BY <1>2, <1>4, <2>4, <3>1
    <3> QED
      BY <1>1, <2>3, <3>1, <3>2 DEF SearchInv, LoopInv
  <2>5. CASE ~(fi < Len(Acceptance))
    <3>1. pc' = "z" /\ fi' = fi
      BY <1>6, <2>5 DEF YStep
    <3>2. fi = Len(Sets(req))
      BY <1>1, <1>2, <1>4, <2>5
    <3>3. NextOK(req, goal, Len(Sets(req)), z, newZ')
      BY <2>3, <3>2
    <3> QED
      BY <1>1, <3>1, <3>3 DEF SearchInv, LoopInv
  <2> QED
    BY <2>4, <2>5
<1> QED
  BY <1>5, <1>6

\* The greatest fixpoint around it, and its verdict.
LEMMA ZSteps ==
  ASSUME Playable(req), SearchInv, LoopInv, req' = req, ZStep
  PROVE  SearchInv' /\ LoopInv'
<1> DEFINE Q == Arena(req, goal)
<1>1. /\ pc = "z" /\ reach' = reach /\ reach = Reachable(req)
      /\ SearchOK(req, goal, z) /\ NextOK(req, goal, Len(Sets(req)), z, newZ)
  BY DEF ZStep, SearchInv
<1>2. Allowed(goal) = Q /\ Q \subseteq Reachable(req)
  BY <1>1, SearchSets, ArenaFacts
<1>3. CASE newZ # z
  <2>1. /\ z' = newZ /\ newZ' = Q /\ fi' = 1 /\ y' = {} /\ pc' = "y" /\ goal' = goal
        /\ closedLoop' = closedLoop
    BY <1>2, <1>3 DEF ZStep
  <2>2. SearchOK(req, goal, z')
    BY <1>1, <2>1 DEF SearchOK, NextOK
  <2>3. NextOK(req, goal, 0, z', newZ')
    BY <2>1, AllHoldCores DEF NextOK
  <2>4. fi' \in 1..Len(Sets(req)) /\ fi' - 1 = 0
    BY <2>1, SetsFacts
  <2> QED
    BY <1>1, <2>1, <2>2, <2>3, <2>4 DEF SearchInv, LoopInv
<1>4. CASE newZ = z /\ z # {}
  <2>1. closedLoop' = "REFUTED" /\ pc' = "decide"
    BY <1>4 DEF ZStep, LoopConcluded
  <2>2. CycleMeeting(req, Q, Sets(req))
    BY <1>1, <1>4, SettledHasCycle DEF NextOK
  <2>3. Loses(req)
    <3>1. CASE req.environment
      BY <2>2, <3>1 DEF Loses, Arena, Sets
    <3>2. CASE ~req.environment
      <4>1. CycleMeeting(req, Q, req.game.fairs) /\ goal \in 1..NumGoals(req.game)
        BY <1>1, <1>2, <2>2, <3>2, FairCycles DEF SearchOK, Cleared
      <4> QED
        BY <3>2, <4>1 DEF Loses, Arena
    <3> QED
      BY <3>1, <3>2
  <2> QED
    BY <2>1, <2>3 DEF SearchInv, LoopInv
<1>5. CASE newZ = z /\ z = {}
  <2>1. ~CycleMeeting(req, Q, Sets(req))
    <3>1. HoldsCores(req, Q, Sets(req), {})
      BY <1>1, <1>5 DEF SearchOK
    <3> QED
      BY <1>2, <3>1, NoCoreNoCycle
  <2>2. CASE req.environment
    <3>1. closedLoop' = "VERIFIED" /\ pc' = "decide"
      BY <1>5, <2>2 DEF ZStep, LoopConcluded
    <3>2. ~Loses(req)
      BY <1>1, <2>1, <2>2 DEF Loses, Arena, Sets, SearchOK, Cleared, NoUnfairCycle, Shunning
    <3> QED
      BY <3>1, <3>2 DEF SearchInv, LoopInv
  <2>3. CASE ~req.environment
    <3>1. /\ goal \in 1..NumGoals(req.game)
          /\ \A q \in Reachable(req) : Rounds(req, q) \cap req.game.bad = {}
          /\ \A j \in 1..(goal - 1) : ~CycleMeeting(req, Arena(req, j), Sets(req))
      BY <1>1, <2>3 DEF SearchOK, Cleared
    <3>2. NumGoals(req.game) \in Nat
      BY RequestTyped DEF Playable
    <3>3. \A j \in 1..goal : ~CycleMeeting(req, Arena(req, j), Sets(req))
      <4>1. \A j \in 1..goal : j \in 1..(goal - 1) \/ j = goal
        BY <3>1, <3>2
      <4> QED
        BY <2>1, <3>1, <4>1
    <3>4. CASE goal = NumGoals(req.game)
      <4>1. closedLoop' = "VERIFIED" /\ pc' = "decide"
        BY <1>5, <2>3, <3>4 DEF ZStep, LoopConcluded, Game
      <4>2. \A j \in 1..NumGoals(req.game) : ~CycleMeeting(req, Arena(req, j), req.game.fairs)
        BY <2>3, <3>3, <3>4, FairCycles, ArenaFacts
      <4>3. ~Loses(req)
        BY <2>3, <3>1, <4>2 DEF Loses, Arena
      <4> QED
        BY <4>1, <4>3 DEF SearchInv, LoopInv
    <3>5. CASE goal # NumGoals(req.game)
      <4>1. StartSearch(goal + 1)
        BY <1>5, <2>3, <3>5 DEF ZStep, Game
      <4>2. goal + 1 \in 1..NumGoals(req.game) /\ (goal + 1) - 1 = goal
        BY <3>1, <3>2, <3>5
      <4>3. Cleared(req, goal + 1)
        BY <2>3, <3>1, <3>3, <4>2 DEF Cleared
      <4> QED
        BY <1>1, <4>1, <4>3, SearchStarts DEF LoopInv
    <3> QED
      BY <3>4, <3>5
  <2> QED
    BY <2>2, <2>3
<1> QED
  BY <1>3, <1>4, <1>5

-----------------------------------------------------------------------------
\* The certificates.  The obligations of mode m, and all of them.
ModeOK(R, m) ==
  LET bits == IF m = 0 THEN {} ELSE {m} IN
    IF R.method = "REGION" THEN RegionMode(R.game, R.cert, bits)
    ELSE IF R.environment THEN EnvironmentMode(R.game, R.policy, R.cert, bits)
    ELSE SystemMode(R.game, R.policy, R.cert, bits)

CertPassed(R) ==
  /\ IF R.environment THEN EnvironmentShape(R.game, R.cert) ELSE SystemShape(R.game, R.cert)
  /\ R.game.reset \in R.cert.inv
  /\ ~R.environment => Covered(R.game, R.cert)
  /\ \A m \in 0..NumCounters(R) : ModeOK(R, m)

\* How far the counter at c is from n's waiting for j.
Distance(c, j, n) == IF c <= j THEN j - c ELSE (n - c) + j

\* A counter that moves on comes nearer, unless it has arrived.
LEMMA CounterMoves ==
  ASSUME NEW n \in Nat, NEW c \in 1..n, NEW j \in 1..n
  PROVE  /\ Distance(c, j, n) \in Nat /\ Cyclic(c, n) \in 1..n
         /\ c # j => Distance(Cyclic(c, n), j, n) < Distance(c, j, n)
BY DEF Distance, Cyclic

\* A counter is one of its modes: no bit, for 1, or one bit.
LEMMA ModeFacts ==
  ASSUME NEW n \in Nat \ {0}
  PROVE  /\ \A bits \in Modes(n) : Current(bits) \in 1..n
         /\ \A c : Current({c}) = c
         /\ \A c \in 1..n : {c} \in Modes(n)
         /\ {} \in Modes(n)
         /\ \A bits \in Modes(n) : \E m \in 0..n : bits = IF m = 0 THEN {} ELSE {m}
<1>1. \A c : Current({c}) = c
  BY DEF Current
<1>2. \A c \in 1..n : {c} \in Modes(n)
  BY DEF Modes
<1>3. ASSUME NEW bits \in Modes(n)
      PROVE  /\ Current(bits) \in 1..n
             /\ \E m \in 0..n : bits = IF m = 0 THEN {} ELSE {m}
  <2>1. CASE bits = {}
    <3>1. Current(bits) = 1 /\ 0 \in 0..n /\ 1 \in 1..n
      BY <2>1 DEF Current
    <3> QED
      BY <2>1, <3>1
  <2>2. CASE bits # {}
    <3>1. PICK c \in 1..n : bits = {c}
      BY <2>2 DEF Modes
    <3>2. c \in 0..n /\ c # 0
      OBVIOUS
    <3> QED
      BY <1>1, <3>1, <3>2
  <2> QED
    BY <2>1, <2>2
<1> QED
  BY <1>1, <1>2, <1>3 DEF Modes

\* A round of the system's policy in a state of the certified region.
LEMMA SystemStep ==
  ASSUME NEW R, Playable(R), ~R.environment, R.method # "REGION", CertPassed(R),
         NEW s \in R.cert.inv, NEW bits \in Modes(NumGoals(R.game)),
         NEW c, c = Current(bits)
  PROVE  /\ Rounds(R, <<s, bits>>) \cap R.game.bad = {}
         /\ \A t \in Successors(R, <<s, bits>>) :
              /\ t[1] \in R.cert.inv
              /\ t[2] = {IF s \in R.game.goals[c] THEN Cyclic(c, NumGoals(R.game)) ELSE c}
              /\ \A k \in 1..Len(R.cert.y[c]), i \in 1..NumFairs(R.game) :
                   s \in RankLayer(R.game, R.cert, c, k, i) =>
                     t[1] \in Progress(R.game, R.cert, c, k, i)
<1> DEFINE q == <<s, bits>>
           v(u) == <<s, u, R.policy.out[<<s, bits, u>>]>>
<1>1. q[1] = s /\ q[2] = bits
  OBVIOUS
<1>2. NumGoals(R.game) \in Nat \ {0} /\ NumCounters(R) = NumGoals(R.game)
  BY RequestTyped DEF Playable, NumCounters
<1>3. PICK m \in 0..NumCounters(R) : bits = IF m = 0 THEN {} ELSE {m}
  BY <1>2, ModeFacts
<1>4. SystemMode(R.game, R.policy, R.cert, bits)
  BY <1>3 DEF CertPassed, ModeOK
<1>5. \A u \in UMove : RoundOK(R.game, R.policy, R.cert, bits, s, u)
  BY <1>4 DEF SystemMode
<1>6. ASSUME NEW u \in UMove
      PROVE  /\ v(u) \notin R.game.bad /\ R.game.succ[v(u)] \in R.cert.inv
             /\ R.policy.count[<<s, bits, u>>] =
                  {IF s \in R.game.goals[c] THEN Cyclic(c, NumGoals(R.game)) ELSE c}
             /\ \A k \in 1..Len(R.cert.y[c]), i \in 1..NumFairs(R.game) :
                  s \in RankLayer(R.game, R.cert, c, k, i) =>
                    R.game.succ[v(u)] \in Progress(R.game, R.cert, c, k, i)
  <2>1. RoundOK(R.game, R.policy, R.cert, bits, s, u)
    BY <1>5
  <2> QED
    BY <2>1 DEF RoundOK, SafeInto, Prescribed
<1>7. Rounds(R, q) = {v(u) : u \in UMove}
  BY <1>1 DEF Rounds
<1>8. ASSUME NEW t \in Successors(R, q)
      PROVE  \E u \in UMove : t = <<R.game.succ[v(u)], R.policy.count[<<s, bits, u>>]>>
  <2>1. PICK w \in Rounds(R, q) : t = <<R.game.succ[w], Counted(R, q, w)>>
    BY DEF Successors
  <2>2. PICK u \in UMove : w = v(u)
    BY <1>7, <2>1
  <2>3. w[2] = u
    BY <2>2
  <2>4. Counted(R, q, w) = R.policy.count[<<s, bits, u>>]
    BY <1>1, <2>3 DEF Counted
  <2> QED
    BY <2>1, <2>2, <2>4
<1> HIDE DEF v
<1>9. Rounds(R, q) \cap R.game.bad = {}
  BY <1>6, <1>7
<1>10. ASSUME NEW t \in Successors(R, q)
       PROVE  /\ t[1] \in R.cert.inv
              /\ t[2] = {IF s \in R.game.goals[c] THEN Cyclic(c, NumGoals(R.game)) ELSE c}
              /\ \A k \in 1..Len(R.cert.y[c]), i \in 1..NumFairs(R.game) :
                   s \in RankLayer(R.game, R.cert, c, k, i) =>
                     t[1] \in Progress(R.game, R.cert, c, k, i)
  <2>1. PICK u \in UMove : t = <<R.game.succ[v(u)], R.policy.count[<<s, bits, u>>]>>
    BY <1>8
  <2>2. t[1] = R.game.succ[v(u)] /\ t[2] = R.policy.count[<<s, bits, u>>]
    BY <2>1
  <2> QED
    BY <1>6, <2>2
<1> QED
  BY <1>9, <1>10

\* The ranks of the system's certificate.
RankedAt(g, cert, j, s, k, i) ==
  k \in 1..Len(cert.y[j]) /\ i \in 1..NumFairs(g) /\ s \in cert.x[<<j, i>>][k]
Lower(g, cert, j, k, i) ==
  {s \in cert.inv : \E m, b \in Nat : (m < k \/ (m = k /\ b < i)) /\ RankedAt(g, cert, j, s, m, b)}

\* A state that is ranked and misses the goal has a least rank.
LEMMA LeastRank ==
  ASSUME NEW g, NEW cert, NEW j, NEW s \in cert.inv, s \notin g.goals[j],
         NEW k0 \in Nat, NEW i0 \in Nat, RankedAt(g, cert, j, s, k0, i0)
  PROVE  \E k, i \in Nat :
           /\ RankedAt(g, cert, j, s, k, i) /\ s \in RankLayer(g, cert, j, k, i)
           /\ k < k0 \/ (k = k0 /\ i <= i0)
           /\ s \notin Lower(g, cert, j, k, i)
<1> DEFINE K == {k \in Nat : \E i \in Nat : RankedAt(g, cert, j, s, k, i)}
<1>1. k0 \in K
  OBVIOUS
<1> HIDE DEF K
<1>2. PICK k \in K : \A m \in K : k <= m
  <2>1. K \in SUBSET Nat /\ K # {}
    BY <1>1 DEF K
  <2> QED
    BY <2>1, LeastNatural
<1> DEFINE I == {i \in Nat : RankedAt(g, cert, j, s, k, i)}
<1>3. I # {} /\ I \in SUBSET Nat /\ k \in Nat
  BY <1>2 DEF K
<1> HIDE DEF I
<1>4. PICK i \in I : \A m \in I : i <= m
  BY <1>3, LeastNatural
<1>5. i \in Nat /\ RankedAt(g, cert, j, s, k, i)
  BY <1>3, <1>4 DEF I
<1>6. \A m, b \in Nat : RankedAt(g, cert, j, s, m, b) => k < m \/ (k = m /\ i <= b)
  <2> SUFFICES ASSUME NEW m \in Nat, NEW b \in Nat, RankedAt(g, cert, j, s, m, b)
               PROVE  k < m \/ (k = m /\ i <= b)
    OBVIOUS
  <2>1. k <= m
    BY <1>2 DEF K
  <2>2. k = m => i <= b
    BY <1>4 DEF I
  <2> QED
    BY <1>3, <2>1, <2>2
<1>7. s \notin Lower(g, cert, j, k, i)
  BY <1>3, <1>5, <1>6 DEF Lower
<1>8. s \in RankLayer(g, cert, j, k, i)
  <2>1. s \in cert.x[<<j, i>>][k]
    BY <1>5 DEF RankedAt
  <2>2. ASSUME NEW b \in 1..NumFairs(g), NEW m \in 1..k, m < k \/ b < i,
               s \in cert.x[<<j, b>>][m]
        PROVE  FALSE
    <3>1. m \in Nat /\ b \in Nat
      OBVIOUS
    <3>2. RankedAt(g, cert, j, s, m, b)
      BY <1>5, <2>2 DEF RankedAt
    <3>3. k < m \/ (k = m /\ i <= b)
      BY <1>6, <3>1, <3>2
    <3> QED
      BY <1>3, <1>5, <2>2, <3>1, <3>3
  <2> QED
    BY <2>1, <2>2 DEF RankLayer
<1> QED
  BY <1>1, <1>3, <1>5, <1>6, <1>7, <1>8

\* A round that makes progress goes to the goal or down, or stays in its X while
\* the assumption is false.
LEMMA RanksFall ==
  ASSUME NEW g, NEW cert, SystemShape(g, cert), NEW j \in 1..NumGoals(g),
         NEW s \in cert.inv, s \notin g.goals[j], NEW t \in cert.inv,
         \A k \in 1..Len(cert.y[j]), i \in 1..NumFairs(g) :
           s \in RankLayer(g, cert, j, k, i) => t \in Progress(g, cert, j, k, i),
         NEW k0 \in Nat, NEW i0 \in Nat
  PROVE  /\ RankedAt(g, cert, j, s, k0, i0) =>
              t \in g.goals[j] \cup Lower(g, cert, j, k0, i0)
                      \cup (cert.x[<<j, i0>>][k0] \ Fair(g, i0))
         /\ s \in Lower(g, cert, j, k0, i0) => t \in g.goals[j] \cup Lower(g, cert, j, k0, i0)
<1>1. ASSUME NEW k \in Nat, NEW i \in Nat, RankedAt(g, cert, j, s, k, i),
             s \in RankLayer(g, cert, j, k, i)
      PROVE  \/ t \in g.goals[j] \/ t \in Lower(g, cert, j, k, i)
             \/ RankedAt(g, cert, j, t, k, i) /\ t \notin Fair(g, i)
  <2>1. k \in 1..Len(cert.y[j]) /\ i \in 1..NumFairs(g)
    BY <1>1 DEF RankedAt
  <2>2. t \in Progress(g, cert, j, k, i)
    BY <1>1, <2>1
  <2>3. CASE t \in cert.x[<<j, i>>][k] \ Fair(g, i)
    BY <2>1, <2>3 DEF RankedAt
  <2>4. CASE t \in g.goals[j]
    BY <2>4
  <2>5. CASE k # 1 /\ t \in cert.y[j][k - 1]
    <3>1. k - 1 \in 1..Len(cert.y[j]) /\ k - 1 \in Nat /\ k - 1 < k
      BY <2>1, <2>5
    <3>2. cert.y[j][k - 1] = UNION {cert.x[<<j, b>>][k - 1] : b \in 1..NumFairs(g)}
      BY <3>1 DEF SystemShape
    <3>3. PICK b \in 1..NumFairs(g) : t \in cert.x[<<j, b>>][k - 1]
      BY <2>5, <3>2
    <3>4. RankedAt(g, cert, j, t, k - 1, b) /\ b \in Nat
      BY <3>1, <3>3 DEF RankedAt
    <3> QED
      BY <3>1, <3>4 DEF Lower
  <2> QED
    BY <2>2, <2>3, <2>4, <2>5 DEF Progress
<1>2. ASSUME NEW k1 \in Nat, NEW i1 \in Nat, RankedAt(g, cert, j, s, k1, i1)
      PROVE  \E k, i \in Nat :
               /\ k < k1 \/ (k = k1 /\ i <= i1)
               /\ \/ t \in g.goals[j] \/ t \in Lower(g, cert, j, k, i)
                  \/ RankedAt(g, cert, j, t, k, i) /\ t \notin Fair(g, i)
  <2>1. PICK k, i \in Nat :
               /\ RankedAt(g, cert, j, s, k, i) /\ s \in RankLayer(g, cert, j, k, i)
               /\ k < k1 \/ (k = k1 /\ i <= i1)
               /\ s \notin Lower(g, cert, j, k, i)
    BY <1>2, LeastRank, Zenon
  <2> QED
    BY <1>1, <2>1
<1>3. ASSUME NEW k \in Nat, NEW i \in Nat, NEW k1 \in Nat, NEW i1 \in Nat,
             k < k1 \/ (k = k1 /\ i <= i1)
      PROVE  Lower(g, cert, j, k, i) \subseteq Lower(g, cert, j, k1, i1)
  <2> SUFFICES ASSUME NEW u \in Lower(g, cert, j, k, i)
               PROVE  u \in Lower(g, cert, j, k1, i1)
    OBVIOUS
  <2>1. PICK m, b \in Nat : (m < k \/ (m = k /\ b < i)) /\ RankedAt(g, cert, j, u, m, b)
    BY DEF Lower
  <2>2. m < k1 \/ (m = k1 /\ b < i1)
    BY <1>3, <2>1
  <2> QED
    BY <2>1, <2>2 DEF Lower
<1>4. ASSUME NEW k \in Nat, NEW i \in Nat, k < k0 \/ (k = k0 /\ i < i0),
             RankedAt(g, cert, j, t, k, i)
      PROVE  t \in Lower(g, cert, j, k0, i0)
  BY <1>4 DEF Lower
<1>5. ASSUME RankedAt(g, cert, j, s, k0, i0)
      PROVE  t \in g.goals[j] \cup Lower(g, cert, j, k0, i0)
                     \cup (cert.x[<<j, i0>>][k0] \ Fair(g, i0))
  <2>1. PICK k, i \in Nat :
               /\ k < k0 \/ (k = k0 /\ i <= i0)
               /\ \/ t \in g.goals[j] \/ t \in Lower(g, cert, j, k, i)
                  \/ RankedAt(g, cert, j, t, k, i) /\ t \notin Fair(g, i)
    BY <1>2, <1>5
  <2>2. CASE t \in Lower(g, cert, j, k, i)
    BY <1>3, <2>1, <2>2
  <2>3. CASE RankedAt(g, cert, j, t, k, i) /\ t \notin Fair(g, i)
    <3>1. CASE k = k0 /\ i = i0
      BY <2>3, <3>1 DEF RankedAt
    <3>2. CASE k < k0 \/ (k = k0 /\ i < i0)
      BY <1>4, <2>3, <3>2
    <3> QED
      BY <2>1, <3>1, <3>2
  <2> QED
    BY <2>1, <2>2, <2>3
<1>6. ASSUME s \in Lower(g, cert, j, k0, i0)
      PROVE  t \in g.goals[j] \cup Lower(g, cert, j, k0, i0)
  <2>1. PICK k1, i1 \in Nat : /\ k1 < k0 \/ (k1 = k0 /\ i1 < i0)
                              /\ RankedAt(g, cert, j, s, k1, i1)
    BY <1>6 DEF Lower
  <2>2. PICK k, i \in Nat :
               /\ k < k1 \/ (k = k1 /\ i <= i1)
               /\ \/ t \in g.goals[j] \/ t \in Lower(g, cert, j, k, i)
                  \/ RankedAt(g, cert, j, t, k, i) /\ t \notin Fair(g, i)
    BY <1>2, <2>1
  <2>3. k < k0 \/ (k = k0 /\ i < i0)
    BY <2>1, <2>2
  <2>4. Lower(g, cert, j, k, i) \subseteq Lower(g, cert, j, k0, i0)
    BY <1>3, <2>3
  <2> QED
    BY <1>4, <2>2, <2>3, <2>4
<1> QED
  BY <1>5, <1>6

\* The closed loop of an accepted policy of the system stays in the region, plays
\* no bad round and has no fair cycle that misses a goal.
LEMMA SystemRegion ==
  ASSUME NEW R, Playable(R), ~R.environment, R.method # "REGION", CertPassed(R),
         NEW q \in Reachable(R)
  PROVE  q = <<q[1], q[2]>> /\ q[1] \in R.cert.inv /\ q[2] \in Modes(NumGoals(R.game))
<1> DEFINE n == NumGoals(R.game)
           S == {<<s, bits>> : s \in R.cert.inv, bits \in Modes(n)}
<1>1. n \in Nat \ {0}
  BY RequestTyped DEF Playable
<1>2. InitialState(R) \in S
  BY <1>1, ModeFacts DEF InitialState, CertPassed
<1>3. ASSUME NEW p \in S, NEW t \in Successors(R, p), p \in LoopStates(R) PROVE t \in S
  <2>1. PICK s \in R.cert.inv, bits \in Modes(n) : p = <<s, bits>>
    OBVIOUS
  <2> DEFINE c == Current(bits)
             d == IF s \in R.game.goals[c] THEN Cyclic(c, n) ELSE c
  <2>2. t[1] \in R.cert.inv /\ t[2] = {d}
    BY <2>1, <1>3, SystemStep
  <2>3. c \in 1..n
    BY <1>1, ModeFacts
  <2>4. Cyclic(c, n) \in 1..n
    BY <1>1, <2>3, CounterMoves
  <2>5. {d} \in Modes(n)
    <3>1. d \in 1..n
      BY <2>3, <2>4
    <3> QED
      BY <1>1, <3>1, ModeFacts
  <2>6. t = <<t[1], t[2]>>
    BY DEF Successors
  <2> QED
    BY <2>2, <2>5, <2>6
<1> HIDE DEF S
<1>4. Reachable(R) \subseteq S
  BY <1>2, <1>3, ReachableLeast
<1> QED
  BY <1>4 DEF S

\* One step of it.
LEMMA SystemFalls ==
  ASSUME NEW R, Playable(R), ~R.environment, R.method # "REGION", CertPassed(R),
         NEW j \in 1..NumGoals(R.game),
         NEW t \in In(Reachable(R), State \ R.game.goals[j]),
         NEW u \in Successors(R, t),
         NEW c, c = Current(t[2]), NEW d, d = Current(u[2])
  PROVE  /\ c \in 1..NumGoals(R.game) /\ t[1] \in R.cert.inv /\ u[1] \in R.cert.inv
         /\ Distance(c, j, NumGoals(R.game)) \in Nat /\ Distance(d, j, NumGoals(R.game)) \in Nat
         /\ t[1] \in R.game.goals[c] =>
              Distance(d, j, NumGoals(R.game)) < Distance(c, j, NumGoals(R.game))
         /\ t[1] \notin R.game.goals[c] =>
              /\ d = c
              /\ \A k \in 1..Len(R.cert.y[c]), i \in 1..NumFairs(R.game) :
                   t[1] \in RankLayer(R.game, R.cert, c, k, i) =>
                     u[1] \in Progress(R.game, R.cert, c, k, i)
<1> DEFINE n == NumGoals(R.game)
<1>1. n \in Nat \ {0}
  BY RequestTyped DEF Playable
<1>2. /\ t = <<t[1], t[2]>> /\ t[1] \in R.cert.inv /\ t[2] \in Modes(n)
      /\ t[1] \notin R.game.goals[j]
  BY SystemRegion DEF In
<1>3. c \in 1..n
  BY <1>1, <1>2, ModeFacts
<1>4. /\ u[1] \in R.cert.inv
      /\ u[2] = {IF t[1] \in R.game.goals[c] THEN Cyclic(c, n) ELSE c}
      /\ \A k \in 1..Len(R.cert.y[c]), i \in 1..NumFairs(R.game) :
           t[1] \in RankLayer(R.game, R.cert, c, k, i) =>
             u[1] \in Progress(R.game, R.cert, c, k, i)
  BY <1>2, SystemStep
<1>5. d = IF t[1] \in R.game.goals[c] THEN Cyclic(c, n) ELSE c
  BY <1>1, <1>4, ModeFacts
<1>6. /\ Distance(c, j, n) \in Nat /\ Cyclic(c, n) \in 1..n
      /\ c # j => Distance(Cyclic(c, n), j, n) < Distance(c, j, n)
  BY <1>1, <1>3, CounterMoves
<1>7. Distance(Cyclic(c, n), j, n) \in Nat
  BY <1>1, <1>6, CounterMoves
<1> HIDE DEF n
<1>8. CASE t[1] \in R.game.goals[c]
  <2>1. d = Cyclic(c, n) /\ c # j
    BY <1>2, <1>5, <1>8
  <2> QED
    BY <1>2, <1>3, <1>4, <1>6, <1>7, <1>8, <2>1 DEF n
<1>9. CASE t[1] \notin R.game.goals[c]
  <2>1. d = c
    BY <1>5, <1>9
  <2> QED
    BY <1>2, <1>3, <1>4, <1>6, <1>9, <2>1 DEF n
<1> QED
  BY <1>8, <1>9

\* No reachable round of an accepted policy is bad, and no cycle without a goal
\* is fair: the counter would wait for ever and the rank fall for ever.
LEMMA SystemSound ==
  ASSUME NEW R, Playable(R), ~R.environment, R.method # "REGION", CertPassed(R)
  PROVE  ~Loses(R)
<1> DEFINE n == NumGoals(R.game)
           g == R.game
           cert == R.cert
<1>1. ASSUME NEW q \in Reachable(R) PROVE Rounds(R, q) \cap R.game.bad = {}
  <2>1. q = <<q[1], q[2]>> /\ q[1] \in cert.inv /\ q[2] \in Modes(n)
    BY SystemRegion
  <2> QED
    BY <2>1, SystemStep
<1>2. ASSUME NEW j \in 1..n, CycleMeeting(R, In(Reachable(R), State \ g.goals[j]), g.fairs)
      PROVE  FALSE
  <2> DEFINE Q == In(Reachable(R), State \ g.goals[j])
             dist(t) == Distance(Current(t[2]), j, n)
  <2>1. PICK q \in Q :
          /\ q \in ReachedFrom(R, q, Q)
          /\ \A k \in 1..Len(g.fairs) : \E p \in ReachedFrom(R, q, Q) :
               p[1] \in g.fairs[k] /\ q \in ReachedFrom(R, p, Q)
    BY <1>2 DEF CycleMeeting
  <2> DEFINE c == Current(q[2])
  <2>2. IsFiniteSet(Q) /\ Q \subseteq Reachable(R)
    <3>1. Q \subseteq Reachable(R)
      BY DEF In
    <3> QED
      BY <3>1, ReachableClosed, FS_Subset
  <2>3. ASSUME NEW t \in Q, NEW u \in Successors(R, t)
        PROVE  /\ t[1] \in cert.inv /\ u[1] \in cert.inv
               /\ dist(t) \in Nat /\ dist(u) \in Nat
               /\ t[1] \in g.goals[Current(t[2])] => dist(u) < dist(t)
               /\ t[1] \notin g.goals[Current(t[2])] =>
                    /\ Current(u[2]) = Current(t[2])
                    /\ \A k \in 1..Len(cert.y[Current(t[2])]), i \in 1..NumFairs(g) :
                         t[1] \in RankLayer(g, cert, Current(t[2]), k, i) =>
                           u[1] \in Progress(g, cert, Current(t[2]), k, i)
    BY <2>3, SystemFalls
  <2>4. q[1] \in State /\ q[1] \in cert.inv /\ c \in 1..n
    <3>1. q \in LoopStates(R)
      BY <2>2, ReachableClosed
    <3>2. q[1] \in State
      BY <3>1 DEF LoopStates
    <3>3. q[1] \in cert.inv /\ q[2] \in Modes(n)
      BY <2>2, SystemRegion
    <3> QED
      BY <3>2, <3>3, ModeFacts, RequestTyped DEF Playable
  <2>5. dist(q) \in Nat
    <3>1. PICK u \in Successors(R, q) : TRUE
      BY <2>1, <2>2, FirstStep
    <3> QED
      BY <2>3, <3>1
  <2>6. SystemShape(g, cert) /\ Covered(g, cert)
    BY DEF CertPassed
  <2> HIDE DEF Q, dist, c, n, g, cert
  \* q does not meet the goal waited for, or the counter would move on for good.
  <2>7. q[1] \notin g.goals[c]
    <3> SUFFICES ASSUME q[1] \in g.goals[c] PROVE FALSE
      OBVIOUS
    <3> DEFINE A == {t \in Q : dist(t) < dist(q)}
    <3>1. \A t \in A \cap Q : Successors(R, t) \cap Q \subseteq A
      <4> SUFFICES ASSUME NEW t \in A, NEW u \in Successors(R, t) \cap Q PROVE u \in A
        OBVIOUS
      <4>1. dist(u) \in Nat /\ dist(t) \in Nat /\ dist(t) < dist(q)
        BY <2>3
      <4>2. CASE t[1] \in g.goals[Current(t[2])]
        <5>1. dist(u) < dist(t)
          BY <2>3, <4>2
        <5>2. dist(u) < dist(q)
          BY <2>5, <4>1, <5>1
        <5> QED
          BY <5>2
      <4>3. CASE t[1] \notin g.goals[Current(t[2])]
        <5>1. Current(u[2]) = Current(t[2])
          BY <2>3, <4>3
        <5>2. dist(u) = dist(t)
          BY <5>1 DEF dist
        <5> QED
          BY <4>1, <5>2
      <4> QED
        BY <4>2, <4>3
    <3>2. PICK u \in Successors(R, q) \cap Q : q = u \/ q \in ReachedFrom(R, u, Q)
      BY <2>1, <2>2, FirstStep
    <3>3. u \in A
      BY <2>3, <3>2 DEF c
    <3> HIDE DEF A
    <3>4. q \in A
      BY <2>2, <3>1, <3>2, <3>3, PathStays
    <3> QED
      BY <2>5, <3>4 DEF A
  <2>8. PICK k, i \in Nat :
          RankedAt(g, cert, c, q[1], k, i) /\ q[1] \notin Lower(g, cert, c, k, i)
    <3>1. PICK i0 \in 1..NumFairs(g), k0 \in 1..Len(cert.y[c]) : q[1] \in cert.x[<<c, i0>>][k0]
      BY <2>4, <2>6 DEF Covered, n, g
    <3>2. RankedAt(g, cert, c, q[1], k0, i0) /\ k0 \in Nat /\ i0 \in Nat
      BY <3>1 DEF RankedAt
    <3> QED
      BY <2>4, <2>7, <3>2, LeastRank
  \* Lower ranks are closed under steps, and what follows q is.
  <2> DEFINE B == {t \in Q : \/ dist(t) < dist(q)
                             \/ /\ Current(t[2]) = c
                                /\ t[1] \in g.goals[c] \cup Lower(g, cert, c, k, i)}
             E == {t \in Q : t \in B \/ /\ Current(t[2]) = c
                                        /\ RankedAt(g, cert, c, t[1], k, i)
                                        /\ t[1] \notin Fair(g, i)}
  <2>9. ASSUME NEW t \in Q, NEW u \in Successors(R, t) \cap Q
        PROVE  /\ t \in B => u \in B
               /\ Current(t[2]) = c /\ RankedAt(g, cert, c, t[1], k, i) => u \in E
    <3>1. dist(u) \in Nat /\ dist(t) \in Nat
      BY <2>3
    <3>2. CASE t[1] \in g.goals[Current(t[2])]
      <4>1. dist(u) < dist(t)
        BY <2>3, <3>2
      <4>2. dist(t) <= dist(q) => u \in B
        <5>1. dist(t) <= dist(q) => dist(u) < dist(q)
          BY <2>5, <3>1, <4>1
        <5> QED
          BY <5>1
      <4>3. Current(t[2]) = c => dist(t) = dist(q)
        BY DEF dist, c
      <4>4. t \in B \/ Current(t[2]) = c => dist(t) <= dist(q)
        BY <2>5, <3>1, <4>3
      <4> QED
        BY <4>2, <4>4
    <3>3. CASE t[1] \notin g.goals[Current(t[2])]
      <4>1. Current(u[2]) = Current(t[2])
        BY <2>3, <3>3
      <4>2. dist(u) = dist(t)
        BY <4>1 DEF dist
      <4>3. CASE Current(t[2]) # c
        BY <4>2, <4>3
      <4>4. CASE Current(t[2]) = c
        <5>1. /\ t[1] \in cert.inv /\ u[1] \in cert.inv
              /\ \A m \in 1..Len(cert.y[c]), b \in 1..NumFairs(g) :
                   t[1] \in RankLayer(g, cert, c, m, b) => u[1] \in Progress(g, cert, c, m, b)
          BY <2>3, <3>3, <4>4
        <5>2. t[1] \notin g.goals[c]
          BY <3>3, <4>4
        <5>3. /\ RankedAt(g, cert, c, t[1], k, i) =>
                   u[1] \in g.goals[c] \cup Lower(g, cert, c, k, i)
                              \cup (cert.x[<<c, i>>][k] \ Fair(g, i))
              /\ t[1] \in Lower(g, cert, c, k, i) =>
                   u[1] \in g.goals[c] \cup Lower(g, cert, c, k, i)
          BY <2>4, <2>6, <5>1, <5>2, RanksFall DEF n, g
        <5>4. u[1] \in cert.x[<<c, i>>][k] => RankedAt(g, cert, c, u[1], k, i)
          BY <2>8 DEF RankedAt
        <5>5. t \in B => u \in B
          <6>1. CASE dist(t) < dist(q)
            BY <4>2, <6>1
          <6>2. CASE t[1] \in Lower(g, cert, c, k, i)
            BY <4>1, <4>4, <5>3, <6>2
          <6> QED
            BY <5>2, <6>1, <6>2
        <5>6. RankedAt(g, cert, c, t[1], k, i) => u \in E
          BY <4>1, <4>4, <5>3, <5>4
        <5> QED
          BY <5>5, <5>6
      <4> QED
        BY <4>3, <4>4
    <3> QED
      BY <3>2, <3>3
  <2>10. /\ Successors(R, q) \cap Q \subseteq E /\ q \notin B
         /\ \A t \in B \cap Q : Successors(R, t) \cap Q \subseteq B
         /\ \A t \in E : Successors(R, t) \cap Q \subseteq E
    <3>1. Successors(R, q) \cap Q \subseteq E
      BY <2>8, <2>9 DEF c
    <3>2. q \notin B
      BY <2>5, <2>7, <2>8
    <3>3. \A t \in B \cap Q : Successors(R, t) \cap Q \subseteq B
      BY <2>9
    <3>4. \A t \in E : Successors(R, t) \cap Q \subseteq E
      BY <2>9
    <3> QED
      BY <3>1, <3>2, <3>3, <3>4
  <2>11. B \subseteq Q /\ \A t \in E : t \in B \/ t[1] \notin Fair(g, i)
    OBVIOUS
  <2> HIDE DEF B, E
  <2>12. ReachedFrom(R, q, Q) \subseteq E
    BY <2>2, <2>10, ReachedLeast
  <2>13. q[1] \notin Fair(g, i)
    BY <2>1, <2>10, <2>11, <2>12
  <2>14. Fair(g, i) = g.fairs[i] /\ i \in 1..Len(g.fairs)
    BY <2>4, <2>8, <2>13 DEF Fair, RankedAt, NumFairs
  <2>15. PICK p \in ReachedFrom(R, q, Q) : p[1] \in g.fairs[i] /\ q \in ReachedFrom(R, p, Q)
    BY <2>1, <2>14
  <2>16. p \in B
    BY <2>11, <2>12, <2>14, <2>15
  <2>17. ReachedFrom(R, p, Q) \subseteq B
    BY <2>2, <2>10, <2>11, <2>16, PathStays
  <2> QED
    BY <2>10, <2>15, <2>17
<1> QED
  BY <1>1, <1>2 DEF Loses

\* A region that the system can keep, making progress towards every goal, is won.
LEMMA RegionSound ==
  ASSUME NEW R \in Requests, R.readable, NumGoals(R.game) > 0, ~R.environment,
         ~R.cert.none, R.method = "REGION", CertPassed(R)
  PROVE  R.game.reset \in Winning(R.game)
<1> DEFINE g == R.game
           cert == R.cert
           Z == cert.inv
<1>1. /\ SystemCertFits(g, cert) /\ SystemShape(g, cert) /\ Covered(g, cert)
      /\ g.reset \in Z /\ NumCounters(R) = NumGoals(g) /\ NumGoals(g) \in Nat
      /\ NumFairs(g) \in Nat \ {0}
  BY CheckConstants, RequestTyped DEF CertPassed, NumCounters
<1>2. Z \subseteq State
  BY <1>1 DEF SystemCertFits
<1>3. ASSUME NEW j \in 1..NumGoals(g)
      PROVE  RegionMode(g, cert, {j}) /\ Current({j}) = j
  <2>1. j \in 0..NumCounters(R) /\ j # 0
    BY <1>1
  <2> QED
    BY <2>1 DEF CertPassed, ModeOK, Current
<1> HIDE DEF g, cert
<1>4. ASSUME NEW j \in 1..NumGoals(g), NEW Y \in SUBSET State,
             \A i \in 1..NumFairs(g) : Holding(g, Z, Y, j, i) \subseteq Y
      PROVE  Z \subseteq Y
  <2>0. \A k \in 1..Len(cert.y[j]) :
          cert.y[j][k] = UNION {cert.x[<<j, b>>][k] : b \in 1..NumFairs(g)}
    BY <1>1 DEF SystemShape
  <2>1. /\ \A s \in Z \cap g.goals[j], u \in UMove : \E c \in CMove :
             <<s, u, c>> \in SafeInto(g, Z)
        /\ \A k \in 1..Len(cert.y[j]), i \in 1..NumFairs(g) :
             \A s \in RankLayer(g, cert, j, k, i), u \in UMove : \E c \in CMove :
               <<s, u, c>> \in SafeInto(g, Z \cap Progress(g, cert, j, k, i))
    BY <1>3 DEF RegionMode
  <2>2. ASSUME NEW X \in SUBSET State, NEW i \in 1..NumFairs(g), NEW T,
               T \subseteq (Z \cap g.goals[j]) \cup Y \cup (X \ Fair(g, i)),
               \A s \in X, u \in UMove : \E c \in CMove : <<s, u, c>> \in SafeInto(g, T)
        PROVE  X \subseteq Y
    <3>1. X \subseteq CPre(g, (Z \cap g.goals[j]) \cup Y \cup (X \ Fair(g, i)))
      BY <2>2 DEF CPre, SafeInto
    <3>2. X \subseteq Holding(g, Z, Y, j, i)
      BY <3>1 DEF Holding
    <3> QED
      BY <1>4, <3>2
  <2> DEFINE W == {s \in Z : s \notin g.goals[j] /\ s \notin Y}
             At(s, k, i) == RankedAt(g, cert, j, s, k, i) /\ s \in RankLayer(g, cert, j, k, i)
  <2>3. W = {}
    <3> SUFFICES ASSUME W # {} PROVE FALSE
      OBVIOUS
    <3> DEFINE K == {k \in Nat : \E i \in Nat, s \in W : At(s, k, i)}
    <3>1. \A s \in W, k0, i0 \in Nat : RankedAt(g, cert, j, s, k0, i0) =>
            \E k, i \in Nat : At(s, k, i) /\ (k < k0 \/ (k = k0 /\ i <= i0))
      <4> SUFFICES ASSUME NEW s \in W, NEW k0 \in Nat, NEW i0 \in Nat,
                          RankedAt(g, cert, j, s, k0, i0)
                   PROVE  \E k, i \in Nat : At(s, k, i) /\ (k < k0 \/ (k = k0 /\ i <= i0))
        OBVIOUS
      <4>1. s \in cert.inv /\ s \notin g.goals[j]
        OBVIOUS
      <4>2. PICK k, i \in Nat :
              /\ RankedAt(g, cert, j, s, k, i) /\ s \in RankLayer(g, cert, j, k, i)
              /\ k < k0 \/ (k = k0 /\ i <= i0)
              /\ s \notin Lower(g, cert, j, k, i)
        BY <4>1, LeastRank, Zenon
      <4> QED
        BY <4>2
    <3>2. K # {}
      <4>1. PICK s \in W : TRUE
        OBVIOUS
      <4>2. PICK i0 \in 1..NumFairs(g), k0 \in 1..Len(cert.y[j]) : s \in cert.x[<<j, i0>>][k0]
        BY <1>1, <4>1 DEF Covered
      <4>3. RankedAt(g, cert, j, s, k0, i0) /\ k0 \in Nat /\ i0 \in Nat
        BY <4>2 DEF RankedAt
      <4> QED
        BY <3>1, <4>3
    <3> HIDE DEF At, W
    <3>3. PICK k \in K : \A m \in K : k <= m
      <4>1. K \in SUBSET Nat
        OBVIOUS
      <4> HIDE DEF K
      <4> QED
        BY <3>2, <4>1, LeastNatural
    <3> DEFINE I == {i \in Nat : \E s \in W : At(s, k, i)}
    <3>4. PICK i \in I : \A m \in I : i <= m
      <4>1. I # {} /\ I \in SUBSET Nat
        BY <3>3
      <4> HIDE DEF I
      <4> QED
        BY <4>1, LeastNatural
    <3>5. k \in Nat /\ i \in Nat
      BY <3>3, <3>4
    <3>6. \A m, b \in Nat, s \in W : At(s, m, b) => k < m \/ (k = m /\ i <= b)
      <4> SUFFICES ASSUME NEW m \in Nat, NEW b \in Nat, NEW s \in W, At(s, m, b)
                   PROVE  k < m \/ (k = m /\ i <= b)
        OBVIOUS
      <4>1. k <= m
        BY <3>3
      <4>2. k = m => i <= b
        BY <3>4
      <4> QED
        BY <3>5, <4>1, <4>2
    <3>7. PICK s \in W : At(s, k, i)
      BY <3>4
    <3> HIDE DEF K, I
    <3> DEFINE X == RankLayer(g, cert, j, k, i)
               T == Z \cap Progress(g, cert, j, k, i)
    <3>8. k \in 1..Len(cert.y[j]) /\ i \in 1..NumFairs(g) /\ s \in X
      BY <3>7 DEF At, RankedAt
    <3>9. ASSUME NEW t \in T PROVE t \in (Z \cap g.goals[j]) \cup Y \cup (X \ Fair(g, i))
      <4> SUFFICES ASSUME t \notin g.goals[j], t \notin Y PROVE t \in X \ Fair(g, i)
        OBVIOUS
      <4>1. t \in W
        BY DEF W
      <4>2. CASE t \in cert.x[<<j, i>>][k] \ Fair(g, i)
        <5>1. RankedAt(g, cert, j, t, k, i)
          BY <3>8, <4>2 DEF RankedAt
        <5>2. PICK m, b \in Nat : At(t, m, b) /\ (m < k \/ (m = k /\ b <= i))
          BY <3>1, <3>5, <4>1, <5>1
        <5>3. k < m \/ (k = m /\ i <= b)
          BY <3>6, <4>1, <5>2
        <5>4. m = k /\ b = i
          BY <3>5, <5>2, <5>3
        <5> QED
          BY <4>2, <5>2, <5>4 DEF At
      <4>3. CASE k # 1 /\ t \in cert.y[j][k - 1]
        <5>1. k - 1 \in 1..Len(cert.y[j]) /\ k - 1 \in Nat
          BY <3>8, <4>3
        <5>2. cert.y[j][k - 1] = UNION {cert.x[<<j, b>>][k - 1] : b \in 1..NumFairs(g)}
          BY <2>0, <5>1
        <5>3. PICK a \in 1..NumFairs(g) : t \in cert.x[<<j, a>>][k - 1]
          BY <4>3, <5>2
        <5>4. RankedAt(g, cert, j, t, k - 1, a) /\ a \in Nat
          BY <5>1, <5>3 DEF RankedAt
        <5>5. PICK m, b \in Nat : At(t, m, b) /\ (m < k - 1 \/ (m = k - 1 /\ b <= a))
          BY <3>1, <4>1, <5>1, <5>4
        <5>6. k < m \/ (k = m /\ i <= b)
          BY <3>6, <4>1, <5>5
        <5> QED
          BY <3>5, <5>4, <5>5, <5>6
      <4> QED
        BY <4>2, <4>3 DEF Progress
    <3>10. \A r \in X, u \in UMove : \E c \in CMove : <<r, u, c>> \in SafeInto(g, T)
      BY <2>1, <3>8
    <3>11. X \in SUBSET State
      BY <1>2 DEF RankLayer
    <3> HIDE DEF X, T
    <3>12. X \subseteq Y
      BY <2>2, <3>8, <3>9, <3>10, <3>11
    <3> QED
      BY <3>8, <3>12 DEF W
  <2>4. ASSUME NEW s \in Z, s \in g.goals[j] PROVE s \in Y
    <3>1. Z \subseteq (Z \cap g.goals[j]) \cup Y \cup ({s} \ Fair(g, 1))
      BY <2>3
    <3>2. 1 \in 1..NumFairs(g) /\ {s} \in SUBSET State
      BY <1>1, <1>2
    <3>3. \A r \in {s}, u \in UMove : \E c \in CMove : <<r, u, c>> \in SafeInto(g, Z)
      BY <2>1, <2>4
    <3>4. {s} \subseteq Y
      BY <2>2, <3>1, <3>2, <3>3
    <3> QED
      BY <3>4
  <2> QED
    BY <2>3, <2>4
<1> HIDE DEF Z
<1>5. g.reset \in Winning(g)
  BY <1>1, <1>2, <1>4 DEF Winning
<1> QED
  BY <1>5 DEF g

-----------------------------------------------------------------------------
\* The environment's certificate.
LexMin(A, k, i) ==
  <<k, i>> \in A /\ \A m, b \in Nat : <<m, b>> \in A => k < m \/ (k = m /\ i <= b)

\* Every non-empty set of pairs has a first one.
LEMMA LexLeast ==
  ASSUME NEW A \in SUBSET (Nat \X Nat), A # {}
  PROVE  \E k, i \in Nat : LexMin(A, k, i)
<1> PICK k0, i0 \in Nat : <<k0, i0>> \in A
  OBVIOUS
<1> DEFINE K == {k \in Nat : \E i \in Nat : <<k, i>> \in A}
<1>1. k0 \in Nat /\ i0 \in Nat /\ k0 \in K
  OBVIOUS
<1> HIDE DEF K
<1>2. PICK k \in K : \A m \in K : k <= m
  <2>1. K \in SUBSET Nat /\ K # {}
    BY <1>1 DEF K
  <2> QED
    BY <2>1, LeastNatural
<1> DEFINE I == {i \in Nat : <<k, i>> \in A}
<1>3. I # {} /\ I \in SUBSET Nat /\ k \in Nat
  BY <1>2 DEF K
<1> HIDE DEF I
<1>4. PICK i \in I : \A m \in I : i <= m
  BY <1>3, LeastNatural
<1>5. i \in Nat /\ <<k, i>> \in A
  BY <1>3, <1>4 DEF I
<1>6. \A m, b \in Nat : <<m, b>> \in A => k < m \/ (k = m /\ i <= b)
  <2> SUFFICES ASSUME NEW m \in Nat, NEW b \in Nat, <<m, b>> \in A
               PROVE  k < m \/ (k = m /\ i <= b)
    OBVIOUS
  <2>1. k <= m
    BY <1>2 DEF K
  <2>2. k = m => i <= b
    BY <1>4 DEF I
  <2> QED
    BY <1>3, <2>1, <2>2
<1> QED
  BY <1>3, <1>5, <1>6 DEF LexMin

DualAt(g, cert, s, k, j) ==
  k \in 1..Len(cert.levels) /\ j \in 1..NumGoals(g) /\ s \in cert.levels[k].y[j]
DualLower(g, cert, k, j) ==
  {s \in cert.inv : \E m, b \in Nat : (m < k \/ (m = k /\ b < j)) /\ DualAt(g, cert, s, m, b)}
DualMove(g, cert, s, t, phase) ==
  \A k \in 1..Len(cert.levels), j \in 1..NumGoals(g) :
    \A l \in 1..Len(cert.levels[k].x[<<j, phase>>]) :
      s \in DualLayer(g, cert, k, j, l, phase) => t \in DualProgress(g, cert, k, j, l, phase)
InnerAt(cert, k, j, phase, s, l) ==
  l \in 1..Len(cert.levels[k].x[<<j, phase>>]) /\ s \in cert.levels[k].x[<<j, phase>>][l]

\* There are levels, and inner ranks at each.
LEMMA LevelsTyped ==
  ASSUME NEW g, NEW cert, EnvironmentCertFits(g, cert), EnvironmentRanked(cert)
  PROVE  /\ Len(cert.levels) \in Nat \ {0}
         /\ \A k \in 1..Len(cert.levels), j \in 1..NumGoals(g), i \in 1..NumFairs(g) :
              Len(cert.levels[k].x[<<j, i>>]) \in Nat \ {0}
<1> DEFINE D == (1..NumGoals(g)) \X (1..NumFairs(g))
           Level == [z : SUBSET State, y : [1..NumGoals(g) -> SUBSET State],
                     x : [D -> Seq(SUBSET State)]]
<1>1. cert.levels \in Seq(Level)
  BY DEF EnvironmentCertFits
<1>2. Len(cert.levels) \in Nat \ {0}
  BY <1>1 DEF EnvironmentRanked
<1>3. ASSUME NEW k \in 1..Len(cert.levels), NEW j \in 1..NumGoals(g), NEW i \in 1..NumFairs(g)
      PROVE  Len(cert.levels[k].x[<<j, i>>]) \in Nat \ {0}
  <2>1. cert.levels[k] \in Level
    <3> HIDE DEF Level
    <3> QED
      BY <1>1, <1>2
  <2>2. cert.levels[k].x \in [D -> Seq(SUBSET State)]
    BY <2>1
  <2>3. <<j, i>> \in D /\ D = DOMAIN cert.levels[k].x
    BY <2>2
  <2>4. cert.levels[k].x[<<j, i>>] \in Seq(SUBSET State)
    BY <2>2, <2>3
  <2>5. Len(cert.levels[k].x[<<j, i>>]) \in Nat
    BY <2>4
  <2>6. Len(cert.levels[k].x[<<j, i>>]) > 0
    BY <2>3 DEF EnvironmentRanked
  <2> QED
    BY <2>5, <2>6
<1> QED
  BY <1>2, <1>3

\* The outer levels lie in the region, and a state of the region has a first one.
LEMMA LevelsInside ==
  ASSUME NEW g, NEW cert, EnvironmentCertFits(g, cert), EnvironmentRanked(cert),
         EnvironmentShape(g, cert)
  PROVE  /\ \A k \in 1..Len(cert.levels) : cert.levels[k].z \subseteq cert.inv
         /\ \A s \in cert.inv : \E k, j \in Nat : DualAt(g, cert, s, k, j)
<1> DEFINE L == Len(cert.levels)
           N == L - 1
           T == {d \in 0..N : cert.levels[L - d].z \subseteq cert.inv}
<1>1. L \in Nat \ {0} /\ N \in Nat
  BY LevelsTyped
<1>2. /\ cert.inv = cert.levels[L].z
      /\ \A k \in 1..L : /\ cert.levels[k].z = UNION {cert.levels[k].y[j] : j \in 1..NumGoals(g)}
                         /\ Before(cert, k) \subseteq cert.levels[k].z
  BY DEF EnvironmentShape, LastOf
<1> HIDE DEF L
<1>3. 0 \in T
  <2>1. 0 \in 0..N /\ L - 0 = L
    BY <1>1
  <2> QED
    BY <1>2, <2>1
<1>4. ASSUME NEW d \in 0..N, d \in T, d + 1 \in 0..N PROVE d + 1 \in T
  <2>1. L - d \in 1..L /\ L - d # 1 /\ L - (d + 1) = (L - d) - 1
    BY <1>1, <1>4
  <2>2. Before(cert, L - d) = cert.levels[L - (d + 1)].z
    BY <2>1 DEF Before
  <2>3. Before(cert, L - d) \subseteq cert.inv
    BY <1>2, <1>4, <2>1
  <2> QED
    BY <1>4, <2>2, <2>3
<1> HIDE DEF T, N
<1>5. T = 0..N
  <2>1. T \in SUBSET (0..N)
    BY DEF T
  <2> QED
    BY <1>1, <1>3, <1>4, <2>1, UpTo
<1>6. ASSUME NEW k \in 1..L PROVE cert.levels[k].z \subseteq cert.inv
  <2>1. L - k \in 0..N /\ L - (L - k) = k
    BY <1>1 DEF N
  <2> QED
    BY <1>5, <2>1 DEF T
<1>7. ASSUME NEW s \in cert.inv PROVE \E k, j \in Nat : DualAt(g, cert, s, k, j)
  <2>1. L \in 1..L
    BY <1>1
  <2>2. PICK j \in 1..NumGoals(g) : s \in cert.levels[L].y[j]
    BY <1>2, <2>1
  <2>3. L \in Nat /\ j \in Nat
    BY <1>1
  <2> QED
    BY <2>1, <2>2, <2>3 DEF DualAt, L
<1> QED
  BY <1>6, <1>7 DEF L

\* A state at a level has a first level and goal.
LEMMA DualLeast ==
  ASSUME NEW g, NEW cert, NEW s \in cert.inv,
         NEW k0 \in Nat, NEW j0 \in Nat, DualAt(g, cert, s, k0, j0)
  PROVE  \E k, j \in Nat : /\ DualAt(g, cert, s, k, j) /\ s \notin DualLower(g, cert, k, j)
                           /\ k < k0 \/ (k = k0 /\ j <= j0)
<1> DEFINE A == {a \in Nat \X Nat : DualAt(g, cert, s, a[1], a[2])}
<1>1. A \in SUBSET (Nat \X Nat) /\ <<k0, j0>> \in A
  OBVIOUS
<1>2. \A k, j \in Nat : <<k, j>> \in A <=> DualAt(g, cert, s, k, j)
  OBVIOUS
<1> HIDE DEF A
<1>3. PICK k, j \in Nat : LexMin(A, k, j)
  BY <1>1, LexLeast
<1>a. /\ <<k, j>> \in A /\ (k < k0 \/ (k = k0 /\ j <= j0))
      /\ \A m, b \in Nat : <<m, b>> \in A => k < m \/ (k = m /\ j <= b)
  BY <1>1, <1>3 DEF LexMin
<1>4. s \notin DualLower(g, cert, k, j)
  <2> SUFFICES ASSUME s \in DualLower(g, cert, k, j) PROVE FALSE
    OBVIOUS
  <2>1. PICK m, b \in Nat : (m < k \/ (m = k /\ b < j)) /\ DualAt(g, cert, s, m, b)
    BY DEF DualLower
  <2>2. k < m \/ (k = m /\ j <= b)
    BY <1>2, <1>a, <2>1
  <2> QED
    BY <2>1, <2>2
<1> QED
  BY <1>2, <1>a, <1>4

\* A round of an accepted policy from the first outer level and first goal of s,
\* and from any inner rank there.
LEMMA DualRound ==
  ASSUME NEW g, NEW cert, EnvironmentCertFits(g, cert), EnvironmentRanked(cert),
         EnvironmentShape(g, cert), NumGoals(g) \in Nat,
         NEW s \in cert.inv, NEW t, NEW phase \in 1..NumFairs(g),
         DualMove(g, cert, s, t, phase), NEW k \in Nat, NEW j \in Nat, DualAt(g, cert, s, k, j),
         s \notin DualLower(g, cert, k, j)
  PROVE  /\ DualAt(g, cert, t, k, j) /\ t \in cert.inv
         /\ t \in DualLower(g, cert, k, j) \/ t \notin g.goals[j]
         /\ \A l0 \in Nat : InnerAt(cert, k, j, phase, s, l0) =>
              \/ t \in Fair(g, phase)
              \/ \E l \in Nat : l < l0 /\ InnerAt(cert, k, j, phase, t, l)
<1> DEFINE x == cert.levels[k].x[<<j, phase>>]
<1>1. k \in 1..Len(cert.levels) /\ j \in 1..NumGoals(g) /\ s \in cert.levels[k].y[j]
  BY DEF DualAt
<1>2. Len(x) \in Nat \ {0} /\ Len(cert.levels) \in Nat
  BY <1>1, LevelsTyped
<1>3. /\ \A m \in 1..Len(cert.levels) :
           cert.levels[m].z = UNION {cert.levels[m].y[b] : b \in 1..NumGoals(g)}
      /\ cert.levels[k].y[j] = {u \in State : \A i \in 1..NumFairs(g) :
                                  u \in LastOf(cert.levels[k].x[<<j, i>>])}
  BY <1>1 DEF EnvironmentShape
<1>4. \A u \in cert.inv : u \in Before(cert, k) => u \in DualLower(g, cert, k, j)
  <2> SUFFICES ASSUME NEW u \in cert.inv, u \in Before(cert, k)
               PROVE  u \in DualLower(g, cert, k, j)
    OBVIOUS
  <2>1. k # 1 /\ u \in cert.levels[k - 1].z
    BY DEF Before
  <2>2. k - 1 \in 1..Len(cert.levels) /\ k - 1 \in Nat /\ k - 1 < k
    BY <1>1, <1>2, <2>1
  <2>3. PICK b \in 1..NumGoals(g) : u \in cert.levels[k - 1].y[b]
    BY <1>3, <2>1, <2>2
  <2>4. DualAt(g, cert, u, k - 1, b) /\ b \in Nat
    BY <2>2, <2>3 DEF DualAt
  <2> QED
    BY <2>2, <2>4 DEF DualLower
<1>5. s \in cert.levels[k].z \ Before(cert, k)
  BY <1>1, <1>3, <1>4
<1>6. ASSUME NEW b \in 1..(j - 1) PROVE s \notin cert.levels[k].y[b]
  <2>1. b \in 1..NumGoals(g) /\ b \in Nat /\ b < j
    BY <1>1
  <2>2. s \in cert.levels[k].y[b] => DualAt(g, cert, s, k, b)
    BY <1>1, <2>1 DEF DualAt
  <2> QED
    BY <2>1, <2>2 DEF DualLower
<1>7. ASSUME NEW l0 \in Nat, InnerAt(cert, k, j, phase, s, l0)
      PROVE  \E l \in Nat : /\ l <= l0 /\ l \in 1..Len(x)
                            /\ t \in DualProgress(g, cert, k, j, l, phase)
  <2> DEFINE T == {l \in Nat : InnerAt(cert, k, j, phase, s, l)}
  <2>1. T \in SUBSET Nat /\ l0 \in T
    BY <1>7
  <2> HIDE DEF T
  <2>2. PICK l \in T : \A m \in T : l <= m
    BY <2>1, LeastNatural
  <2>3. l \in Nat /\ l \in 1..Len(x) /\ s \in x[l]
    BY <2>2 DEF T, InnerAt
  <2>4. ASSUME NEW m \in 1..(l - 1) PROVE s \notin x[m]
    <3>1. m \in Nat /\ m \in 1..Len(x) /\ m < l
      BY <1>2, <2>3
    <3>2. s \in x[m] => m \in T
      BY <3>1 DEF T, InnerAt
    <3> QED
      BY <2>2, <2>3, <3>1, <3>2
  <2>5. s \in DualLayer(g, cert, k, j, l, phase)
    BY <1>1, <1>5, <1>6, <2>3, <2>4 DEF DualLayer
  <2> QED
    BY <1>1, <2>1, <2>2, <2>3, <2>5 DEF DualMove
<1>8. InnerAt(cert, k, j, phase, s, Len(x))
  <2>1. Len(x) \in 1..Len(x)
    BY <1>2
  <2> QED
    BY <1>1, <1>3, <2>1 DEF InnerAt, LastOf
<1>9. PICK l1 \in Nat : t \in DualProgress(g, cert, k, j, l1, phase)
  BY <1>2, <1>7, <1>8
<1>10. t \in cert.levels[k].y[j] /\ (t \in Before(cert, k) \/ t \notin g.goals[j])
  BY <1>9 DEF DualProgress
<1>11. t \in cert.inv
  BY <1>1, <1>3, <1>10, LevelsInside
<1>12. ASSUME NEW l0 \in Nat, InnerAt(cert, k, j, phase, s, l0)
       PROVE  \/ t \in Fair(g, phase)
              \/ \E l \in Nat : l < l0 /\ InnerAt(cert, k, j, phase, t, l)
  <2>1. PICK l \in Nat : /\ l <= l0 /\ l \in 1..Len(x)
                         /\ t \in DualProgress(g, cert, k, j, l, phase)
    BY <1>7, <1>12
  <2>2. t \in Fair(g, phase) \/ (l # 1 /\ t \in x[l - 1])
    BY <2>1 DEF DualProgress
  <2>3. l # 1 => l - 1 \in Nat /\ l - 1 \in 1..Len(x) /\ l - 1 < l0
    BY <1>2, <2>1
  <2> QED
    BY <2>2, <2>3 DEF InnerAt
<1> QED
  BY <1>1, <1>4, <1>10, <1>11, <1>12 DEF DualAt

\* Hence the outer level and the goal denied never rise.
LEMMA DualFalls ==
  ASSUME NEW g, NEW cert, EnvironmentCertFits(g, cert), EnvironmentRanked(cert),
         EnvironmentShape(g, cert), NumGoals(g) \in Nat,
         NEW s \in cert.inv, NEW t, NEW phase \in 1..NumFairs(g),
         DualMove(g, cert, s, t, phase)
  PROVE  /\ t \in cert.inv
         /\ \A k, j \in Nat :
              /\ s \in DualLower(g, cert, k, j) => t \in DualLower(g, cert, k, j)
              /\ DualAt(g, cert, s, k, j) =>
                   \/ t \in DualLower(g, cert, k, j)
                   \/ DualAt(g, cert, t, k, j) /\ t \notin g.goals[j]
<1>1. ASSUME NEW k0 \in Nat, NEW j0 \in Nat, DualAt(g, cert, s, k0, j0)
      PROVE  \E k, j \in Nat :
               /\ k < k0 \/ (k = k0 /\ j <= j0)
               /\ DualAt(g, cert, t, k, j) /\ t \in cert.inv
               /\ t \in DualLower(g, cert, k, j) \/ t \notin g.goals[j]
  <2>1. PICK k, j \in Nat : /\ DualAt(g, cert, s, k, j) /\ s \notin DualLower(g, cert, k, j)
                            /\ k < k0 \/ (k = k0 /\ j <= j0)
    BY <1>1, DualLeast
  <2>2. /\ DualAt(g, cert, t, k, j) /\ t \in cert.inv
        /\ t \in DualLower(g, cert, k, j) \/ t \notin g.goals[j]
    BY <2>1, DualRound
  <2> QED
    BY <2>1, <2>2
<1>2. t \in cert.inv
  <2>1. PICK k, j \in Nat : DualAt(g, cert, s, k, j)
    BY LevelsInside
  <2> QED
    BY <1>1, <2>1
<1>3. ASSUME NEW k0 \in Nat, NEW j0 \in Nat, NEW k \in Nat, NEW j \in Nat,
             k < k0 \/ (k = k0 /\ j < j0), DualAt(g, cert, t, k, j)
      PROVE  t \in DualLower(g, cert, k0, j0)
  BY <1>2, <1>3 DEF DualLower
<1>4. ASSUME NEW k0 \in Nat, NEW j0 \in Nat, s \in DualLower(g, cert, k0, j0)
      PROVE  t \in DualLower(g, cert, k0, j0)
  <2>1. PICK k1, j1 \in Nat : /\ k1 < k0 \/ (k1 = k0 /\ j1 < j0)
                              /\ DualAt(g, cert, s, k1, j1)
    BY <1>4 DEF DualLower
  <2>2. PICK k, j \in Nat : /\ k < k1 \/ (k = k1 /\ j <= j1)
                            /\ DualAt(g, cert, t, k, j)
    BY <1>1, <2>1
  <2>3. k < k0 \/ (k = k0 /\ j < j0)
    BY <2>1, <2>2
  <2> QED
    BY <1>3, <2>2, <2>3
<1>5. ASSUME NEW k0 \in Nat, NEW j0 \in Nat, DualAt(g, cert, s, k0, j0)
      PROVE  \/ t \in DualLower(g, cert, k0, j0)
             \/ DualAt(g, cert, t, k0, j0) /\ t \notin g.goals[j0]
  <2>1. PICK k, j \in Nat :
               /\ k < k0 \/ (k = k0 /\ j <= j0)
               /\ DualAt(g, cert, t, k, j) /\ t \in cert.inv
               /\ t \in DualLower(g, cert, k, j) \/ t \notin g.goals[j]
    BY <1>1, <1>5
  <2>2. CASE k = k0 /\ j = j0
    BY <2>1, <2>2
  <2>3. CASE k < k0 \/ (k = k0 /\ j < j0)
    BY <1>3, <2>1, <2>3
  <2> QED
    BY <2>1, <2>2, <2>3
<1> QED
  BY <1>2, <1>4, <1>5

\* A round of the environment's policy in a state of the certified region.
LEMMA EnvironmentStep ==
  ASSUME NEW R, Playable(R), R.environment, R.method # "REGION", CertPassed(R),
         NEW s \in R.cert.inv, NEW bits \in Modes(NumFairs(R.game)),
         NEW c, c = Current(bits),
         NEW phase, phase = IF s \in Fair(R.game, c) THEN Cyclic(c, NumFairs(R.game)) ELSE c,
         NEW t \in Successors(R, <<s, bits>>)
  PROVE  t[2] = {phase} /\ DualMove(R.game, R.cert, s, t[1], phase)
<1> DEFINE q == <<s, bits>>
           g == R.game
           cert == R.cert
<1>1. q[1] = s /\ q[2] = bits
  OBVIOUS
<1>2. NumFairs(g) \in Nat \ {0} /\ NumCounters(R) = NumFairs(g)
  BY RequestTyped DEF Playable, NumCounters
<1>3. PICK m \in 0..NumCounters(R) : bits = IF m = 0 THEN {} ELSE {m}
  BY <1>2, ModeFacts
<1>4. EnvironmentMode(g, R.policy, cert, bits)
  BY <1>3 DEF CertPassed, ModeOK
<1>5. /\ R.policy.count[<<s, bits>>] = {phase}
      /\ \A k \in 1..Len(cert.levels), j \in 1..NumGoals(g) :
           \A l \in 1..Len(cert.levels[k].x[<<j, phase>>]) :
             s \in DualLayer(g, cert, k, j, l, phase) =>
               \A d \in CMove :
                 <<s, R.policy.out[<<s, bits>>], d>> \in
                   BadOrInto(g, DualProgress(g, cert, k, j, l, phase))
  BY <1>4 DEF EnvironmentMode, Prescribed
<1>6. PICK d \in CMove : /\ <<s, R.policy.out[q], d>> \notin g.bad
                         /\ t = <<g.succ[<<s, R.policy.out[q], d>>], R.policy.count[q]>>
  <2>1. PICK w \in Rounds(R, q) : /\ t = <<g.succ[w], Counted(R, q, w)>>
                                  /\ w \notin g.bad
    BY DEF Successors
  <2> QED
    BY <1>1, <2>1 DEF Rounds, Counted
<1>7. t[2] = {phase} /\ t[1] = g.succ[<<s, R.policy.out[q], d>>]
  BY <1>5, <1>6
<1>8. \A T : <<s, R.policy.out[q], d>> \in BadOrInto(g, T) => t[1] \in T
  BY <1>6, <1>7 DEF BadOrInto
<1> QED
  BY <1>5, <1>7, <1>8 DEF DualMove

\* The certificate of the environment fits, with levels.
Ranked(R) ==
  EnvironmentCertFits(R.game, R.cert) /\ EnvironmentRanked(R.cert)

\* The environment's loop stays in the certified region, with a counter that is
\* one.
LEMMA EnvironmentRegion ==
  ASSUME NEW R, Playable(R), R.environment, R.method # "REGION", CertPassed(R), Ranked(R),
         NEW q \in Reachable(R)
  PROVE  q = <<q[1], q[2]>> /\ q[1] \in R.cert.inv /\ q[2] \in Modes(NumFairs(R.game))
<1> DEFINE n == NumFairs(R.game)
           S == {<<s, bits>> : s \in R.cert.inv, bits \in Modes(n)}
<1>1. n \in Nat \ {0} /\ NumGoals(R.game) \in Nat
  BY RequestTyped DEF Playable
<1>2. InitialState(R) \in S
  BY <1>1, ModeFacts DEF InitialState, CertPassed
<1>3. ASSUME NEW p \in S, NEW t \in Successors(R, p), p \in LoopStates(R) PROVE t \in S
  <2>1. PICK s \in R.cert.inv, bits \in Modes(n) : p = <<s, bits>>
    OBVIOUS
  <2> DEFINE c == Current(bits)
             d == IF s \in Fair(R.game, c) THEN Cyclic(c, n) ELSE c
  <2>2. c \in 1..n
    BY <1>1, ModeFacts
  <2>3. Cyclic(c, n) \in 1..n
    BY <1>1, <2>2, CounterMoves
  <2>4. d \in 1..n
    BY <2>2, <2>3
  <2>5. {d} \in Modes(n)
    BY <1>1, <2>4, ModeFacts
  <2>6. t[2] = {d} /\ DualMove(R.game, R.cert, s, t[1], d)
    BY <2>1, <1>3, EnvironmentStep
  <2> HIDE DEF d
  <2>7. t[1] \in R.cert.inv
    <3>1. EnvironmentShape(R.game, R.cert)
      BY DEF CertPassed
    <3> QED
      BY <1>1, <2>4, <2>6, <3>1, DualFalls DEF Ranked
  <2>8. t = <<t[1], t[2]>>
    BY DEF Successors
  <2> QED
    BY <2>5, <2>6, <2>7, <2>8
<1> HIDE DEF S
<1>4. Reachable(R) \subseteq S
  BY <1>2, <1>3, ReachableLeast
<1> QED
  BY <1>4 DEF S

\* One step in the loop: the phase is the counter of the next state.
LEMMA EnvironmentFalls ==
  ASSUME NEW R, Playable(R), R.environment, R.method # "REGION", CertPassed(R), Ranked(R),
         NEW t \in Reachable(R), NEW u \in Successors(R, t),
         NEW c, c = Current(t[2]), NEW d, d = Current(u[2])
  PROVE  /\ t[1] \in R.cert.inv /\ u[1] \in R.cert.inv
         /\ c \in 1..NumFairs(R.game) /\ d \in 1..NumFairs(R.game)
         /\ d = IF t[1] \in Fair(R.game, c) THEN Cyclic(c, NumFairs(R.game)) ELSE c
         /\ DualMove(R.game, R.cert, t[1], u[1], d)
<1> DEFINE n == NumFairs(R.game)
           e == IF t[1] \in Fair(R.game, c) THEN Cyclic(c, n) ELSE c
<1>1. n \in Nat \ {0}
  BY RequestTyped DEF Playable
<1>2. t = <<t[1], t[2]>> /\ t[1] \in R.cert.inv /\ t[2] \in Modes(n)
  BY EnvironmentRegion
<1>3. u[2] = {e} /\ DualMove(R.game, R.cert, t[1], u[1], e)
  BY <1>2, EnvironmentStep
<1>4. d = e
  BY <1>1, <1>3, ModeFacts
<1>5. u \in Reachable(R)
  BY ReachableClosed
<1>6. u[1] \in R.cert.inv /\ u[2] \in Modes(n)
  BY <1>5, EnvironmentRegion
<1>7. c \in 1..n /\ d \in 1..n
  BY <1>1, <1>2, <1>6, ModeFacts
<1> QED
  BY <1>2, <1>3, <1>4, <1>6, <1>7

\* The second part of a concatenation.
LEMMA SecondPart ==
  ASSUME NEW T, NEW a \in Seq(T), NEW b \in Seq(T), NEW j \in 1..Len(b)
  PROVE  /\ Len(a) + j \in 1..Len(a \o b)
         /\ (a \o b)[Len(a) + j] = b[j]
<1>1. Len(a) \in Nat /\ Len(b) \in Nat
  OBVIOUS
<1>2. Len(a \o b) = Len(a) + Len(b)
  OBVIOUS
<1>3. Len(a) + j \in 1..(Len(a) + Len(b)) /\ Len(a) + j > Len(a) /\ (Len(a) + j) - Len(a) = j
  BY <1>1
<1>4. \A i \in 1..(Len(a) + Len(b)) : (a \o b)[i] = IF i <= Len(a) THEN a[i] ELSE b[i - Len(a)]
  OBVIOUS
<1> QED
  BY <1>1, <1>2, <1>3, <1>4

\* No safe cycle meets every assumption and every goal ...
LEMMA EveryGoalDenied ==
  ASSUME NEW R, Playable(R), R.environment, R.method # "REGION", CertPassed(R), Ranked(R)
  PROVE  ~CycleMeeting(R, Reachable(R), R.game.fairs \o R.game.goals)
<1> SUFFICES ASSUME CycleMeeting(R, Reachable(R), R.game.fairs \o R.game.goals) PROVE FALSE
  OBVIOUS
<1> DEFINE Q == Reachable(R)
           g == R.game
           cert == R.cert
           sets == g.fairs \o g.goals
<1>1. PICK q \in Q :
        /\ q \in ReachedFrom(R, q, Q)
        /\ \A k \in 1..Len(sets) : \E p \in ReachedFrom(R, q, Q) :
             p[1] \in sets[k] /\ q \in ReachedFrom(R, p, Q)
  BY DEF CycleMeeting
<1>2. IsFiniteSet(Q)
  BY ReachableClosed
<1>3. /\ EnvironmentCertFits(g, cert) /\ EnvironmentRanked(cert) /\ EnvironmentShape(g, cert)
      /\ NumGoals(g) \in Nat
  BY RequestTyped DEF Ranked, CertPassed, Playable
<1>4. q[1] \in cert.inv
  BY EnvironmentRegion
<1>5. PICK k, j \in Nat : DualAt(g, cert, q[1], k, j) /\ q[1] \notin DualLower(g, cert, k, j)
  <2>1. PICK k0, j0 \in Nat : DualAt(g, cert, q[1], k0, j0)
    BY <1>3, <1>4, LevelsInside
  <2> QED
    BY <1>4, <2>1, DualLeast
<1> DEFINE B == {t \in Q : t[1] \in DualLower(g, cert, k, j)}
           E == {t \in Q : \/ t[1] \in DualLower(g, cert, k, j)
                           \/ DualAt(g, cert, t[1], k, j) /\ t[1] \notin g.goals[j]}
<1>6. ASSUME NEW t \in Q, NEW u \in Successors(R, t) \cap Q
      PROVE  /\ t \in B => u \in B
             /\ DualAt(g, cert, t[1], k, j) => u \in E
  <2>1. PICK d \in 1..NumFairs(g) : DualMove(g, cert, t[1], u[1], d)
    BY EnvironmentFalls
  <2>2. t[1] \in cert.inv
    BY EnvironmentRegion
  <2>3. /\ t[1] \in DualLower(g, cert, k, j) => u[1] \in DualLower(g, cert, k, j)
        /\ DualAt(g, cert, t[1], k, j) =>
             \/ u[1] \in DualLower(g, cert, k, j)
             \/ DualAt(g, cert, u[1], k, j) /\ u[1] \notin g.goals[j]
    BY <1>3, <2>1, <2>2, DualFalls
  <2> QED
    BY <2>3
<1>7. /\ Successors(R, q) \cap Q \subseteq E /\ q \notin B /\ B \subseteq Q
      /\ \A t \in B \cap Q : Successors(R, t) \cap Q \subseteq B
      /\ \A t \in E : Successors(R, t) \cap Q \subseteq E
      /\ \A t \in E : t[1] \in g.goals[j] => t \in B
  <2>1. B \subseteq E
    OBVIOUS
  <2>2. \A t \in E : t \in B \/ DualAt(g, cert, t[1], k, j)
    OBVIOUS
  <2>3. \A t \in E : t \in Q /\ (t[1] \in g.goals[j] => t \in B)
    OBVIOUS
  <2>4. B \subseteq Q /\ q \notin B
    BY <1>5
  <2> HIDE DEF B, E
  <2> QED
    BY <1>5, <1>6, <2>1, <2>2, <2>3, <2>4
<1> HIDE DEF Q, B, E
<1>8. ReachedFrom(R, q, Q) \subseteq E
  BY <1>2, <1>7, ReachedLeast
<1>9. PICK p \in ReachedFrom(R, q, Q) : p[1] \in g.goals[j] /\ q \in ReachedFrom(R, p, Q)
  <2>1. /\ g.fairs \in Seq(SUBSET State) /\ g.goals \in Seq(SUBSET State)
        /\ Len(g.fairs) \in Nat /\ Len(g.goals) \in Nat
    BY RequestTyped DEF Playable, GameRecords
  <2>2. j \in 1..Len(g.goals)
    BY <1>5 DEF DualAt, NumGoals
  <2>3. /\ Len(g.fairs) + j \in 1..Len(sets)
        /\ sets[Len(g.fairs) + j] = g.goals[j]
    <3> DEFINE a == g.fairs
               b == g.goals
    <3>1. a \in Seq(SUBSET State) /\ b \in Seq(SUBSET State) /\ j \in 1..Len(b)
      BY <2>1, <2>2
    <3> HIDE DEF a, b
    <3>2. Len(a) + j \in 1..Len(a \o b) /\ (a \o b)[Len(a) + j] = b[j]
      BY <3>1, SecondPart, Zenon
    <3> QED
      BY <3>2 DEF a, b
  <2> HIDE DEF sets, g
  <2> QED
    BY <1>1, <2>3
<1>10. ReachedFrom(R, p, Q) \subseteq B
  <2>1. p \in B
    BY <1>7, <1>8, <1>9
  <2> QED
    BY <1>2, <1>7, <2>1, PathStays
<1> QED
  BY <1>7, <1>9, <1>10


\* A state at a level has a least inner rank there.
LEMMA InnerLeast ==
  ASSUME NEW g, NEW cert, EnvironmentCertFits(g, cert), EnvironmentRanked(cert),
         EnvironmentShape(g, cert), NEW phase \in 1..NumFairs(g),
         NEW s, NEW k \in Nat, NEW j \in Nat, DualAt(g, cert, s, k, j)
  PROVE  \E l \in Nat : /\ InnerAt(cert, k, j, phase, s, l)
                        /\ \A m \in Nat : InnerAt(cert, k, j, phase, s, m) => l <= m
<1> DEFINE x == cert.levels[k].x[<<j, phase>>]
           T == {l \in Nat : InnerAt(cert, k, j, phase, s, l)}
<1>1. k \in 1..Len(cert.levels) /\ j \in 1..NumGoals(g) /\ s \in cert.levels[k].y[j]
  BY DEF DualAt
<1>2. Len(x) \in Nat \ {0}
  BY <1>1, LevelsTyped
<1>3. s \in LastOf(x)
  <2>1. cert.levels[k].y[j] = {u \in State : \A i \in 1..NumFairs(g) :
                                 u \in LastOf(cert.levels[k].x[<<j, i>>])}
    BY <1>1 DEF EnvironmentShape
  <2> QED
    BY <1>1, <2>1
<1>4. Len(x) \in 1..Len(x)
  BY <1>2
<1>5. InnerAt(cert, k, j, phase, s, Len(x))
  BY <1>3, <1>4 DEF InnerAt, LastOf
<1>6. T \in SUBSET Nat /\ T # {}
  BY <1>2, <1>5
<1>7. \A l \in Nat : l \in T <=> InnerAt(cert, k, j, phase, s, l)
  OBVIOUS
<1> HIDE DEF T
<1>8. PICK l \in T : \A m \in T : l <= m
  BY <1>6, LeastNatural
<1> QED
  BY <1>6, <1>7, <1>8

\* One step in the loop while assumption i fails: the counter nears i, or it
\* stays and the move denies the goal at its rank.
LEMMA EnvironmentNears ==
  ASSUME NEW R, Playable(R), R.environment, R.method # "REGION", CertPassed(R), Ranked(R),
         NEW i \in 1..Len(R.game.fairs),
         NEW t \in In(Reachable(R), State \ R.game.fairs[i]), NEW u \in Successors(R, t),
         NEW c, c = Current(t[2]), NEW d, d = Current(u[2])
  PROVE  /\ t[1] \in R.cert.inv /\ u[1] \in R.cert.inv
         /\ c \in 1..NumFairs(R.game)
         /\ Distance(c, i, NumFairs(R.game)) \in Nat /\ Distance(d, i, NumFairs(R.game)) \in Nat
         /\ t[1] \in Fair(R.game, c) =>
              Distance(d, i, NumFairs(R.game)) < Distance(c, i, NumFairs(R.game))
         /\ t[1] \notin Fair(R.game, c) => d = c /\ DualMove(R.game, R.cert, t[1], u[1], c)
<1> DEFINE n == NumFairs(R.game)
<1>1. n \in Nat /\ Len(R.game.fairs) \in Nat
  <2>1. R.game \in GameRecords /\ n \in Nat
    BY RequestTyped DEF Playable
  <2>2. R.game.fairs \in Seq(SUBSET State)
    BY <2>1 DEF GameRecords
  <2> QED
    BY <2>1, <2>2
<1>2. i \in 1..n /\ Fair(R.game, i) = R.game.fairs[i]
  BY <1>1 DEF NumFairs, Fair
<1>3. t \in Reachable(R) /\ t[1] \notin Fair(R.game, i)
  BY <1>2 DEF In
<1>4. /\ t[1] \in R.cert.inv /\ u[1] \in R.cert.inv /\ c \in 1..n /\ d \in 1..n
      /\ d = IF t[1] \in Fair(R.game, c) THEN Cyclic(c, n) ELSE c
      /\ DualMove(R.game, R.cert, t[1], u[1], d)
  BY <1>3, EnvironmentFalls
<1> HIDE DEF n
<1>5. Distance(c, i, n) \in Nat /\ Distance(d, i, n) \in Nat
  BY <1>1, <1>2, <1>4, CounterMoves
<1>6. t[1] \in Fair(R.game, c) => Distance(d, i, n) < Distance(c, i, n)
  <2> SUFFICES ASSUME t[1] \in Fair(R.game, c) PROVE Distance(d, i, n) < Distance(c, i, n)
    OBVIOUS
  <2>1. c # i /\ d = Cyclic(c, n)
    BY <1>3, <1>4
  <2> QED
    BY <1>1, <1>2, <1>4, <2>1, CounterMoves
<1>7. t[1] \notin Fair(R.game, c) => d = c /\ DualMove(R.game, R.cert, t[1], u[1], c)
  BY <1>4
<1> QED
  BY <1>4, <1>5, <1>6, <1>7 DEF n

\* ... and on no safe cycle does an assumption fail for ever.
LEMMA EveryFairnessMet ==
  ASSUME NEW R, Playable(R), R.environment, R.method # "REGION", CertPassed(R), Ranked(R),
         NEW i \in 1..Len(R.game.fairs)
  PROVE  ~CycleMeeting(R, In(Reachable(R), State \ R.game.fairs[i]), << >>)
<1> DEFINE Q == In(Reachable(R), State \ R.game.fairs[i])
           g == R.game
           cert == R.cert
           dist(t) == Distance(Current(t[2]), i, NumFairs(g))
<1> SUFFICES ASSUME CycleMeeting(R, Q, << >>) PROVE FALSE
  OBVIOUS
<1>1. PICK q \in Q : q \in ReachedFrom(R, q, Q)
  BY DEF CycleMeeting
<1> DEFINE c == Current(q[2])
<1>2. IsFiniteSet(Q) /\ Q \subseteq Reachable(R)
  <2>1. Q \subseteq Reachable(R)
    BY DEF In
  <2> QED
    BY <2>1, ReachableClosed, FS_Subset
<1>3. ASSUME NEW t \in Q, NEW u \in Successors(R, t)
      PROVE  /\ t[1] \in cert.inv /\ u[1] \in cert.inv
             /\ Current(t[2]) \in 1..NumFairs(g)
             /\ dist(t) \in Nat /\ dist(u) \in Nat
             /\ t[1] \in Fair(g, Current(t[2])) => dist(u) < dist(t)
             /\ t[1] \notin Fair(g, Current(t[2])) =>
                  /\ Current(u[2]) = Current(t[2])
                  /\ DualMove(g, cert, t[1], u[1], Current(t[2]))
  BY <1>3, EnvironmentNears
<1>4. /\ EnvironmentCertFits(g, cert) /\ EnvironmentRanked(cert) /\ EnvironmentShape(g, cert)
      /\ NumGoals(g) \in Nat
  BY RequestTyped DEF Ranked, CertPassed, Playable
<1> HIDE DEF Q, dist, c, g, cert
<1>5. PICK v \in Successors(R, q) \cap Q : q = v \/ q \in ReachedFrom(R, v, Q)
  BY <1>1, <1>2, FirstStep
<1>6. q[1] \in cert.inv /\ c \in 1..NumFairs(g) /\ dist(q) \in Nat
  BY <1>3, <1>5 DEF c
\* q does not meet the assumption waited for, or the counter would move on for good.
<1>7. q[1] \notin Fair(g, c)
  <2> SUFFICES ASSUME q[1] \in Fair(g, c) PROVE FALSE
    OBVIOUS
  <2> DEFINE A == {t \in Q : dist(t) < dist(q)}
  <2>1. \A t \in A \cap Q : Successors(R, t) \cap Q \subseteq A
    <3> SUFFICES ASSUME NEW t \in A, NEW u \in Successors(R, t) \cap Q PROVE u \in A
      OBVIOUS
    <3>1. dist(u) \in Nat /\ dist(t) \in Nat /\ dist(t) < dist(q)
      BY <1>3
    <3>2. CASE t[1] \in Fair(g, Current(t[2]))
      <4>1. dist(u) < dist(t)
        BY <1>3, <3>2
      <4>2. dist(u) < dist(q)
        BY <1>6, <3>1, <4>1
      <4> QED
        BY <4>2
    <3>3. CASE t[1] \notin Fair(g, Current(t[2]))
      <4>1. Current(u[2]) = Current(t[2])
        BY <1>3, <3>3
      <4>2. dist(u) = dist(t)
        BY <4>1 DEF dist
      <4> QED
        BY <3>1, <4>2
    <3> QED
      BY <3>2, <3>3
  <2>2. v \in A
    BY <1>3, <1>5 DEF c
  <2> HIDE DEF A
  <2>3. q \in A
    BY <1>2, <1>5, <2>1, <2>2, PathStays
  <2> QED
    BY <1>6, <2>3 DEF A
<1>8. PICK k, j \in Nat : DualAt(g, cert, q[1], k, j) /\ q[1] \notin DualLower(g, cert, k, j)
  <2>1. PICK k0, j0 \in Nat : DualAt(g, cert, q[1], k0, j0)
    BY <1>4, <1>6, LevelsInside
  <2> QED
    BY <1>6, <2>1, DualLeast
<1>9. PICK l0 \in Nat : /\ InnerAt(cert, k, j, c, q[1], l0)
                        /\ \A m \in Nat : InnerAt(cert, k, j, c, q[1], m) => l0 <= m
  BY <1>4, <1>6, <1>8, InnerLeast
<1> DEFINE At(t, l) == DualAt(g, cert, t[1], k, j) /\ InnerAt(cert, k, j, c, t[1], l)
           E == {t \in Q : \/ dist(t) < dist(q)
                           \/ /\ Current(t[2]) = c
                              /\ \/ t[1] \in Fair(g, c)
                                 \/ t[1] \in DualLower(g, cert, k, j)
                                 \/ \E l \in Nat : l < l0 /\ At(t, l)}
<1>10. ASSUME NEW t \in Q, NEW u \in Successors(R, t) \cap Q, Current(t[2]) = c,
              t[1] \notin Fair(g, c), NEW l \in Nat, l <= l0, At(t, l),
              t[1] \notin DualLower(g, cert, k, j)
       PROVE  u \in E
  <2>1. /\ Current(u[2]) = c /\ DualMove(g, cert, t[1], u[1], c) /\ t[1] \in cert.inv
    BY <1>3, <1>10
  <2>2. /\ DualAt(g, cert, u[1], k, j)
        /\ \/ u[1] \in Fair(g, c)
           \/ \E m \in Nat : m < l /\ InnerAt(cert, k, j, c, u[1], m)
    BY <1>4, <1>6, <1>10, <2>1, DualRound
  <2>3. CASE u[1] \in Fair(g, c)
    BY <2>1, <2>3
  <2>4. CASE \E m \in Nat : m < l /\ InnerAt(cert, k, j, c, u[1], m)
    <3>1. PICK m \in Nat : m < l /\ InnerAt(cert, k, j, c, u[1], m)
      BY <2>4
    <3>2. m < l0
      BY <1>10, <3>1
    <3> QED
      BY <2>1, <2>2, <3>1, <3>2
  <2> QED
    BY <2>2, <2>3, <2>4
<1>11. ASSUME NEW t \in E, NEW u \in Successors(R, t) \cap Q PROVE u \in E
  <2>0. t \in Q /\ dist(u) \in Nat /\ dist(t) \in Nat
    BY <1>3
  <2>1. CASE t[1] \in Fair(g, Current(t[2]))
    <3>1. dist(u) < dist(t)
      BY <1>3, <2>1
    <3>2. Current(t[2]) = c => dist(t) = dist(q)
      BY DEF dist, c
    <3>3. dist(t) <= dist(q)
      BY <1>6, <2>0, <3>2
    <3>4. dist(u) < dist(q)
      BY <1>6, <2>0, <3>1, <3>3
    <3> QED
      BY <3>4
  <2>2. CASE t[1] \notin Fair(g, Current(t[2]))
    <3>1. /\ Current(u[2]) = Current(t[2]) /\ t[1] \in cert.inv
          /\ DualMove(g, cert, t[1], u[1], Current(t[2]))
      BY <1>3, <2>2
    <3>2. dist(u) = dist(t)
      BY <3>1 DEF dist
    <3>3. CASE dist(t) < dist(q)
      BY <3>2, <3>3
    <3>4. CASE Current(t[2]) = c /\ t[1] \in DualLower(g, cert, k, j)
      <4>1. u[1] \in DualLower(g, cert, k, j)
        BY <1>4, <1>6, <3>1, <3>4, DualFalls
      <4> QED
        BY <3>1, <3>4, <4>1
    <3>5. CASE /\ Current(t[2]) = c /\ t[1] \notin DualLower(g, cert, k, j)
               /\ \E l \in Nat : l < l0 /\ At(t, l)
      <4>1. PICK l \in Nat : l < l0 /\ At(t, l)
        BY <3>5
      <4>2. l <= l0
        BY <4>1
      <4> HIDE DEF E, At
      <4> QED
        BY <1>10, <2>0, <2>2, <3>5, <4>1, <4>2
    <3> QED
      BY <2>2, <3>3, <3>4, <3>5
  <2> QED
    BY <2>1, <2>2
<1>12. q \notin E
  BY <1>6, <1>7, <1>8, <1>9
<1>13. Successors(R, q) \cap Q \subseteq E
  <2>1. At(q, l0) /\ l0 <= l0 /\ Current(q[2]) = c
    BY <1>8, <1>9 DEF c
  <2> HIDE DEF E, At
  <2> QED
    BY <1>7, <1>8, <1>10, <2>1
<1> HIDE DEF E
<1>14. ReachedFrom(R, q, Q) \subseteq E
  BY <1>2, <1>11, <1>13, ReachedLeast
<1> QED
  BY <1>1, <1>12, <1>14

\* An accepted policy of the environment does not lose.
LEMMA EnvironmentSound ==
  ASSUME NEW R, Playable(R), R.environment, R.method # "REGION", CertPassed(R), Ranked(R)
  PROVE  ~Loses(R)
BY EveryGoalDenied, EveryFairnessMet DEF Loses


-----------------------------------------------------------------------------
\* The run.

\* What the checked artifacts are worth.
Proved(R) == IF R.method = "REGION" THEN R.game.reset \in Winning(R.game) ELSE ~Loses(R)

CertPhases == PremiseStages \cup {"modes"}

\* The premises seen so far hold, and a certificate that verified proves something.
CertInv ==
  /\ pc \in CertPhases => ~req.cert.none
  /\ pc \in {"bind", "initial", "cover", "modes"} =>
       IF req.environment THEN EnvironmentShape(req.game, req.cert)
                          ELSE SystemShape(req.game, req.cert)
  /\ pc \in {"cover", "modes"} => req.game.reset \in req.cert.inv
  /\ pc = "modes" /\ ~req.environment => Covered(req.game, req.cert)
  /\ pc = "modes" => \A m \in 0..(mode - 1) : ModeOK(req, m)
  /\ proof = "VERIFIED" => Proved(req)

\* The exit code, and then the verdict, say what the methods found.
OutcomeInv ==
  /\ pc \in {"result", "return"} /\ code = "VERIFIED" => Proved(req)
  /\ pc \in {"result", "return"} /\ code = "REFUTED" => Loses(req) /\ req.method # "REGION"
  /\ pc = "done" => /\ verdict = "VERIFIED" => ~Loses(req)
                    /\ verdict = "REFUTED" => Loses(req)
                    /\ verdict = "REGION_VERIFIED" => req.game.reset \in Winning(req.game)

VerdictInv == SearchInv /\ LoopInv /\ CertInv /\ OutcomeInv

\* A policy or a region whose certificate passed every premise is as good as said.
LEMMA CertificateSound ==
  ASSUME RunInv, pc = "modes", ~req.cert.none, CertPassed(req)
  PROVE  Proved(req)
<1>1. /\ req \in Requests /\ ArgumentsFit /\ WellFormed
  BY DEF RunInv, PhaseInv, Compiled
<1>2. /\ req.readable /\ NumGoals(req.game) > 0
      /\ req.method = "REGION" <=> req.policy.none
      /\ req.method = "REGION" => ~req.environment
  BY <1>1 DEF ArgumentsFit, WellFormed, Game
<1>3. CASE req.method = "REGION"
  <2>1. req.game.reset \in Winning(req.game)
    BY <1>1, <1>2, <1>3, RegionSound
  <2> QED
    BY <1>3, <2>1 DEF Proved
<1>4. CASE req.method # "REGION"
  <2>1. Playable(req)
    BY <1>1, <1>2, <1>4 DEF Playable
  <2>2. CASE req.environment
    <3>1. EnvironmentCertFits(req.game, req.cert)
      BY <1>1, <1>2, <2>2, CheckConstants
    <3>2. EnvironmentRanked(req.cert)
      BY <1>1, <2>2 DEF WellFormed
    <3>3. ~Loses(req)
      BY <1>4, <2>1, <2>2, <3>1, <3>2, EnvironmentSound DEF Ranked
    <3> QED
      BY <1>4, <3>3 DEF Proved
  <2>3. CASE ~req.environment
    <3>1. ~Loses(req)
      BY <1>4, <2>1, <2>3, SystemSound
    <3> QED
      BY <1>4, <3>1 DEF Proved
  <2> QED
    BY <2>2, <2>3
<1> QED
  BY <1>3, <1>4

\* Outside the search nothing is asked of it.
LEMMA Elsewhere ==
  ASSUME LoopInv, req' = req, pc' \notin {"reach", "avoid", "y", "z"},
         closedLoop' = closedLoop \/ closedLoop' = "UNKNOWN"
  PROVE  SearchInv' /\ LoopInv'
BY DEF SearchInv, LoopInv

\* How the request is read and refused, and the result reported.
LEMMA FrameSound ==
  ASSUME RunInv, VerdictInv, req' = req,
         \/ Refuse \/ Enter \/ Read \/ ReadFails \/ Compile \/ WriteResult \/ Return
  PROVE  VerdictInv'
<1>i. LoopInv /\ CertInv /\ OutcomeInv
  BY DEF VerdictInv
<1>1. SearchInv' /\ LoopInv'
  <2>1. closedLoop' = closedLoop /\ pc' \notin {"reach", "avoid", "y", "z"}
    BY DEF Refuse, CheckFailure, Enter, Read, ReadFails, Compile, WriteResult, Return, methods
  <2> QED
    BY <1>i, <2>1, Elsewhere
<1>2. CertInv'
  <2>1. proof' = proof /\ req' = req
    BY DEF Refuse, Enter, Read, ReadFails, Compile, WriteResult, Return, methods
  <2>2. pc' \in CertPhases => pc' = "shape" /\ ~req.cert.none
    <3>1. CASE Compile
      <4>1. ArgumentsFit
        BY <3>1 DEF RunInv, PhaseInv, Compiled, Compile
      <4> QED
        BY <3>1, <4>1 DEF Compile, RunsProof, ArgumentsFit, CertPhases, PremiseStages
    <3>2. CASE ~Compile
      BY <3>2 DEF Refuse, CheckFailure, Enter, Read, ReadFails, WriteResult, Return, CertPhases,
                  PremiseStages
    <3> QED
      BY <3>1, <3>2
  <2>3. pc' = "shape" \/ pc' \notin CertPhases
    BY <2>2
  <2>4. pc' \notin {"bind", "initial", "cover", "modes"}
    BY <2>3 DEF CertPhases, PremiseStages
  <2>5. proof' = "VERIFIED" => Proved(req)'
    BY <1>i, <2>1 DEF CertInv
  <2> QED
    BY <2>1, <2>2, <2>4, <2>5 DEF CertInv
<1>3. OutcomeInv'
  <2>1. CASE Refuse \/ Enter \/ Read \/ Compile
    BY <2>1 DEF OutcomeInv, Refuse, CheckFailure, Enter, Read, Compile
  <2>2. CASE ReadFails
    BY <2>2 DEF OutcomeInv, ReadFails
  <2>3. CASE WriteResult
    BY <1>i, <2>3 DEF OutcomeInv, WriteResult
  <2>4. CASE Return
    <3>1. /\ pc = "return" /\ pc' = "done" /\ code # "REGION_VERIFIED"
          /\ \/ verdict' = "UNKNOWN"
             \/ verdict' = IF code = "VERIFIED" /\ req.method = "REGION"
                             THEN "REGION_VERIFIED" ELSE code
      <4>1. code # "REGION_VERIFIED"
        BY DEF RunInv, TypeOK, Results
      <4> QED
        BY <2>4, <4>1 DEF Return, CheckFailure
    <3>2. /\ code = "VERIFIED" => Proved(req)
          /\ code = "REFUTED" => Loses(req)
      BY <1>i, <3>1 DEF OutcomeInv
    <3> QED
      BY <3>1, <3>2 DEF OutcomeInv, Proved
  <2> QED
    BY <2>1, <2>2, <2>3, <2>4
<1> QED
  BY <1>1, <1>2, <1>3 DEF VerdictInv

\* The certificate's premises and modes.
LEMMA CertificateSteps ==
  ASSUME RunInv, VerdictInv, req' = req,
         PremiseHolds \/ PremiseFails \/ PremiseUnknown \/ ModePasses \/ ModeViolated \/ ModeUnknown
  PROVE  VerdictInv'
<1>i. LoopInv /\ CertInv /\ OutcomeInv
  BY DEF VerdictInv
<1>0. pc \in CertPhases /\ closedLoop' = closedLoop
  BY DEF PremiseHolds, PremiseFails, PremiseUnknown, ModePasses, ModeViolated, ModeUnknown,
         methods, CertPhases
<1>1. pc' \in CertPhases \cup {"loop", "decide"}
  <2>1. CASE PremiseHolds
    BY <2>1 DEF PremiseHolds, AfterPremise, CertPhases, PremiseStages
  <2>2. CASE PremiseFails \/ ModeViolated \/ ModeUnknown
    BY <2>2 DEF PremiseFails, ModeViolated, ModeUnknown, Concluded
  <2>3. CASE PremiseUnknown
    BY <2>3 DEF PremiseUnknown, AfterPremise, Concluded, CertPhases, PremiseStages
  <2>4. CASE ModePasses
    BY <2>4 DEF ModePasses, Concluded, CertPhases
  <2> QED
    BY <2>1, <2>2, <2>3, <2>4
<1>2. SearchInv' /\ LoopInv'
  BY <1>i, <1>0, <1>1, Elsewhere DEF CertPhases, PremiseStages
<1>3. OutcomeInv'
  BY <1>1 DEF OutcomeInv, CertPhases, PremiseStages
<1>4. ~req.cert.none
  BY <1>i, <1>0 DEF CertInv
<1>5. req.environment \in BOOLEAN /\ Game = req.game /\ mode \in Nat /\ NumCounters(req) \in Nat
  <2>1. req \in Requests
    BY DEF RunInv, PhaseInv
  <2>2. req.environment \in BOOLEAN /\ Game = req.game /\ NumCounters(req) \in Nat
    BY <2>1, Counters DEF Game
  <2>3. mode \in 0..(NumCounters(req) + 1)
    BY DEF RunInv, TypeOK
  <2> QED
    BY <2>2, <2>3
\* A result that is not VERIFIED asks for nothing.
<1>6. ASSUME NEW result, result # "VERIFIED", Concluded(result) PROVE CertInv'
  BY <1>6 DEF Concluded, CertInv, CertPhases, PremiseStages
<1>7. ASSUME PremiseHolds PROVE CertInv'
  <2>1. /\ pc \in PremiseStages /\ Premise(pc) /\ pc' = AfterPremise(pc)
        /\ proof' = proof /\ mode' = mode
    BY <1>7 DEF PremiseHolds, methods
  <2>m. mode = 0
    BY <2>1 DEF RunInv, PhaseInv
  <2>n. 0..(mode - 1) = {}
    BY <2>m
  <2>p. proof' = "VERIFIED" => Proved(req)'
    BY <1>i, <2>1 DEF CertInv
  <2>2. CASE pc = "shape"
    <3>1. pc' = "bind"
      BY <2>1, <2>2 DEF AfterPremise
    <3>2. IF req.environment THEN EnvironmentShape(req.game, req.cert)
                             ELSE SystemShape(req.game, req.cert)
      BY <1>5, <2>1, <2>2 DEF Premise
    <3> QED
      BY <1>4, <2>p, <3>1, <3>2 DEF CertInv
  <2>3. CASE pc = "bind"
    <3>1. pc' = "initial"
      BY <2>1, <2>3 DEF AfterPremise
    <3> QED
      BY <1>i, <1>4, <2>3, <2>p, <3>1 DEF CertInv
  <2>4. CASE pc = "initial"
    <3>1. pc' = IF req.environment THEN "modes" ELSE "cover"
      BY <2>1, <2>4 DEF AfterPremise
    <3>2. req.game.reset \in req.cert.inv
      BY <1>5, <2>1, <2>4 DEF Premise
    <3> QED
      BY <1>i, <1>4, <1>5, <2>1, <2>4, <2>n, <2>p, <3>1, <3>2 DEF CertInv
  <2>5. CASE pc = "cover"
    <3>1. pc' = "modes"
      BY <2>1, <2>5 DEF AfterPremise
    <3>2. Covered(req.game, req.cert)
      BY <1>5, <2>1, <2>5 DEF Premise
    <3> QED
      BY <1>i, <1>4, <2>1, <2>5, <2>n, <2>p, <3>1, <3>2 DEF CertInv
  <2> QED
    BY <2>1, <2>2, <2>3, <2>4, <2>5 DEF PremiseStages
<1>8. ASSUME PremiseFails \/ ModeViolated PROVE CertInv'
  <2>1. Concluded("CERT_FAILED")
    BY <1>8 DEF PremiseFails, ModeViolated
  <2> QED
    BY <1>6, <2>1
<1>9. ASSUME PremiseUnknown PROVE CertInv'
  <2>1. CASE req.environment /\ pc = "bind"
    <3>1. pc' = "initial" /\ proof' = proof
      BY <1>9, <2>1 DEF PremiseUnknown, AfterPremise
    <3> QED
      BY <1>i, <1>4, <2>1, <3>1 DEF CertInv
  <2>2. CASE ~(req.environment /\ pc = "bind")
    <3>1. Concluded("UNKNOWN")
      BY <1>9, <2>2 DEF PremiseUnknown
    <3> QED
      BY <1>6, <3>1
  <2> QED
    BY <2>1, <2>2
<1>10. ASSUME ModeUnknown PROVE CertInv'
  <2>1. Concluded("UNKNOWN")
    BY <1>10 DEF ModeUnknown
  <2> QED
    BY <1>6, <2>1
<1>11. ASSUME ModePasses PROVE CertInv'
  <2>1. pc = "modes" /\ mode' = mode + 1 /\ ModeHolds
    BY <1>11 DEF ModePasses
  <2>2. ModeOK(req, mode)
    BY <1>5, <2>1 DEF ModeHolds, ModeOK, ModeBits
  <2>3. \A m \in 0..mode : ModeOK(req, m)
    <3>1. \A m \in 0..(mode - 1) : ModeOK(req, m)
      BY <1>i, <2>1 DEF CertInv
    <3>2. \A m \in 0..mode : m = mode \/ m \in 0..(mode - 1)
      BY <1>5
    <3> QED
      BY <2>2, <3>1, <3>2
  <2>4. CASE mode < NumCounters(req)
    <3>1. pc' = pc /\ proof' = proof
      BY <1>11, <2>4 DEF ModePasses
    <3>2. (mode + 1) - 1 = mode
      BY <1>5
    <3> QED
      BY <1>i, <2>1, <2>3, <3>1, <3>2 DEF CertInv
  <2>5. CASE ~(mode < NumCounters(req))
    <3>1. Concluded("VERIFIED")
      BY <1>11, <2>5 DEF ModePasses
    <3>2. mode = NumCounters(req)
      <4>1. mode <= NumCounters(req)
        BY <2>1 DEF RunInv, PhaseInv
      <4> QED
        BY <1>5, <2>5, <4>1
    <3>3. CertPassed(req)
      BY <1>i, <2>1, <2>3, <3>2 DEF CertInv, CertPassed
    <3>4. Proved(req)
      BY <1>4, <2>1, <3>3, CertificateSound
    <3> QED
      BY <3>1, <3>4 DEF Concluded, CertInv, CertPhases, PremiseStages
  <2> QED
    BY <2>4, <2>5
<1> QED
  BY <1>2, <1>3, <1>7, <1>8, <1>9, <1>10, <1>11 DEF VerdictInv

\* The closed loop.
LEMMA LoopSteps ==
  ASSUME RunInv, VerdictInv, req' = req,
         StartLoop \/ LoopUnknown \/ ReachMore \/ ReachDone \/ AvoidStep \/ YStep \/ ZStep
  PROVE  VerdictInv'
<1>i. SearchInv /\ LoopInv /\ CertInv /\ OutcomeInv
  BY DEF VerdictInv
<1>1. /\ pc \in LoopPhases /\ proof' = proof
      /\ pc' \in LoopPhases \cup {"decide"}
  BY DEF StartLoop, LoopUnknown, ReachMore, ReachDone, AvoidStep, YStep, ZStep, methods, LoopPhases,
         StartAvoiding, StartSearch, LoopConcluded
<1>2. Playable(req)
  <2>1. /\ req \in Requests /\ ArgumentsFit /\ WellFormed
        /\ req.method \in {"AUTO", "CLOSED_LOOP", "BOTH"}
    BY <1>1 DEF RunInv, PhaseInv, Compiled
  <2> QED
    BY <2>1 DEF ArgumentsFit, WellFormed, Game, Playable
<1>3. CertInv'
  <2>1. pc' \notin CertPhases /\ pc' \notin {"bind", "initial", "cover", "modes"}
    BY <1>1 DEF LoopPhases, CertPhases, PremiseStages
  <2> QED
    BY <1>i, <1>1, <2>1 DEF CertInv
<1>4. OutcomeInv'
  BY <1>1 DEF OutcomeInv, LoopPhases
<1>5. SearchInv' /\ LoopInv'
  <2>1. CASE LoopUnknown
    <3>1. pc' = "decide" /\ closedLoop' = "UNKNOWN"
      BY <2>1 DEF LoopUnknown
    <3> QED
      BY <1>i, <3>1, Elsewhere
  <2> QED
    BY <1>i, <1>2, <2>1, ReachSteps, AvoidSteps, YSteps, ZSteps
<1> QED
  BY <1>3, <1>4, <1>5 DEF VerdictInv

\* The end of a pass.
LEMMA PassEnds ==
  ASSUME RunInv, VerdictInv, req' = req, CompileFails \/ Decide
  PROVE  VerdictInv'
<1>i. LoopInv /\ CertInv /\ OutcomeInv
  BY DEF VerdictInv
<1>1. /\ pc' \in {"read", "result"} /\ closedLoop' = closedLoop
      /\ proof' = proof \/ proof' = "SKIPPED"
  BY DEF CompileFails, Decide, Repeat, methods
<1>2. SearchInv' /\ LoopInv'
  BY <1>i, <1>1, Elsewhere
<1>3. CertInv'
  BY <1>i, <1>1 DEF CertInv, CertPhases, PremiseStages
<1>4. pc' = "result" => code' = "UNKNOWN" \/ code' = ExitCode
  BY DEF CompileFails, Decide, Repeat
<1>5. /\ ExitCode = "VERIFIED" => Proved(req)
      /\ ExitCode = "REFUTED" => Loses(req) /\ req.method # "REGION"
  <2>1. /\ proof = "VERIFIED" => Proved(req)
        /\ closedLoop = "VERIFIED" => ~Loses(req)
        /\ closedLoop = "REFUTED" => Loses(req)
        /\ proof # "REFUTED"
    BY <1>i DEF CertInv, LoopInv, RunInv, TypeOK, Results
  <2>2. CASE req.method = "REGION"
    BY <2>1, <2>2 DEF ExitCode
  <2>3. CASE req.method # "REGION"
    BY <2>1, <2>3 DEF ExitCode, Proved
  <2> QED
    BY <2>2, <2>3
<1>6. OutcomeInv'
  BY <1>1, <1>4, <1>5 DEF OutcomeInv
<1> QED
  BY <1>2, <1>3, <1>6 DEF VerdictInv

\* No limit that strikes and no failure, retry or fallback leads gr1_check.c to a
\* verdict that is wrong: a policy it verifies does not lose, one it refutes does,
\* a region it verifies is won, and its two methods never contradict each other,
\* for every finite set of states, every request and any number of goals,
\* assumptions and certificate levels.
THEOREM VerdictsSound == Spec => []VerdictSound
<1>1. Init => VerdictInv
  <2> SUFFICES ASSUME Init PROVE VerdictInv
    OBVIOUS
  <2>1. pc = "enter" /\ closedLoop = "SKIPPED" /\ proof = "SKIPPED"
    BY DEF Init
  <2>2. SearchInv /\ LoopInv
    BY <2>1 DEF SearchInv, LoopInv
  <2>3. CertInv /\ OutcomeInv
    BY <2>1 DEF CertInv, CertPhases, PremiseStages, OutcomeInv
  <2> QED
    BY <2>2, <2>3 DEF VerdictInv
<1>2. RunInv /\ VerdictInv /\ [Next]_vars => VerdictInv'
  <2> SUFFICES ASSUME RunInv, VerdictInv, [Next]_vars PROVE VerdictInv'
    OBVIOUS
  <2>1. req' = req
    BY RequestKept
  <2>2. CASE UNCHANGED vars \/ \E kind \in StopKinds : Strike(kind)
    <3>1. UNCHANGED <<req, pc, proof, closedLoop, mode, reach, goal, fi, z, newZ, y, code, verdict>>
      BY <2>2 DEF vars, Strike, methods, search, output
    <3> QED
      BY <3>1 DEF VerdictInv, SearchInv, LoopInv, CertInv, OutcomeInv
  <2> QED
    BY <2>1, <2>2, FrameSound, CertificateSteps, LoopSteps, PassEnds DEF Next, Step
<1>3. RunInv /\ VerdictInv => VerdictSound
  <2> SUFFICES ASSUME RunInv, VerdictInv PROVE VerdictSound
    OBVIOUS
  <2>1. ~(proof = "VERIFIED" /\ closedLoop = "REFUTED")
    <3> SUFFICES ASSUME proof = "VERIFIED", closedLoop = "REFUTED" PROVE FALSE
      OBVIOUS
    <3>1. req.method # "REGION"
      BY DEF RunInv, PhaseInv
    <3> QED
      BY <3>1 DEF VerdictInv, CertInv, LoopInv, Proved
  <2> QED
    BY <2>1 DEF VerdictInv, OutcomeInv, VerdictSound, Game
<1> QED
  BY <1>1, <1>2, <1>3, RunInvAlways, PTL DEF Spec
=============================================================================
