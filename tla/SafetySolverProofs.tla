------------------------- MODULE SafetySolverProofs -------------------------
(***************************************************************************)
(* Proofs about SafetySolver for every game, every set of latches and      *)
(* inputs and every combination of failures: the type invariant, that the  *)
(* substitution always covers what the fixpoint substitutes into, that a   *)
(* reported verdict is right and its failure report honest; and that the   *)
(* solver in the loop with its strategy implements what it promises.       *)
(***************************************************************************)
EXTENDS SafetySolver, TLAPS

\* An incomplete substitution computes the same as the complete one on a set
\* that depends on no latch it leaves out.
LEMMA UpdateAgrees ==
  ASSUME NEW g \in GameRecords, NEW X \in SUBSET State,
         NEW D \in SUBSET Latches, DependsOnly(X, D), NEW v \in Val
  PROVE  Update(g, D, v) \in X <=> Successor(g, v) \in X
<1>1. v[1] \in State
  BY DEF Val
<1>2. Update(g, D, v) \in State /\ Successor(g, v) \in State
  BY SMT DEF Update, Successor, State
<1>3. \A j \in D : Update(g, D, v)[j] <=> Successor(g, v)[j]
  BY Zenon DEF Update, Successor
<1> QED
  BY <1>2, <1>3 DEF DependsOnly

\* So the BDD round is the controllable predecessor.
LEMMA RoundIsCPre ==
  ASSUME NEW g \in GameRecords, NEW X \in SUBSET State,
         NEW D \in SUBSET Latches, DependsOnly(X, D)
  PROVE  ForallExists(g, D, X) = CPre(g, X)
<1>1. ASSUME NEW s \in State, NEW u \in UMove, NEW c \in CMove
      PROVE  <<s, u, c>> \in SafeMoves(g, D, X) <=>
               <<s, u, c>> \notin g.bad /\ Successor(g, <<s, u, c>>) \in X
  <2>1. <<s, u, c>> \in Val
    BY DEF Val
  <2> QED
    BY <2>1, UpdateAgrees DEF SafeMoves
<1> QED
  BY <1>1 DEF ForallExists, CPre

LEMMA CPreMonotone ==
  ASSUME NEW g, NEW X, NEW Y, X \subseteq Y
  PROVE  CPre(g, X) \subseteq CPre(g, Y)
BY DEF CPre

\* Every set of states can be told from all latches together.
LEMMA AllLatchesSuffice ==
  ASSUME NEW X \in SUBSET State
  PROVE  DependsOnly(X, Latches)
<1> SUFFICES ASSUME NEW s \in State, NEW t \in State,
                    \A j \in Latches : s[j] <=> t[j]
             PROVE  s = t
  BY DEF DependsOnly
<1> QED
  BY DEF State

LEMMA DependsOnMore ==
  ASSUME NEW X, NEW D, NEW E, D \subseteq E, DependsOnly(X, D)
  PROVE  DependsOnly(X, E)
BY DEF DependsOnly

-----------------------------------------------------------------------------
\* What RunGuard's operators preserve.
LEMMA OutcomeTyped ==
  ASSUME NEW g \in Guarded!Guards, NEW b, NEW h \in Guarded!Outcomes(g, b)
  PROVE  h \in Guarded!Guards
BY StopAssumption
   DEF Guarded!Guards, Guarded!Outcomes, Guarded!RunStops, Guarded!FailureKinds,
       Guarded!OperationFails, Guarded!OperandInvalid, Guarded!RecordFailure

LEMMA RecordTyped ==
  ASSUME NEW g \in Guarded!Guards, NEW kind \in Guarded!FailureKinds
  PROVE  Guarded!RecordFailure(g, kind) \in Guarded!Guards
BY DEF Guarded!Guards, Guarded!RecordFailure

-----------------------------------------------------------------------------
\* The Skolem functions of a step are sets of valuations.
LEMMA SkolemTyped ==
  ASSUME NEW k, NEW rel, NEW fk
  PROVE  SkolemFunction(k, rel) \subseteq Val /\ Substitute(k, fk, rel) \subseteq Val
BY DEF SkolemFunction, Substitute

LEMMA AppendTyped ==
  ASSUME NEW fs \in Seq(SUBSET Val), Len(fs) < NumC, NEW k, NEW rel
  PROVE  /\ Append(fs, SkolemFunction(k, rel)) \in Seq(SUBSET Val)
         /\ Len(Append(fs, SkolemFunction(k, rel))) <= NumC
<1>1. SkolemFunction(k, rel) \in SUBSET Val
  BY DEF SkolemFunction
<1> QED
  BY <1>1, GameConstants

\* Type correctness of the solver (solve_safety_impl and its entry points).
THEOREM Typing == Spec => []TypeOK
<1>1. Init => TypeOK
  <2>1. Guarded!FreshGuard \in Guarded!Guards
    BY DEF Guarded!FreshGuard, Guarded!Guards, Guarded!FailureKinds
  <2>2. << >> \in Seq(SUBSET Val) /\ Len(<< >>) <= NumC
    BY GameConstants
  <2> QED
    BY <2>1, <2>2 DEF Init, TypeOK, Phases
<1>2. TypeOK /\ [Next]_solverVars => TypeOK'
  <2> SUFFICES ASSUME TypeOK, [Next]_solverVars PROVE TypeOK'
    OBVIOUS
  <2> USE DEF inputs, fixpoint, updates, skolem, Phases, Loop
  <2>0. {"CONFIGURATION", "HOST", "CONVERSION"} \subseteq Guarded!FailureKinds
    BY DEF Guarded!FailureKinds
  <2>1. CASE Enter
    BY <2>0, <2>1, RecordTyped DEF Enter, TypeOK
  <2>2. CASE NullGame \/ CreateManager \/ StartFixpoint \/ SkolemDone
    BY <2>2 DEF NullGame, CreateManager, StartFixpoint, SkolemDone, TypeOK
  <2>3. CASE OwnManagerFails \/ SessionRefuses \/ AllocateTables
    BY <2>0, <2>3, RecordTyped
       DEF OwnManagerFails, SessionRefuses, AllocateTables, TypeOK
  <2>4. CASE Construct
    BY <2>4, OutcomeTyped DEF Construct, TypeOK
  <2>5. CASE ConstructionFails \/ IterationFails
    BY <2>5, OutcomeTyped DEF ConstructionFails, IterationFails, TypeOK
  <2>6. CASE BuildDemanded
    BY <2>6, OutcomeTyped DEF BuildDemanded, DemandUpdates, Supports, TypeOK
  <2>7. CASE DemandFails
    BY <2>7, OutcomeTyped DEF DemandFails, DemandUpdatesFail, Supports, TypeOK
  <2>8. CASE Iterate
    <3>1. guard' \in Guarded!Guards
      BY <2>8, OutcomeTyped DEF Iterate, TypeOK
    <3>2. Z' \subseteq State
      BY <2>8 DEF Iterate, ForallExists
    <3>3. unreal' \in BOOLEAN /\ ok' \in BOOLEAN /\ winning' \in BOOLEAN
      BY <2>8 DEF Iterate
    <3>4. pc' \in Phases
      BY <2>8 DEF Iterate
    <3> QED
      BY <2>8, <3>1, <3>2, <3>3, <3>4 DEF Iterate, TypeOK
  <2>9. CASE StrategyRelation \/ RelationFails
    BY <2>9, OutcomeTyped DEF StrategyRelation, RelationFails, SafeMoves, TypeOK
  <2>10. CASE SkolemStep
    <3>1. guard' \in Guarded!Guards
      BY <2>10, OutcomeTyped DEF SkolemStep, TypeOK
    <3>2. R' \subseteq Val
      BY <2>10, SkolemTyped DEF SkolemStep
    <3>3. f' \in Seq(SUBSET Val) /\ Len(f') <= NumC
      BY <2>10, AppendTyped DEF SkolemStep, TypeOK
    <3> QED
      BY <2>10, <3>1, <3>2, <3>3 DEF SkolemStep, TypeOK
  <2>11. CASE SkolemFails
    <3>1. guard' \in Guarded!Guards
      BY <2>11, OutcomeTyped DEF SkolemFails, TypeOK
    <3>2. f' \in Seq(SUBSET Val) /\ Len(f') <= NumC
      BY <2>11, AppendTyped DEF SkolemFails, TypeOK
    <3> QED
      BY <2>11, <3>1, <3>2 DEF SkolemFails, TypeOK
  <2>12. CASE StrategyUpdates
    BY <2>12, OutcomeTyped DEF StrategyUpdates, DemandUpdates, TypeOK
  <2>13. CASE StrategyUpdatesFail
    BY <2>13, OutcomeTyped DEF StrategyUpdatesFail, DemandUpdatesFail, TypeOK
  <2>14. CASE Conversion
    BY <2>14, OutcomeTyped
       DEF Conversion, ConversionGuards, Strategies, TypeOK
  <2>15. CASE ConversionFails
    BY <2>0, <2>15, OutcomeTyped, RecordTyped
       DEF ConversionFails, ConversionGuards, TypeOK
  <2>16. CASE Cleanup
    BY <2>0, <2>16, RecordTyped DEF Cleanup, TypeOK
  <2>17. CASE Return
    BY <2>17 DEF Return, TypeOK
  <2>18. CASE UNCHANGED solverVars
    BY <2>18 DEF solverVars, TypeOK
  <2> QED
    BY <2>1, <2>2, <2>3, <2>4, <2>5, <2>6, <2>7, <2>8, <2>9, <2>10, <2>11,
       <2>12, <2>13, <2>14, <2>15, <2>16, <2>17, <2>18 DEF Next
<1> QED
  BY <1>1, <1>2, PTL DEF Spec

-----------------------------------------------------------------------------
\* One round of the fixpoint keeps every controlled-invariant set in Z, and at
\* convergence Z is itself one.
LEMMA RoundSound ==
  ASSUME TypeOK, VerdictInv, Iterate
  PROVE  /\ Overapproximates'
         /\ winning' => game.reset \in Z' /\ Invariant(game, Z')
         /\ unreal' => game.reset \notin Z'
<1> USE DEF inputs
<1>1. game \in GameRecords /\ game' = game
  BY GameConstants DEF TypeOK, Iterate
<1>2. Z' = CPre(game, Z)
  BY <1>1, RoundIsCPre
     DEF Iterate, TypeOK, VerdictInv, SubstitutionCovers
<1>3. Overapproximates'
  <2> SUFFICES ASSUME NEW K \in SUBSET State, Invariant(game, K)
               PROVE  K \subseteq Z'
    BY <1>1 DEF Overapproximates
  <2>1. K \subseteq Z
    BY DEF VerdictInv, Overapproximates
  <2>2. CPre(game, K) \subseteq CPre(game, Z)
    BY <2>1, CPreMonotone
  <2> QED
    BY <1>2, <2>2 DEF Invariant
<1>4. winning' => game.reset \in Z' /\ Z' = Z
  BY DEF Iterate
<1>5. unreal' => game.reset \notin Z'
  BY DEF Iterate
<1> QED
  BY <1>2, <1>3, <1>4, <1>5 DEF Invariant

\* A step that leaves Z and the flags alone keeps what is known of Z.
LEMMA RegionKept ==
  ASSUME VerdictInv, UNCHANGED <<game, unreal, winning, Z>>
  PROVE  Overapproximates' /\ FlagsFitRegion'
BY DEF VerdictInv, Overapproximates, FlagsFitRegion

\* The invariant behind the verdict is inductive.
LEMMA VerdictInvStep ==
  ASSUME TypeOK, TypeOK', VerdictInv, [Next]_solverVars
  PROVE  VerdictInv'
<1> USE DEF inputs, fixpoint, updates, skolem, Loop
<1>1. CASE Iterate
  <2>1. Overapproximates' /\ FlagsFitRegion'
    BY <1>1, RoundSound DEF Iterate, FlagsFitRegion
  <2>2. CompleteSubstitution' /\ FlagsFitPhase'
    BY <1>1 DEF Iterate, VerdictInv, CompleteSubstitution, FlagsFitPhase, TypeOK
  <2>3. SubstitutionCovers'
    <3>1. CASE pc' = "relation"
      BY <1>1, <3>1 DEF Iterate, VerdictInv, SubstitutionCovers
    <3>2. CASE pc' = "iterate"
      <4>1. sub' = Latches
        BY <1>1, <3>2 DEF Iterate, VerdictInv, CompleteSubstitution
      <4> QED
        BY <4>1, AllLatchesSuffice DEF SubstitutionCovers, TypeOK
    <3> QED
      BY <3>1, <3>2 DEF SubstitutionCovers
  <2> QED
    BY <2>1, <2>2, <2>3 DEF VerdictInv
<1>2. CASE BuildDemanded
  <2>1. CompleteSubstitution' /\ Z' = Z /\ pc' = "iterate"
    BY <1>2 DEF BuildDemanded, DemandUpdates, VerdictInv, CompleteSubstitution,
                Supports, TypeOK
  <2>2. PICK needed \in Supports(Z) : DemandUpdates(needed)
    BY <1>2 DEF BuildDemanded
  <2>3. needed \subseteq sub'
    BY <1>2, <2>2 DEF BuildDemanded, DemandUpdates, VerdictInv,
                      CompleteSubstitution
  <2>4. SubstitutionCovers'
    BY <2>1, <2>2, <2>3, DependsOnMore DEF Supports, SubstitutionCovers
  <2>5. Overapproximates' /\ FlagsFitPhase' /\ FlagsFitRegion'
    BY <1>2 DEF BuildDemanded, VerdictInv, Overapproximates, FlagsFitPhase,
                FlagsFitRegion
  <2> QED
    BY <2>1, <2>4, <2>5 DEF VerdictInv
<1>3. CASE StartFixpoint
  <2>1. SubstitutionCovers'
    BY <1>3, AllLatchesSuffice
       DEF StartFixpoint, SubstitutionCovers, VerdictInv, CompleteSubstitution,
           TypeOK
  <2>2. CompleteSubstitution' /\ FlagsFitPhase'
    BY <1>3 DEF StartFixpoint, VerdictInv, CompleteSubstitution, FlagsFitPhase
  <2>3. Overapproximates' /\ FlagsFitRegion'
    BY <1>3 DEF StartFixpoint, VerdictInv, Overapproximates, FlagsFitRegion
  <2> QED
    BY <2>1, <2>2, <2>3 DEF VerdictInv
<1>4. CASE Return
  BY <1>4 DEF Return, VerdictInv, Overapproximates, CompleteSubstitution,
              SubstitutionCovers, FlagsFitPhase, FlagsFitRegion
<1>5. CASE Conversion
  BY <1>5 DEF Conversion, VerdictInv, Overapproximates, CompleteSubstitution,
              SubstitutionCovers, FlagsFitPhase, FlagsFitRegion
<1>6. CASE \/ Enter \/ NullGame \/ CreateManager
           \/ OwnManagerFails \/ SessionRefuses \/ AllocateTables
           \/ Construct
  <2>1. UNCHANGED <<game, unreal, winning, Z>>
    BY <1>6 DEF Enter, NullGame, CreateManager, OwnManagerFails,
                SessionRefuses, AllocateTables, Construct
  <2>2. CompleteSubstitution' /\ SubstitutionCovers'
    BY <1>6
       DEF Enter, NullGame, CreateManager, OwnManagerFails, SessionRefuses,
           AllocateTables, Construct, VerdictInv, CompleteSubstitution,
           SubstitutionCovers
  <2>3. /\ pc \in {"enter", "manager", "tables", "construction"}
        /\ pc' \in {"manager", "tables", "construction", "initial", "returned"}
        /\ UNCHANGED <<strat, status>>
    BY <1>6 DEF Enter, NullGame, CreateManager, OwnManagerFails,
                SessionRefuses, AllocateTables, Construct
  <2>4. FlagsFitPhase'
    BY <2>1, <2>3 DEF VerdictInv, FlagsFitPhase
  <2> QED
    BY <2>1, <2>2, <2>4, RegionKept DEF VerdictInv
<1>7. CASE \/ ConstructionFails \/ DemandFails \/ IterationFails
           \/ RelationFails \/ SkolemFails \/ StrategyUpdatesFail
           \/ ConversionFails
  <2>1. UNCHANGED <<game, unreal, winning, Z>>
    BY <1>7 DEF ConstructionFails, DemandFails, IterationFails,
                RelationFails, SkolemFails, StrategyUpdatesFail,
                ConversionFails
  <2>2. CompleteSubstitution' /\ SubstitutionCovers'
    BY <1>7
       DEF ConstructionFails, DemandFails, IterationFails, RelationFails,
           SkolemFails, StrategyUpdatesFail, ConversionFails, VerdictInv,
           CompleteSubstitution, SubstitutionCovers
  <2>3. FlagsFitPhase'
    BY <1>7 DEF ConstructionFails, DemandFails, IterationFails,
                RelationFails, SkolemFails, StrategyUpdatesFail,
                ConversionFails, VerdictInv, FlagsFitPhase
  <2> QED
    BY <2>1, <2>2, <2>3, RegionKept DEF VerdictInv
<1>8. CASE \/ StrategyRelation \/ SkolemStep \/ SkolemDone
           \/ StrategyUpdates \/ Cleanup
  <2>1. UNCHANGED <<game, unreal, winning, Z>>
    BY <1>8 DEF StrategyRelation, SkolemStep, SkolemDone, StrategyUpdates,
                Cleanup
  <2>2. CompleteSubstitution' /\ SubstitutionCovers'
    BY <1>8
       DEF StrategyRelation, SkolemStep, SkolemDone, StrategyUpdates,
           Cleanup, VerdictInv, CompleteSubstitution, SubstitutionCovers
  <2>3. FlagsFitPhase'
    BY <1>8 DEF StrategyRelation, SkolemStep, SkolemDone, StrategyUpdates,
                Cleanup, VerdictInv, FlagsFitPhase
  <2> QED
    BY <2>1, <2>2, <2>3, RegionKept DEF VerdictInv
<1>9. CASE UNCHANGED solverVars
  BY <1>9 DEF solverVars, VerdictInv, Overapproximates, CompleteSubstitution,
              SubstitutionCovers, FlagsFitPhase, FlagsFitRegion
<1> QED
  BY <1>1, <1>2, <1>3, <1>4, <1>5, <1>6, <1>7, <1>8, <1>9 DEF Next

LEMMA VerdictInvInit == Init => VerdictInv
<1>1. Init => Overapproximates
  BY DEF Init, Overapproximates
<1> QED
  BY <1>1 DEF Init, VerdictInv, CompleteSubstitution, SubstitutionCovers,
              FlagsFitPhase, FlagsFitRegion, NoStrat

LEMMA VerdictInvHolds == Spec => []VerdictInv
<1>1. TypeOK /\ TypeOK' /\ VerdictInv /\ [Next]_solverVars => VerdictInv'
  BY VerdictInvStep
<1> QED
  BY <1>1, VerdictInvInit, Typing, PTL DEF Spec

\* A verdict is reported only when it is right, for every game and whatever
\* fails on the way (solve_safety_oxidd_result).
THEOREM VerdictSoundness == Spec => []VerdictSound
<1>1. TypeOK /\ VerdictInv => VerdictSound
  <2> SUFFICES ASSUME TypeOK, VerdictInv PROVE VerdictSound
    OBVIOUS
  <2>1. ASSUME status = "REALIZABLE" PROVE Winnable(game)
    BY <2>1 DEF VerdictInv, FlagsFitPhase, FlagsFitRegion, Winnable, TypeOK
  <2>2. ASSUME status = "UNREALIZABLE" PROVE ~Winnable(game)
    BY <2>2 DEF VerdictInv, FlagsFitPhase, FlagsFitRegion, Winnable,
                Overapproximates
  <2> QED
    BY <2>1, <2>2 DEF VerdictSound
<1> QED
  BY <1>1, Typing, VerdictInvHolds, PTL

\* The substitution always covers the support of what it is applied to, in
\* demand mode too (demand_updates).
THEOREM SubstitutionCoverage == Spec => []SubstitutionCovers
<1>1. VerdictInv => SubstitutionCovers
  BY DEF VerdictInv
<1> QED
  BY <1>1, VerdictInvHolds, PTL

-----------------------------------------------------------------------------
\* While the solver works a failure is on record exactly when the guard has
\* failed, and an operation that succeeds leaves the guard alone.
LEMMA OutcomeRecorded ==
  ASSUME NEW g \in Guarded!Guards, g.failure = "NONE" <=> ~g.failed,
         NEW b, NEW h \in Guarded!Outcomes(g, b)
  PROVE  /\ h.failure = "NONE" <=> ~h.failed
         /\ ~h.failed => h = g
BY StopAssumption
   DEF Guarded!Guards, Guarded!Outcomes, Guarded!RunStops, Guarded!FailureKinds,
       Guarded!OperationFails, Guarded!OperandInvalid, Guarded!RecordFailure

LEMMA RecordRecords ==
  ASSUME NEW g \in Guarded!Guards, NEW kind \in {"CONFIGURATION", "HOST", "CONVERSION"}
  PROVE  Guarded!RecordFailure(g, kind).failure # "NONE"
BY DEF Guarded!Guards, Guarded!RecordFailure

Starting == {"enter", "manager", "tables"}

Working == Starting \cup {"construction", "initial", "support", "iterate",
                          "relation", "skolem", "updates", "conversion"}

\* What the solver has recorded when it is at a phase.  Failures go unnoticed
\* only where next functions are compiled on demand.
RecordedWhileWorking ==
  /\ pc \in Working => (guard.failure = "NONE" <=> ~guard.failed) /\ strat.none
  /\ pc \in Starting => ok /\ built = {} /\ Z = State
  /\ pc \in Starting \cup {"construction", "initial", "relation", "skolem", "updates"} =>
       ~guard.failed
  /\ pc \in {"support", "updates"} => opts.demand
  /\ pc \in {"iterate", "conversion"} /\ guard.failed => opts.demand
  /\ pc \in {"relation", "skolem", "updates", "conversion"} =>
       ~unreal /\ ~opts.verdictOnly

\* What is on record when the solver is done, for each outcome.
RecordedAtEnd ==
  /\ unreal => guard.failure = "NONE"
  /\ opts.verdictOnly /\ winning => guard.failure = "NONE"
  /\ ~strat.none /\ guard.failure # "NONE" => opts.demand /\ ~ConversionOperates
  /\ pc \in {"returned", "done"} /\ strat.none /\ ~VerdictStands
       /\ guard.failure = "NONE" => ok /\ built = {} /\ Z = State
  /\ status = "REALIZABLE" => ~strat.none \/ (opts.verdictOnly /\ winning)
  /\ status = "ERROR" => pc = "done" /\ strat.none /\ ~VerdictStands

ReportInv == RecordedWhileWorking /\ RecordedAtEnd

LEMMA ReportInvStep ==
  ASSUME TypeOK, VerdictInv, ReportInv, [Next]_solverVars
  PROVE  ReportInv'
<1> USE DEF inputs, fixpoint, updates, skolem, Loop, Starting, Working
<1>0. guard \in Guarded!Guards
  BY DEF TypeOK
<1>s. pc # "done" => status = "none"
  BY DEF VerdictInv, FlagsFitPhase
<1>f. pc \in Starting \cup {"construction", "initial", "support", "iterate"} =>
        ~unreal /\ ~winning
  BY DEF VerdictInv, FlagsFitPhase
<1>1. CASE Enter \/ OwnManagerFails \/ SessionRefuses \/ AllocateTables
  <2>1. /\ pc \in Starting /\ pc' \in {"returned", "manager", "construction"}
        /\ UNCHANGED <<opts, ok, unreal, winning, Z, built, strat, status>>
    BY <1>1 DEF Enter, OwnManagerFails, SessionRefuses, AllocateTables
  <2>2. pc' = "returned" \/ guard' = guard
    BY <1>1 DEF Enter, OwnManagerFails, SessionRefuses, AllocateTables
  <2>3. guard' = guard => guard.failure = "NONE" /\ ~guard.failed
    BY <2>1 DEF ReportInv, RecordedWhileWorking, RecordedAtEnd
  <2> QED
    BY <2>1, <2>2, <1>s, <1>f
       DEF ReportInv, RecordedWhileWorking, RecordedAtEnd, VerdictStands
<1>2. CASE NullGame \/ CreateManager
  BY <1>2, <1>s, <1>f
     DEF NullGame, CreateManager, ReportInv, RecordedWhileWorking, RecordedAtEnd,
         VerdictStands
<1>3. CASE Construct
  BY <1>0, <1>3, <1>s, <1>f, OutcomeRecorded
     DEF Construct, ReportInv, RecordedWhileWorking, RecordedAtEnd, VerdictStands
<1>4. CASE StartFixpoint
  BY <1>4, <1>s, <1>f
     DEF StartFixpoint, ReportInv, RecordedWhileWorking, RecordedAtEnd, VerdictStands
<1>5. CASE BuildDemanded
  <2>1. pc = "support" /\ pc' = "iterate" /\ opts.demand
        /\ UNCHANGED <<opts, ok, unreal, winning, Z, strat, status>>
    BY <1>5 DEF BuildDemanded, ReportInv, RecordedWhileWorking
  <2>2. guard'.failure = "NONE" <=> ~guard'.failed
    BY <1>0, <1>5, OutcomeRecorded
       DEF BuildDemanded, DemandUpdates, ReportInv, RecordedWhileWorking
  <2> QED
    BY <2>1, <2>2, <1>s, <1>f
       DEF ReportInv, RecordedWhileWorking, RecordedAtEnd, VerdictStands
<1>6. CASE Iterate
  <2>1. guard' = guard /\ guard.failure = "NONE" /\ ~guard.failed
    BY <1>0, <1>6, OutcomeRecorded
       DEF Iterate, ReportInv, RecordedWhileWorking
  <2> QED
    BY <1>6, <2>1, <1>s
       DEF Iterate, ReportInv, RecordedWhileWorking, RecordedAtEnd, VerdictStands
<1>7. CASE StrategyRelation \/ SkolemStep
  <2>1. guard' = guard
    BY <1>0, <1>7, OutcomeRecorded
       DEF StrategyRelation, SkolemStep, ReportInv, RecordedWhileWorking
  <2>2. /\ pc \in {"relation", "skolem"} /\ pc' = "skolem"
        /\ UNCHANGED <<opts, ok, unreal, winning, Z, built, strat, status>>
    BY <1>7 DEF StrategyRelation, SkolemStep
  <2> QED
    BY <2>1, <2>2, <1>s
       DEF ReportInv, RecordedWhileWorking, RecordedAtEnd, VerdictStands
<1>8. CASE SkolemDone
  BY <1>8, <1>s
     DEF SkolemDone, ReportInv, RecordedWhileWorking, RecordedAtEnd, VerdictStands
<1>9. CASE StrategyUpdates
  BY <1>0, <1>9, <1>s, OutcomeRecorded
     DEF StrategyUpdates, DemandUpdates, ReportInv, RecordedWhileWorking,
         RecordedAtEnd, VerdictStands
<1>10. CASE Conversion
  BY <1>0, <1>10, <1>s, OutcomeRecorded
     DEF Conversion, ConversionGuards, ReportInv, RecordedWhileWorking,
         RecordedAtEnd, VerdictStands
<1>11. CASE \/ ConstructionFails \/ DemandFails \/ IterationFails \/ RelationFails
            \/ SkolemFails \/ StrategyUpdatesFail \/ ConversionFails
  <2>1. /\ pc \in Working \ Starting /\ pc' = "cleanup"
        /\ UNCHANGED <<opts, unreal, winning, strat, status>>
    BY <1>11 DEF ConstructionFails, DemandFails, IterationFails, RelationFails,
                 SkolemFails, StrategyUpdatesFail, ConversionFails
  <2>2. strat.none /\ ~unreal /\ ~(opts.verdictOnly /\ winning)
    BY <2>1, <1>f DEF ReportInv, RecordedWhileWorking
  <2> QED
    BY <2>1, <2>2, <1>s DEF ReportInv, RecordedWhileWorking, RecordedAtEnd
<1>12. CASE Cleanup
  BY <1>0, <1>12, <1>s, RecordRecords
     DEF Cleanup, ReportInv, RecordedWhileWorking, RecordedAtEnd, VerdictStands
<1>13. CASE Return
  BY <1>13
     DEF Return, ReportInv, RecordedWhileWorking, RecordedAtEnd, VerdictStands
<1>14. CASE UNCHANGED solverVars
  BY <1>14 DEF solverVars, ReportInv, RecordedWhileWorking, RecordedAtEnd,
               VerdictStands
<1> QED
  BY <1>1, <1>2, <1>3, <1>4, <1>5, <1>6, <1>7, <1>8, <1>9, <1>10, <1>11, <1>12,
     <1>13, <1>14 DEF Next

LEMMA ReportInvHolds == Spec => []ReportInv
<1>1. Init => ReportInv
  BY DEF Init, ReportInv, RecordedWhileWorking, RecordedAtEnd, NoStrat, Starting,
         Guarded!FreshGuard
<1>2. TypeOK /\ VerdictInv /\ ReportInv /\ [Next]_solverVars => ReportInv'
  BY ReportInvStep
<1> QED
  BY <1>1, <1>2, Typing, VerdictInvHolds, PTL DEF Spec

\* What OxiddFailure says fits the status, whatever fails and wherever: a losing
\* verdict never comes with a failure, an error has one unless the solve never
\* started, and a strategy only next to one that did not touch it.
THEOREM ReportFitsVerdict == Spec => []FailureReport
<1>1. VerdictInv /\ ReportInv => FailureReport
  <2> SUFFICES ASSUME VerdictInv, ReportInv PROVE FailureReport
    OBVIOUS
  <2>1. status = "UNREALIZABLE" => unreal
    BY DEF VerdictInv, FlagsFitPhase
  <2> QED
    BY <2>1 DEF ReportInv, RecordedAtEnd, FailureReport
<1> QED
  BY <1>1, ReportInvHolds, VerdictInvHolds, PTL

-----------------------------------------------------------------------------
\* The moves that are not bad and stay in X.
StayIn(g, X) == {v \in Val : v \notin g.bad /\ Successor(g, v) \in X}

\* X does not look at the controllable inputs.
Blind(X) == \A v \in Val, c \in CMove : v \in X <=> <<v[1], v[2], c>> \in X

\* The controller's move when the first Len(fs) controllables are decided.
Decided(fs, v) ==
  [i \in 1..NumC |-> IF i \in DOMAIN fs THEN v \in fs[i] ELSE v[3][i]]

\* The relation M with the functions of fs put in for their inputs.
PutIn(fs, M) == {v \in Val : <<v[1], v[2], Decided(fs, v)>> \in M}

AllBlind(fs) == \A i \in DOMAIN fs : Blind(fs[i])

\* While Skolem functions are found, R is the relation with those found put in
\* for their inputs; it never runs out of moves in Z.
SkolemInv ==
  /\ pc \in Working \ {"skolem", "updates", "conversion"} => f = << >>
  /\ pc \in {"updates", "conversion"} => Len(f) = NumC
  /\ pc \in {"skolem", "updates", "conversion"} =>
       /\ AllBlind(f)
       /\ R = PutIn(f, StayIn(game, Z))
       /\ \A s \in Z, u \in UMove : \E c \in CMove : <<s, u, c>> \in R

\* The strategy answers every u in Z by a move that stays in Z, and its latches
\* follow the game's.
StrategyStays ==
  ~strat.none =>
    \A s \in State, u \in UMove, c \in CMove :
      /\ s \in Z => <<s, u, Choice(strat.out, <<s, u, c>>)>> \in StayIn(game, Z)
      /\ \A j \in Latches :
           <<s, u, c>> \in strat.next[j] <=>
             <<s, u, Choice(strat.out, <<s, u, c>>)>> \in game.next[j]

\* The strategy's latches are the game's, and the game stays in Z.
LoopInv ==
  /\ plant \in State /\ memory = plant
  /\ pc # "done" => plant = game.reset
  /\ ~strat.none => plant \in Z
  /\ pc = "done" /\ ~strat.none => status = "REALIZABLE"

LEMMA RelationIsStay ==
  ASSUME NEW g \in GameRecords, NEW X \in SUBSET State,
         NEW D \in SUBSET Latches, DependsOnly(X, D)
  PROVE  SafeMoves(g, D, X) = StayIn(g, X)
BY UpdateAgrees DEF SafeMoves, StayIn

LEMMA StayInTotal ==
  ASSUME NEW g, NEW X \in SUBSET State, Invariant(g, X), NEW s \in X, NEW u \in UMove
  PROVE  \E c \in CMove : <<s, u, c>> \in StayIn(g, X)
<1>1. PICK c \in CMove : <<s, u, c>> \notin g.bad /\ Successor(g, <<s, u, c>>) \in X
  BY DEF Invariant, CPre
<1>2. <<s, u, c>> \in Val
  BY DEF Val
<1> QED BY <1>1, <1>2 DEF StayIn

\* A relation whose decided inputs no longer matter is the same at two moves
\* that agree on the others.
LEMMA DecidedIgnored ==
  ASSUME NEW fs, AllBlind(fs), NEW M,
         NEW s \in State, NEW u \in UMove, NEW c \in CMove, NEW d \in CMove,
         \A i \in 1..NumC : i \notin DOMAIN fs => c[i] = d[i]
  PROVE  /\ Decided(fs, <<s, u, c>>) = Decided(fs, <<s, u, d>>)
         /\ <<s, u, c>> \in PutIn(fs, M) <=> <<s, u, d>> \in PutIn(fs, M)
<1>1. <<s, u, c>> \in Val /\ <<s, u, d>> \in Val
  BY DEF Val
<1>2. \A i \in DOMAIN fs : <<s, u, c>> \in fs[i] <=> <<s, u, d>> \in fs[i]
  BY <1>1 DEF AllBlind, Blind
<1>3. Decided(fs, <<s, u, c>>) = Decided(fs, <<s, u, d>>)
  <2>1. <<s, u, c>>[3] = c /\ <<s, u, d>>[3] = d
    OBVIOUS
  <2>2. ASSUME NEW i \in 1..NumC
        PROVE  (IF i \in DOMAIN fs THEN <<s, u, c>> \in fs[i] ELSE <<s, u, c>>[3][i])
               = (IF i \in DOMAIN fs THEN <<s, u, d>> \in fs[i] ELSE <<s, u, d>>[3][i])
    <3>1. CASE i \in DOMAIN fs
      BY <1>2, <3>1
    <3>2. CASE i \notin DOMAIN fs
      BY <2>1, <3>2
    <3> QED BY <3>1, <3>2
  <2> QED
    BY <2>2, Zenon DEF Decided
<1> QED BY <1>1, <1>3 DEF PutIn

\* f_k holds where some completion with c_k = 1 is left; what the inputs decided
\* before were is of no account.
LEMMA SkolemIsExists ==
  ASSUME NEW fs \in Seq(SUBSET Val), AllBlind(fs), Len(fs) < NumC, NEW M,
         NEW v \in Val
  PROVE  v \in SkolemFunction(Len(fs) + 1, PutIn(fs, M)) <=>
           \E c \in CMove : c[Len(fs) + 1] = TRUE /\ <<v[1], v[2], c>> \in PutIn(fs, M)
<1> DEFINE k == Len(fs) + 1
<1> USE GameConstants
<1>0. v[1] \in State /\ v[2] \in UMove /\ v[3] \in CMove /\ k \in 1..NumC
      /\ DOMAIN fs = 1..(k - 1)
  BY DEF Val
<1>1. ASSUME NEW c \in CMove, c[k] = TRUE, <<v[1], v[2], c>> \in PutIn(fs, M)
      PROVE  v \in SkolemFunction(k, PutIn(fs, M))
  <2> DEFINE d == [i \in 1..NumC |-> IF i < k THEN v[3][i] ELSE c[i]]
  <2>1. d \in CMove
    BY <1>0 DEF CMove
  <2>2. \A i \in 1..NumC : i \notin DOMAIN fs => c[i] = d[i]
    BY <1>0
  <2>4. d[k] = TRUE
    BY <1>0, <1>1
  <2>5. ASSUME NEW i \in 1..(k - 1) PROVE d[i] = v[3][i]
    <3>1. i \in 1..NumC /\ i < k
      BY <1>0
    <3> QED BY <3>1, Zenon
  <2> HIDE DEF d, k
  <2>3. <<v[1], v[2], d>> \in PutIn(fs, M)
    BY <1>0, <1>1, <2>1, <2>2, DecidedIgnored
  <2> QED BY <2>1, <2>3, <2>4, <2>5 DEF SkolemFunction
<1>2. ASSUME v \in SkolemFunction(k, PutIn(fs, M))
      PROVE  \E c \in CMove : c[k] = TRUE /\ <<v[1], v[2], c>> \in PutIn(fs, M)
  BY <1>2, Zenon DEF SkolemFunction
<1> QED BY <1>1, <1>2

\* The next function is as blind as those before it.
LEMMA SkolemBlind ==
  ASSUME NEW fs \in Seq(SUBSET Val), AllBlind(fs), Len(fs) < NumC, NEW M
  PROVE  LET fk == SkolemFunction(Len(fs) + 1, PutIn(fs, M))
         IN  AllBlind(Append(fs, fk)) /\ fk \subseteq Val
<1> DEFINE fk == SkolemFunction(Len(fs) + 1, PutIn(fs, M))
<1>1. ASSUME NEW v \in Val, NEW c \in CMove PROVE v \in fk <=> <<v[1], v[2], c>> \in fk
  <2>1. <<v[1], v[2], c>> \in Val
    BY DEF Val
  <2> DEFINE w == <<v[1], v[2], c>>
  <2>2. w[1] = v[1] /\ w[2] = v[2] /\ w \in Val
    BY <2>1
  <2>3. v \in fk <=> \E d \in CMove : d[Len(fs) + 1] = TRUE
                                       /\ <<v[1], v[2], d>> \in PutIn(fs, M)
    BY SkolemIsExists
  <2>4. w \in fk <=> \E d \in CMove : d[Len(fs) + 1] = TRUE
                                       /\ <<w[1], w[2], d>> \in PutIn(fs, M)
    <3> HIDE DEF w
    <3> QED BY <2>2, SkolemIsExists
  <2>5. v \in fk <=> w \in fk
    <3> HIDE DEF w, fk
    <3> QED BY <2>2, <2>3, <2>4
  <2> QED BY <2>5
<1>2. Blind(fk)
  <2> HIDE DEF fk
  <2> QED BY <1>1 DEF Blind
<1>3. fk \subseteq Val
  BY DEF SkolemFunction
<1> HIDE DEF fk
<1>4. AllBlind(Append(fs, fk))
  BY <1>2 DEF AllBlind
<1>5. AllBlind(Append(fs, fk)) /\ fk \subseteq Val
  BY <1>3, <1>4
<1> QED BY <1>5 DEF fk

\* Substituting f_k puts one more function in.
LEMMA SubstitutePutsIn ==
  ASSUME NEW fs \in Seq(SUBSET Val), AllBlind(fs), Len(fs) < NumC, NEW M,
         NEW fk \in SUBSET Val
  PROVE  Substitute(Len(fs) + 1, fk, PutIn(fs, M)) = PutIn(Append(fs, fk), M)
<1> DEFINE k == Len(fs) + 1
           gs == Append(fs, fk)
<1> USE GameConstants
<1>0. k \in 1..NumC /\ DOMAIN fs = 1..(k - 1) /\ DOMAIN gs = 1..k
      /\ gs[k] = fk /\ \A i \in DOMAIN fs : gs[i] = fs[i]
  OBVIOUS
<1>1. ASSUME NEW v \in Val
      PROVE  v \in Substitute(k, fk, PutIn(fs, M)) <=> v \in PutIn(gs, M)
  <2> DEFINE e == [v[3] EXCEPT ![k] = (v \in fk)]
             w == <<v[1], v[2], e>>
  <2>1. v[3] \in CMove /\ v[1] \in State /\ v[2] \in UMove /\ v = <<v[1], v[2], v[3]>>
    BY DEF Val
  <2>2. e \in CMove
    BY <2>1 DEF CMove
  <2>3. w \in Val /\ w[1] = v[1] /\ w[2] = v[2] /\ w[3] = e
    BY <2>1, <2>2 DEF Val
  <2>4. \A i \in DOMAIN fs : w \in fs[i] <=> v \in fs[i]
    <3> HIDE DEF e
    <3> QED BY <2>1, <2>2, <2>3 DEF AllBlind, Blind
  <2>5. ASSUME NEW i \in 1..NumC
        PROVE  (IF i \in DOMAIN fs THEN w \in fs[i] ELSE w[3][i])
               = (IF i \in DOMAIN gs THEN v \in gs[i] ELSE v[3][i])
    <3>1. CASE i \in DOMAIN fs
      <4>1. i \in DOMAIN gs /\ gs[i] = fs[i]
        BY <1>0, <3>1
      <4> HIDE DEF gs, w
      <4> QED BY <2>4, <3>1, <4>1
    <3>2. CASE i = k
      <4>1. i \notin DOMAIN fs /\ i \in DOMAIN gs /\ gs[i] = fk
        BY <1>0, <3>2
      <4>2. w[3][i] = (v \in fk)
        BY <2>1, <2>3, <3>2 DEF CMove
      <4> HIDE DEF gs, w
      <4> QED BY <4>1, <4>2
    <3>3. CASE i \notin DOMAIN fs /\ i # k
      <4>1. i \notin DOMAIN gs
        BY <1>0, <3>3
      <4>2. w[3][i] = v[3][i]
        BY <2>1, <2>3, <3>3 DEF CMove
      <4> HIDE DEF gs, w
      <4> QED BY <3>3, <4>1, <4>2
    <3> QED BY <3>1, <3>2, <3>3
  <2>6. Decided(fs, w) = Decided(gs, v)
    <3> HIDE DEF w, gs
    <3> QED BY <2>5, Zenon DEF Decided
  <2>7. v \in Substitute(k, fk, PutIn(fs, M)) <=> w \in PutIn(fs, M)
    BY Zenon DEF Substitute
  <2>8. w \in PutIn(fs, M) <=> <<v[1], v[2], Decided(fs, w)>> \in M
    <3> HIDE DEF w
    <3> QED BY <2>3 DEF PutIn
  <2>9. v \in PutIn(gs, M) <=> <<v[1], v[2], Decided(gs, v)>> \in M
    BY Zenon DEF PutIn
  <2> QED BY <2>6, <2>7, <2>8, <2>9, Zenon
<1>2. Substitute(k, fk, PutIn(fs, M)) \subseteq Val /\ PutIn(gs, M) \subseteq Val
  BY DEF Substitute, PutIn
<1> HIDE DEF k, gs
<1>3. Substitute(k, fk, PutIn(fs, M)) = PutIn(gs, M)
  BY <1>1, <1>2
<1> QED BY <1>3 DEF k, gs

\* Where a move was left, one is left with f_k put in.
LEMMA SubstituteTotal ==
  ASSUME NEW fs \in Seq(SUBSET Val), AllBlind(fs), Len(fs) < NumC, NEW M,
         NEW s \in State, NEW u \in UMove,
         \E c \in CMove : <<s, u, c>> \in PutIn(fs, M)
  PROVE  LET k == Len(fs) + 1
             fk == SkolemFunction(k, PutIn(fs, M))
         IN  \E c \in CMove : <<s, u, c>> \in Substitute(k, fk, PutIn(fs, M))
<1> DEFINE k == Len(fs) + 1
           rel == PutIn(fs, M)
           fk == SkolemFunction(k, rel)
<1> USE GameConstants
<1>0. k \in 1..NumC
  OBVIOUS
<1>1. ASSUME NEW c \in CMove
      PROVE  <<s, u, c>> \in fk <=> \E d \in CMove : d[k] = TRUE /\ <<s, u, d>> \in rel
  <2>1. <<s, u, c>> \in Val /\ <<s, u, c>>[1] = s /\ <<s, u, c>>[2] = u
    BY DEF Val
  <2> QED BY <2>1, SkolemIsExists
<1>2. \E c \in CMove : <<s, u, c>> \in rel /\ c[k] = (<<s, u, c>> \in fk)
  <2>1. CASE \E d \in CMove : d[k] = TRUE /\ <<s, u, d>> \in rel
    BY <1>1, <2>1, Zenon
  <2>2. CASE ~\E d \in CMove : d[k] = TRUE /\ <<s, u, d>> \in rel
    <3>1. PICK c \in CMove : <<s, u, c>> \in rel
      OBVIOUS
    <3>2. c[k] = FALSE
      BY <1>0, <2>2, <3>1 DEF CMove
    <3>3. <<s, u, c>> \notin fk
      BY <1>1, <2>2
    <3> HIDE DEF fk, k, rel
    <3>4. c[k] = (<<s, u, c>> \in fk)
      <4>1. (<<s, u, c>> \in fk) = FALSE
        BY <3>3
      <4> QED BY <3>2, <4>1, Zenon
    <3> QED BY <3>1, <3>4, Zenon
  <2> QED BY <2>1, <2>2
<1>3. PICK c \in CMove : <<s, u, c>> \in rel /\ c[k] = (<<s, u, c>> \in fk)
  BY <1>2
<1>4. [c EXCEPT ![k] = (<<s, u, c>> \in fk)] = c
  BY <1>3 DEF CMove
<1>5. <<s, u, c>> \in Val /\ <<s, u, c>>[1] = s /\ <<s, u, c>>[2] = u /\ <<s, u, c>>[3] = c
  BY DEF Val
<1> HIDE DEF fk, rel, k
<1>6. <<s, u, c>> \in Substitute(k, fk, rel)
  BY <1>3, <1>4, <1>5, Zenon DEF Substitute
<1> QED BY <1>6 DEF fk, rel, k

-----------------------------------------------------------------------------
\* With every function put in, the strategy's choice is a move of the relation.
LEMMA ChoiceIsDecided ==
  ASSUME NEW fs \in Seq(SUBSET Val), Len(fs) = NumC, NEW v
  PROVE  Decided(fs, v) = Choice(fs, v)
<1>1. DOMAIN fs = 1..NumC
  OBVIOUS
<1> QED BY <1>1, Zenon DEF Decided, Choice

LEMMA ChoiceStays ==
  ASSUME NEW fs \in Seq(SUBSET Val), Len(fs) = NumC, AllBlind(fs), NEW M,
         NEW s \in State, NEW u \in UMove, NEW d \in CMove,
         \E c \in CMove : <<s, u, c>> \in PutIn(fs, M)
  PROVE  <<s, u, Choice(fs, <<s, u, d>>)>> \in M
<1>1. PICK c \in CMove : <<s, u, c>> \in PutIn(fs, M)
  OBVIOUS
<1>2. DOMAIN fs = 1..NumC
  OBVIOUS
<1>3. <<s, u, d>> \in PutIn(fs, M)
  BY <1>1, <1>2, DecidedIgnored
<1>4. <<s, u, d>>[1] = s /\ <<s, u, d>>[2] = u
  OBVIOUS
<1>5. <<s, u, Decided(fs, <<s, u, d>>)>> \in M
  BY <1>3, <1>4, Zenon DEF PutIn
<1> QED BY <1>5, ChoiceIsDecided

LEMMA SkolemInvStep ==
  ASSUME TypeOK, VerdictInv, ReportInv, SkolemInv, [Next]_solverVars
  PROVE  SkolemInv'
<1> USE DEF inputs, fixpoint, updates, skolem, Loop, Starting, Working
<1>1. CASE StrategyRelation
  <2>0. /\ game \in GameRecords /\ game' = game /\ Z' = Z /\ f' = f /\ pc = "relation"
        /\ pc' = "skolem" /\ R' = SafeMoves(game, sub, Z)
        /\ Z \in SUBSET State /\ sub \in SUBSET Latches
    BY <1>1, GameConstants DEF StrategyRelation, TypeOK
  <2>1. f = << >>
    BY <2>0 DEF SkolemInv
  <2>2. R' = StayIn(game, Z)
    BY <2>0, RelationIsStay DEF VerdictInv, SubstitutionCovers
  <2>3. StayIn(game, Z) = PutIn(f, StayIn(game, Z))
    <3>1. ASSUME NEW v \in Val PROVE <<v[1], v[2], Decided(f, v)>> = v
      <4>1. Decided(f, v) = v[3]
        <5>1. DOMAIN f = {}
          BY <2>1
        <5>2. v[3] \in [1..NumC -> BOOLEAN]
          BY DEF Val, CMove
        <5>3. Decided(f, v) = [i \in 1..NumC |-> v[3][i]]
          BY <5>1, Zenon DEF Decided
        <5> QED BY <5>2, <5>3
      <4> QED BY <4>1 DEF Val
    <3> QED BY <3>1 DEF PutIn, StayIn
  <2>4. AllBlind(f)
    BY <2>1 DEF AllBlind
  <2>5. ASSUME NEW s \in Z, NEW u \in UMove
        PROVE  \E c \in CMove : <<s, u, c>> \in R'
    <3>1. Invariant(game, Z)
      BY <2>0 DEF VerdictInv, FlagsFitRegion, FlagsFitPhase
    <3> QED BY <2>0, <2>2, <3>1, StayInTotal
  <2> QED
    BY <2>0, <2>2, <2>3, <2>4, <2>5 DEF SkolemInv
<1>2. CASE SkolemStep
  <2> DEFINE M == StayIn(game, Z)
             fk == SkolemFunction(Len(f) + 1, R)
  <2>0. /\ game' = game /\ Z' = Z /\ pc = "skolem" /\ pc' = pc
        /\ f \in Seq(SUBSET Val) /\ Len(f) < NumC /\ Z \subseteq State
        /\ f' = Append(f, fk) /\ R' = Substitute(Len(f) + 1, fk, R)
    BY <1>2 DEF SkolemStep, TypeOK
  <2>1. AllBlind(f) /\ R = PutIn(f, M)
        /\ \A s \in Z, u \in UMove : \E c \in CMove : <<s, u, c>> \in PutIn(f, M)
    BY <2>0 DEF SkolemInv
  <2> HIDE DEF M
  <2>2. AllBlind(f') /\ fk \in SUBSET Val
    BY <2>0, <2>1, SkolemBlind
  <2>3. R' = PutIn(f', M)
    <3> HIDE DEF fk
    <3> QED BY <2>0, <2>1, <2>2, SubstitutePutsIn
  <2>4. ASSUME NEW s \in Z, NEW u \in UMove
        PROVE  \E c \in CMove : <<s, u, c>> \in R'
    <3>1. s \in State /\ \E c \in CMove : <<s, u, c>> \in PutIn(f, M)
      BY <2>0, <2>1
    <3> QED BY <2>0, <2>1, <3>1, SubstituteTotal
  <2> HIDE DEF fk
  <2> QED
    BY <2>0, <2>2, <2>3, <2>4 DEF SkolemInv, M
<1>3. CASE SkolemDone \/ StrategyUpdates
  <2>1. /\ UNCHANGED <<game, Z, f, R>>
        /\ pc \in {"skolem", "updates"} /\ pc' \in {"updates", "conversion"}
        /\ pc = "skolem" => Len(f) = NumC
    BY <1>3 DEF SkolemDone, StrategyUpdates
  <2> QED BY <2>1 DEF SkolemInv
<1>4. CASE \/ Enter \/ NullGame \/ CreateManager \/ OwnManagerFails \/ SessionRefuses
           \/ AllocateTables \/ Construct \/ StartFixpoint \/ BuildDemanded \/ Iterate
  <2>1. /\ f' = f /\ pc \in Working \ {"skolem", "updates", "conversion"}
        /\ pc' \notin {"skolem", "updates", "conversion"}
    BY <1>4 DEF Enter, NullGame, CreateManager, OwnManagerFails, SessionRefuses,
                AllocateTables, Construct, StartFixpoint, BuildDemanded, Iterate
  <2> QED BY <2>1 DEF SkolemInv
<1>5. CASE \/ ConstructionFails \/ DemandFails \/ IterationFails \/ RelationFails
           \/ SkolemFails \/ StrategyUpdatesFail \/ Conversion \/ ConversionFails
           \/ Cleanup \/ Return
  <2>1. pc' \in {"cleanup", "returned", "done"}
    BY <1>5 DEF ConstructionFails, DemandFails, IterationFails, RelationFails,
                SkolemFails, StrategyUpdatesFail, Conversion, ConversionFails,
                Cleanup, Return
  <2> QED BY <2>1 DEF SkolemInv
<1>6. CASE UNCHANGED solverVars
  BY <1>6 DEF solverVars, SkolemInv
<1> QED
  BY <1>1, <1>2, <1>3, <1>4, <1>5, <1>6 DEF Next

LEMMA StrategyStaysStep ==
  ASSUME TypeOK, VerdictInv, ReportInv, SkolemInv, StrategyStays, [Next]_solverVars
  PROVE  StrategyStays'
<1> USE DEF inputs, fixpoint, updates, skolem, Loop, Starting, Working
<1>1. CASE Conversion
  <2>0. /\ game' = game /\ Z' = Z /\ pc = "conversion" /\ Z \subseteq State
        /\ f \in Seq(SUBSET Val) /\ strat'.out = f
        /\ strat'.next = [j \in Latches |->
                            {v \in Val : <<v[1], v[2], Choice(f, v)>> \in game.next[j]}]
    BY <1>1 DEF Conversion, TypeOK
  <2>1. /\ AllBlind(f) /\ Len(f) = NumC
        /\ \A s \in Z, u \in UMove :
             \E c \in CMove : <<s, u, c>> \in PutIn(f, StayIn(game, Z))
    BY <2>0 DEF SkolemInv
  <2>2. ASSUME NEW s \in State, NEW u \in UMove, NEW c \in CMove
        PROVE  /\ s \in Z => <<s, u, Choice(f, <<s, u, c>>)>> \in StayIn(game, Z)
               /\ \A j \in Latches :
                    <<s, u, c>> \in strat'.next[j] <=>
                      <<s, u, Choice(f, <<s, u, c>>)>> \in game.next[j]
    <3>1. ASSUME s \in Z PROVE <<s, u, Choice(f, <<s, u, c>>)>> \in StayIn(game, Z)
      <4>1. \E d \in CMove : <<s, u, d>> \in PutIn(f, StayIn(game, Z))
        BY <2>1, <3>1
      <4> QED BY <2>0, <2>1, <4>1, ChoiceStays
    <3>2. <<s, u, c>> \in Val /\ <<s, u, c>>[1] = s /\ <<s, u, c>>[2] = u
      BY DEF Val
    <3>3. ASSUME NEW j \in Latches
          PROVE  <<s, u, c>> \in strat'.next[j] <=>
                   <<s, u, Choice(f, <<s, u, c>>)>> \in game.next[j]
      BY <2>0, <3>2, Zenon
    <3> QED BY <3>1, <3>3
  <2> QED BY <2>0, <2>2 DEF StrategyStays
<1>2. CASE Iterate
  <2>1. strat.none /\ strat' = strat
    BY <1>2 DEF Iterate, ReportInv, RecordedWhileWorking
  <2> QED BY <2>1 DEF StrategyStays
<1>3. CASE Next /\ ~Conversion /\ ~Iterate
  <2>1. UNCHANGED <<game, Z, strat>>
    BY <1>3
       DEF Next, Enter, NullGame, CreateManager, OwnManagerFails, SessionRefuses,
           AllocateTables, Construct, ConstructionFails, StartFixpoint, BuildDemanded,
           DemandFails, IterationFails, StrategyRelation, RelationFails, SkolemStep,
           SkolemFails, SkolemDone, StrategyUpdates, StrategyUpdatesFail,
           ConversionFails, Cleanup, Return
  <2> QED BY <2>1 DEF StrategyStays
<1>4. CASE UNCHANGED solverVars
  BY <1>4 DEF solverVars, StrategyStays
<1> QED BY <1>1, <1>2, <1>3, <1>4

SolveInv == TypeOK /\ VerdictInv /\ ReportInv /\ SkolemInv /\ StrategyStays

LEMMA SolveInvHolds == Spec => []SolveInv
<1>1. Init => SkolemInv /\ StrategyStays
  BY DEF Init, SkolemInv, StrategyStays, NoStrat, Working, Starting
<1>2. /\ TypeOK /\ VerdictInv /\ ReportInv /\ SkolemInv /\ StrategyStays
      /\ [Next]_solverVars
      => SkolemInv' /\ StrategyStays'
  BY SkolemInvStep, StrategyStaysStep
<1> QED
  BY <1>1, <1>2, Typing, VerdictInvHolds, ReportInvHolds, PTL DEF Spec, SolveInv

\* The solver of the composition behaves as the solver alone.
LEMMA LoopSolves == LoopSpec => Spec
<1>1. LoopInit => Init
  BY DEF LoopInit
<1>2. [LoopNext]_loopVars => [Next]_solverVars
  BY DEF LoopNext, Solve, Play, loopVars, solverVars
<1> QED
  BY <1>1, <1>2, PTL DEF LoopSpec, Spec

\* One round of the controlled game: the answer is safe and the strategy's
\* latches go where the game's go.
LEMMA PlayStays ==
  ASSUME SolveInv, LoopInv, NEW u \in UMove, Play(u)
  PROVE  /\ <<plant, u, ControllerMove(u)>> \in StayIn(game, Z)
         /\ memory' = plant' /\ plant' \in Z /\ ControllerMove(u) \in CMove
<1> DEFINE c == ControllerMove(u)
<1>1. /\ ~strat.none /\ memory = plant /\ plant \in Z /\ plant \in State
      /\ plant' = Successor(game, <<plant, u, c>>)
      /\ memory' = [j \in Latches |-> <<memory, u, Anything>> \in strat.next[j]]
  BY DEF Play, LoopInv
<1>2. Anything \in CMove
  <2>1. [i \in 1..NumC |-> TRUE] \in CMove
    BY DEF CMove
  <2> QED BY <2>1 DEF Anything
<1>3. c = Choice(strat.out, <<plant, u, Anything>>)
  BY <1>1 DEF ControllerMove
<1>4. c \in CMove
  BY <1>3 DEF Choice, CMove
<1> HIDE DEF c
<1>5. /\ <<plant, u, c>> \in StayIn(game, Z)
      /\ \A j \in Latches : <<plant, u, Anything>> \in strat.next[j] <=>
                              <<plant, u, c>> \in game.next[j]
  BY <1>1, <1>2, <1>3 DEF SolveInv, StrategyStays
<1>6. memory' = plant'
  <2>1. ASSUME NEW j \in Latches
        PROVE  (<<memory, u, Anything>> \in strat.next[j]) = (<<plant, u, c>> \in game.next[j])
    BY <1>1, <1>5
  <2> QED BY <1>1, <2>1, Zenon DEF Successor
<1>7. plant' \in Z
  BY <1>1, <1>5 DEF StayIn
<1> QED BY <1>4, <1>5, <1>6, <1>7 DEF c

\* What any step of the solver does to what the promise speaks of.
LEMMA SolverStep ==
  ASSUME TypeOK, Next
  PROVE  /\ pc # "done" /\ game' = game
         /\ pc' = "done" => Return
         /\ Return \/ status' = status
<1> USE DEF inputs, fixpoint, updates, skolem, Loop
<1>1. CASE Return
  BY <1>1 DEF Return
<1>2. CASE ~Return
  BY <1>2
     DEF Next, Enter, NullGame, CreateManager, OwnManagerFails, SessionRefuses,
         AllocateTables, Construct, ConstructionFails, StartFixpoint, BuildDemanded,
         DemandFails, Iterate, IterationFails, StrategyRelation, RelationFails,
         SkolemStep, SkolemFails, SkolemDone, StrategyUpdates, StrategyUpdatesFail,
         Conversion, ConversionFails, Cleanup
<1> QED BY <1>1, <1>2

LEMMA LoopInvStep ==
  ASSUME SolveInv, SolveInv', LoopInv, [LoopNext]_loopVars
  PROVE  LoopInv'
<1>1. CASE Solve
  <2>1. /\ pc # "done" /\ game' = game /\ UNCHANGED <<plant, memory>>
        /\ pc' = "done" => Return
    BY <1>1, SolverStep DEF Solve, SolveInv
  <2>2. plant = game.reset /\ plant \in State /\ memory = plant
    BY <2>1 DEF LoopInv
  <2>3. ~strat'.none => plant' \in Z'
    BY <2>1, <2>2 DEF SolveInv, VerdictInv, FlagsFitPhase, FlagsFitRegion
  <2>4. pc' = "done" /\ ~strat'.none => status' = "REALIZABLE"
    BY <2>1 DEF Return, skolem
  <2> QED BY <2>1, <2>2, <2>3, <2>4 DEF LoopInv
<1>2. ASSUME NEW u \in UMove, Play(u) PROVE LoopInv'
  <2>1. memory' = plant' /\ plant' \in Z
    BY <1>2, PlayStays
  <2>2. UNCHANGED <<pc, game, strat, status, Z>> /\ pc = "done" /\ ~strat.none
    BY <1>2 DEF Play, solverVars
  <2>3. Z \subseteq State
    BY DEF SolveInv, TypeOK
  <2> QED BY <2>1, <2>2, <2>3 DEF LoopInv
<1>3. CASE UNCHANGED loopVars
  BY <1>3 DEF loopVars, solverVars, LoopInv
<1> QED BY <1>1, <1>2, <1>3 DEF LoopNext

LEMMA LoopInvHolds == LoopSpec => [](SolveInv /\ LoopInv)
<1>1. LoopInit /\ SolveInv => LoopInv
  <2> SUFFICES ASSUME LoopInit, SolveInv PROVE LoopInv
    OBVIOUS
  <2>1. game.reset \in State /\ strat.none /\ pc # "done"
    BY GameConstants DEF LoopInit, Init, NoStrat, GameRecords
  <2> QED BY <2>1 DEF LoopInit, LoopInv
<1>2. SolveInv /\ SolveInv' /\ LoopInv /\ [LoopNext]_loopVars => LoopInv'
  BY LoopInvStep
<1> QED
  BY <1>1, <1>2, LoopSolves, SolveInvHolds, PTL DEF LoopSpec

\* The promise's reading of a game is the solver's.
LEMMA SameGame ==
  /\ P!Winnable(game) <=> Winnable(game)
  /\ \A v : P!Successor(game, v) = Successor(game, v)
  /\ P!UMove = UMove /\ P!CMove = CMove
BY DEF P!Winnable, P!Invariant, P!CPre, P!Successor, P!State, P!UMove, P!CMove,
       Winnable, Invariant, CPre, Successor, State, UMove, CMove

\* The solver and the controller it hands out keep the promise of
\* safety_oxidd.h: the verdict is the right one, giving up is none, and no round
\* the controller plays is bad.
THEOREM LoopKeepsPromise == LoopSpec => Promise
<1>1. LoopInit => P!Init
  BY DEF LoopInit, Init, P!Init
<1>2. ASSUME SolveInv, LoopInv, SolveInv', [LoopNext]_loopVars
      PROVE  [P!Next]_P!vars
  <2>1. CASE Solve
    <3>1. CASE Return
      <4>1. /\ status = "none" /\ UNCHANGED <<game, plant>>
            /\ status' \in {"REALIZABLE", "UNREALIZABLE", "ERROR"}
        BY <1>2, <2>1, <3>1 DEF Solve, Return, SolveInv, VerdictInv, FlagsFitPhase, inputs
      <4>2. /\ status' = "REALIZABLE" => Winnable(game)
            /\ status' = "UNREALIZABLE" => ~Winnable(game)
        <5>1. /\ status' = "REALIZABLE" => winning'
              /\ status' = "UNREALIZABLE" => unreal'
              /\ UNCHANGED <<game, Z, winning, unreal>>
          BY <1>2, <3>1 DEF Return, SolveInv, VerdictInv, FlagsFitPhase, inputs, fixpoint
        <5>2. /\ winning => game.reset \in Z /\ Invariant(game, Z)
              /\ unreal => game.reset \notin Z
              /\ Z \subseteq State /\ Overapproximates
          BY <1>2 DEF SolveInv, VerdictInv, FlagsFitRegion, TypeOK
        <5> QED BY <5>1, <5>2 DEF Winnable, Overapproximates
      <4>3. P!Decide \/ P!GiveUp
        BY <4>1, <4>2, SameGame DEF P!Decide, P!GiveUp
      <4> QED BY <4>3 DEF P!Next
    <3>2. CASE ~Return
      BY <1>2, <2>1, <3>2, SolverStep DEF Solve, SolveInv, P!vars
    <3> QED BY <3>1, <3>2
  <2>2. ASSUME NEW u \in UMove, Play(u) PROVE P!Next
    <3>1. /\ <<plant, u, ControllerMove(u)>> \notin game.bad
          /\ ControllerMove(u) \in CMove
      BY <1>2, <2>2, PlayStays DEF StayIn
    <3>2. /\ plant' = Successor(game, <<plant, u, ControllerMove(u)>>)
          /\ UNCHANGED <<game, status>>
      BY <2>2 DEF Play, solverVars
    <3>3. status = "REALIZABLE"
      BY <1>2, <2>2 DEF Play, LoopInv
    <3>4. P!Round
      BY <3>1, <3>2, <3>3, SameGame DEF P!Round
    <3> QED BY <3>4 DEF P!Next
  <2>3. CASE UNCHANGED loopVars
    BY <2>3 DEF loopVars, solverVars, P!vars
  <2> QED BY <1>2, <2>1, <2>2, <2>3 DEF LoopNext
<1>3. SolveInv /\ LoopInv /\ SolveInv' /\ [LoopNext]_loopVars => [P!Next]_P!vars
  BY <1>2
<1> QED
  BY <1>1, <1>3, LoopInvHolds, PTL DEF LoopSpec, Promise, P!Spec
=============================================================================
