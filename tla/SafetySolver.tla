---------------------------- MODULE SafetySolver ----------------------------
(***************************************************************************)
(* The in-process safety-game solver (safety_oxidd.c): solve_safety_impl   *)
(* as a sequence of phases, and the three entry points that turn what it   *)
(* leaves into a verdict.  A BDD is modelled by the set of valuations that *)
(* satisfy it; the wrapped BDD operations by what RunGuard promises of     *)
(* them, so that every phase may be cut short by a full node table, a      *)
(* deadline, a cancellation or a failed host allocation.                   *)
(***************************************************************************)
EXTENDS SafetyGame, Sequences

CONSTANT StopKinds       \* limits the caller may arm

ASSUME StopAssumption == StopKinds \subseteq {"DEADLINE", "CANCELLED"}

\* entry: solve_safety_oxidd_result ("result") or solve_safety_oxidd_ex ("ex").
Options == [demand : BOOLEAN, verdictOnly : BOOLEAN,
            entry : {"result", "ex"}, session : BOOLEAN]

VARIABLES pc,      \* the phase
          game, opts,
          guard,   \* the OxiddRun guard and the caller's OxiddFailure
          ok, unreal, winning,
          Z,       \* the fixpoint's current approximation
          built,   \* latches whose next function has been compiled
          sub,     \* latches the current substitution replaces
          R,       \* the strategy relation while it is being Skolemised
          f,       \* Skolem functions found so far, one per controllable
          strat,   \* the strategy AIG, or NoStrat
          status   \* what the entry point reports

solverVars == <<pc, game, opts, guard, ok, unreal, winning, Z, built, sub, R,
                f, strat, status>>

Guarded == INSTANCE RunGuard WITH valid <- ~guard.failed

NoStrat == [none |-> TRUE]

-----------------------------------------------------------------------------
\* The successor when only the latches of D are replaced by their next
\* functions: what substituting an incomplete substitution computes.
Update(g, D, v) ==
  [j \in Latches |-> \/ j \in D /\ v \in g.next[j]
                     \/ j \notin D /\ v[1][j]]

\* ~bad /\ Z[s := next], over the latches the substitution covers.
SafeMoves(g, D, X) == {v \in Val : v \notin g.bad /\ Update(g, D, v) \in X}

ExistsForall(g, D, X) ==
  {s \in State : \E c \in CMove : \A u \in UMove :
                   <<s, u, c>> \in SafeMoves(g, D, X)}

\* One round of the fixpoint: forall u exists c [~bad /\ Z[s := next]].
ForallExists(g, D, X) ==
  {s \in State : \A u \in UMove : \E c \in CMove :
                   <<s, u, c>> \in SafeMoves(g, D, X)}

\* X can be told from the latches of D alone.
DependsOnly(X, D) ==
  \A s, t \in State : (\A j \in D : s[j] <=> t[j]) => (s \in X <=> t \in X)

NoSupport(X) == {{}}

\* oxidd_state_support: the latches a reduced BDD of X mentions.
Supports(X) ==
  {D \in SUBSET Latches :
     DependsOnly(X, D) /\ \A j \in D : ~DependsOnly(X, D \ {j})}

-----------------------------------------------------------------------------
Init ==
  /\ pc = "enter"
  /\ game \in Games /\ opts \in Options
  /\ guard = Guarded!FreshGuard
  /\ ok = TRUE /\ unreal = FALSE /\ winning = FALSE
  /\ Z = State /\ built = {} /\ sub = {}
  /\ R = {} /\ f = << >> /\ strat = NoStrat /\ status = "none"

inputs == <<game, opts>>
fixpoint == <<unreal, winning, Z>>
updates == <<built, sub>>
skolem == <<R, f, strat>>

\* Entry.  solve_safety_oxidd_ex has no way to report a verdict without a
\* strategy and rejects a verdict-only request.
Enter ==
  /\ pc = "enter"
  /\ IF opts.entry = "ex" /\ opts.verdictOnly
       THEN /\ guard' = Guarded!RecordFailure(guard, "CONFIGURATION")
            /\ pc' = "returned"
       ELSE /\ guard' = guard
            /\ pc' = "manager"
  /\ UNCHANGED <<inputs, ok, fixpoint, updates, skolem, status>>

\* The caller has no game: solve_safety_impl returns at once.
NullGame ==
  /\ pc = "enter" /\ ~(opts.entry = "ex" /\ opts.verdictOnly)
  /\ pc' = "returned"
  /\ UNCHANGED <<inputs, guard, ok, fixpoint, updates, skolem, status>>

\* The manager and its variables are ready: a fresh one in the requested order,
\* or the session's with a new block of variables.
CreateManager ==
  /\ pc = "manager"
  /\ pc' = "tables"
  /\ UNCHANGED <<inputs, guard, ok, fixpoint, updates, skolem, status>>

\* A fresh manager cannot be set up: the order is invalid or does not apply
\* (CONFIGURATION), or the host has no memory for it (HOST).
OwnManagerFails ==
  /\ pc = "manager" /\ ~opts.session
  /\ \E kind \in {"CONFIGURATION", "HOST"} :
       guard' = Guarded!RecordFailure(guard, kind)
  /\ pc' = "returned"
  /\ UNCHANGED <<inputs, ok, fixpoint, updates, skolem, status>>

\* The session cannot serve this solve: a non-default order or other capacities
\* are refused; when its variable numbers run out nothing is recorded.
SessionRefuses ==
  /\ pc = "manager" /\ opts.session
  /\ guard' \in {Guarded!RecordFailure(guard, "CONFIGURATION"), guard}
  /\ pc' = "returned"
  /\ UNCHANGED <<inputs, ok, fixpoint, updates, skolem, status>>

\* The working tables are allocated, or the solve returns at once.
AllocateTables ==
  /\ pc = "tables"
  /\ \/ pc' = "construction" /\ guard' = guard
     \/ pc' = "returned" /\ guard' = Guarded!RecordFailure(guard, "HOST")
  /\ UNCHANGED <<inputs, ok, fixpoint, updates, skolem, status>>

\* Variables, oxidd_build_game, the negated bad, the substitution and the two
\* quantifier cubes.  With demand_transitions no next function is built yet.
Construct ==
  /\ pc = "construction"
  /\ guard' \in Guarded!Outcomes(guard, TRUE)
  /\ ~guard'.failed
  /\ built' = IF opts.demand THEN {} ELSE Latches
  /\ sub' = built'
  /\ pc' = "initial"
  /\ UNCHANGED <<inputs, ok, fixpoint, skolem, status>>

\* Some step of the construction fails: a BDD operation, an operand the circuit
\* never defines, or (with nothing recorded yet) a host allocation or a missing
\* safety output.
ConstructionFails ==
  /\ pc = "construction"
  /\ \E operandsValid \in BOOLEAN :
       guard' \in Guarded!Outcomes(guard, operandsValid)
  /\ ok' = FALSE
  /\ pc' = "cleanup"
  /\ UNCHANGED <<inputs, fixpoint, updates, skolem, status>>

Loop == IF opts.demand THEN "support" ELSE "iterate"

\* Z := true and the reset assignment.  An uninitialised latch or a failed
\* allocation ends the solve.
StartFixpoint ==
  /\ pc = "initial"
  /\ \/ /\ game.resetKnown
        /\ pc' = Loop /\ ok' = ok
     \/ pc' = "cleanup" /\ ok' = FALSE
  /\ UNCHANGED <<inputs, guard, fixpoint, updates, skolem, status>>

StaleSubstitution(needed) ==
  IF needed \subseteq built
    THEN UNCHANGED <<guard, updates>>
    ELSE /\ guard' \in Guarded!Outcomes(guard, TRUE)
         /\ built' = built \cup needed
         /\ UNCHANGED sub

\* demand_updates for the latches in `needed`: compile the missing next
\* functions, then publish a new substitution over all compiled ones.  Nothing
\* happens when none is missing.  A limit or a BDD failure met while compiling
\* may stay without effect (the roots needed no further operation), so the
\* functions can be right although the guard has failed.
DemandUpdates(needed) ==
  IF needed \subseteq built
    THEN UNCHANGED <<guard, updates>>
    ELSE /\ guard' \in Guarded!Outcomes(guard, TRUE)
         /\ built' = built \cup needed
         /\ sub' = built'

\* demand_updates fails: no root is published, or the roots are and the new
\* substitution cannot be allocated.
DemandUpdatesFail(needed) ==
  /\ ~(needed \subseteq built)
  /\ guard' \in Guarded!Outcomes(guard, TRUE)
  /\ built' \in {built, built \cup needed}
  /\ sub' = sub

\* Demand mode, before each round: build what the current Z mentions.
BuildDemanded ==
  /\ pc = "support"
  /\ \E needed \in Supports(Z) : DemandUpdates(needed)
  /\ pc' = "iterate"
  /\ UNCHANGED <<inputs, ok, fixpoint, skolem, status>>

DemandFails ==
  /\ pc = "support"
  /\ \/ UNCHANGED <<guard, updates>>    \* the support map or its traversal
     \/ \E needed \in Supports(Z) : DemandUpdatesFail(needed)
  /\ ok' = FALSE
  /\ pc' = "cleanup"
  /\ UNCHANGED <<inputs, fixpoint, skolem, status>>

\* The verdict is taken without waiting for the fixpoint to converge.
StopAtFirstRound ==
  /\ pc = "iterate"
  /\ guard' \in Guarded!Outcomes(guard, TRUE)
  /\ ~guard'.failed
  /\ LET au == ForallExists(game, sub, Z) IN
       /\ Z' = au
       /\ unreal' = (game.reset \notin au)
       /\ ok' = (game.reset \in au)
       /\ winning' = (game.reset \in au)
       /\ pc' = IF game.reset \notin au \/ opts.verdictOnly
                  THEN "cleanup" ELSE "relation"
  /\ UNCHANGED <<inputs, updates, skolem, status>>

\* Convergence is never noticed.
NeverConverges ==
  /\ pc = "iterate"
  /\ guard' \in Guarded!Outcomes(guard, TRUE)
  /\ ~guard'.failed
  /\ LET au == ForallExists(game, sub, Z) IN
       /\ Z' = au
       /\ unreal' = (game.reset \notin au)
       /\ ok' = (game.reset \in au)
       /\ winning' = FALSE
       /\ pc' = IF game.reset \notin au THEN "cleanup" ELSE Loop
  /\ UNCHANGED <<inputs, updates, skolem, status>>

\* One round of the greatest fixpoint.  The reset state is tested before
\* convergence, so an unrealizable game stops early.
Iterate ==
  /\ pc = "iterate"
  /\ guard' \in Guarded!Outcomes(guard, TRUE)
  /\ ~guard'.failed
  /\ LET au == ForallExists(game, sub, Z) IN
       /\ Z' = au
       /\ unreal' = (game.reset \notin au)
       /\ ok' = (game.reset \in au)
       /\ winning' = (game.reset \in au /\ au = Z)
       /\ pc' = IF game.reset \notin au THEN "cleanup"
                ELSE IF au # Z THEN Loop
                ELSE IF opts.verdictOnly THEN "cleanup" ELSE "relation"
  /\ UNCHANGED <<inputs, updates, skolem, status>>

\* A failed round that reports the game lost.
FailedRoundLoses ==
  /\ pc = "iterate"
  /\ guard' \in Guarded!Outcomes(guard, TRUE)
  /\ guard'.failed
  /\ ok' = FALSE /\ unreal' = TRUE
  /\ pc' = "cleanup"
  /\ UNCHANGED <<inputs, winning, Z, updates, skolem, status>>

\* An operation of the round fails: no verdict.
IterationFails ==
  /\ pc = "iterate"
  /\ guard' \in Guarded!Outcomes(guard, TRUE)
  /\ guard'.failed
  /\ ok' = FALSE
  /\ pc' = "cleanup"
  /\ UNCHANGED <<inputs, fixpoint, updates, skolem, status>>

\* M = ~bad /\ W[s := next]; the fixpoint's handles, the substitution among
\* them, are released.
StrategyRelation ==
  /\ pc = "relation"
  /\ guard' \in Guarded!Outcomes(guard, TRUE)
  /\ ~guard'.failed
  /\ R' = SafeMoves(game, sub, Z)
  /\ sub' = {}
  /\ pc' = "skolem"
  /\ UNCHANGED <<inputs, ok, fixpoint, built, f, strat, status>>

\* The relation cannot be computed or its tables not allocated.
RelationFails ==
  /\ pc = "relation"
  /\ guard' \in Guarded!Outcomes(guard, TRUE)
  /\ ok' = FALSE /\ sub' = {}
  /\ pc' = "cleanup"
  /\ UNCHANGED <<inputs, fixpoint, built, skolem, status>>

\* f_k = exists (later controllables) R[c_k := 1].
SkolemFunction(k, rel) ==
  {v \in Val : \E c \in CMove :
     /\ \A i \in 1..(k - 1) : c[i] = v[3][i]
     /\ c[k] = TRUE
     /\ <<v[1], v[2], c>> \in rel}

\* R[c_k := f_k].
Substitute(k, fk, rel) ==
  {v \in Val : <<v[1], v[2], [v[3] EXCEPT ![k] = (v \in fk)]>> \in rel}

\* Skolemise the next controllable: choose 1 wherever a safe completion exists.
SkolemStep ==
  /\ pc = "skolem" /\ Len(f) < NumC
  /\ guard' \in Guarded!Outcomes(guard, TRUE)
  /\ ~guard'.failed
  /\ LET k == Len(f) + 1
         fk == SkolemFunction(k, R)
     IN  /\ f' = Append(f, fk)
         /\ R' = Substitute(k, fk, R)
  /\ UNCHANGED <<pc, inputs, ok, fixpoint, updates, strat, status>>

\* An operation fails, before or after f_k was stored.
SkolemFails ==
  /\ pc = "skolem" /\ Len(f) < NumC
  /\ guard' \in Guarded!Outcomes(guard, TRUE)
  /\ f' \in {f, Append(f, SkolemFunction(Len(f) + 1, R))}
  /\ ok' = FALSE
  /\ pc' = "cleanup"
  /\ UNCHANGED <<inputs, fixpoint, updates, R, strat, status>>

SkolemDone ==
  /\ pc = "skolem" /\ Len(f) = NumC
  /\ pc' = IF opts.demand THEN "updates" ELSE "conversion"
  /\ UNCHANGED <<inputs, guard, ok, fixpoint, updates, skolem, status>>

\* Demand mode, before conversion: the controller needs every next function,
\* also those no Z ever mentioned.
StrategyUpdates ==
  /\ pc = "updates"
  /\ DemandUpdates(Latches)
  /\ pc' = "conversion"
  /\ UNCHANGED <<inputs, ok, fixpoint, skolem, status>>

StrategyUpdatesFail ==
  /\ pc = "updates"
  /\ DemandUpdatesFail(Latches)
  /\ ok' = FALSE
  /\ pc' = "cleanup"
  /\ UNCHANGED <<inputs, fixpoint, skolem, status>>

\* The controller's choice at <<s, u>>: c_k is 1 where f_k holds.
Choice(fs, v) == [k \in 1..NumC |-> v \in fs[k]]

\* bdd2aig refuses a root that still mentions a controllable input.
MentionsControllable(X) ==
  \E v \in X, c \in CMove : <<v[1], v[2], c>> \notin X

\* Converting runs wrapped operations only when there is a latch to rewrite and
\* a controllable to replace in it.
ConversionOperates == NumC # 0 /\ Latches # {}

ConversionGuards ==
  IF ConversionOperates THEN Guarded!Outcomes(guard, built = Latches)
  ELSE {guard}

\* The strategy AIG: outputs f_k, and as memory the game's latches with every
\* controllable replaced by its function.
Conversion ==
  /\ pc = "conversion"
  /\ guard' \in ConversionGuards
  /\ ConversionOperates => ~guard'.failed
  /\ built = Latches
  /\ \A k \in 1..NumC : ~MentionsControllable(f[k])
  /\ strat' = [none |-> FALSE, out |-> f,
               next |-> [j \in Latches |->
                           {v \in Val : <<v[1], v[2], Choice(f, v)>>
                                           \in game.next[j]}]]
  /\ pc' = "cleanup"
  /\ UNCHANGED <<inputs, ok, fixpoint, updates, R, f, status>>

\* A root mentions a controllable, an operand is missing, a BDD operation or an
\* allocation fails: the half-built strategy is dropped.
ConversionFails ==
  /\ pc = "conversion"
  /\ \E g \in ConversionGuards :
       guard' = Guarded!RecordFailure(g, "CONVERSION")
  /\ pc' = "cleanup"
  /\ UNCHANGED <<inputs, ok, fixpoint, updates, skolem, status>>

VerdictStands == unreal \/ (opts.verdictOnly /\ winning)

SilentCleanup ==
  /\ pc = "cleanup"
  /\ sub' = {}
  /\ pc' = "returned"
  /\ UNCHANGED <<inputs, guard, ok, fixpoint, built, skolem, status>>

\* Release everything; a solve that leaves neither strategy nor verdict has a
\* failure on record.
Cleanup ==
  /\ pc = "cleanup"
  /\ guard' = IF strat.none /\ ~VerdictStands
                THEN Guarded!RecordFailure(guard, "HOST") ELSE guard
  /\ sub' = {}
  /\ pc' = "returned"
  /\ UNCHANGED <<inputs, ok, fixpoint, built, skolem, status>>

\* What the caller sees: solve_safety_oxidd_result's status, which for the
\* older entry point is read off its return value and *unreal.
Return ==
  /\ pc = "returned"
  /\ status' = IF ~strat.none \/ (opts.verdictOnly /\ winning)
                 THEN "REALIZABLE"
               ELSE IF unreal THEN "UNREALIZABLE" ELSE "ERROR"
  /\ pc' = "done"
  /\ UNCHANGED <<inputs, guard, ok, fixpoint, updates, skolem>>

Next ==
  \/ Enter \/ NullGame \/ CreateManager \/ OwnManagerFails \/ SessionRefuses
  \/ AllocateTables \/ Construct \/ ConstructionFails \/ StartFixpoint
  \/ BuildDemanded \/ DemandFails \/ Iterate \/ IterationFails
  \/ StrategyRelation \/ RelationFails
  \/ SkolemStep \/ SkolemFails \/ SkolemDone
  \/ StrategyUpdates \/ StrategyUpdatesFail
  \/ Conversion \/ ConversionFails \/ Cleanup \/ Return

Spec == Init /\ [][Next]_solverVars

\* The solver is one sequential function: it always takes its next step.
FairSpec == Spec /\ WF_solverVars(Next)

-----------------------------------------------------------------------------
Phases == {"enter", "manager", "tables", "construction", "initial", "support",
           "iterate", "relation", "skolem", "updates", "conversion",
           "cleanup", "returned", "done"}

Strategies == [none : {FALSE}, out : Seq(SUBSET Val),
               next : [Latches -> SUBSET Val]]

TypeOK ==
  /\ pc \in Phases
  /\ game \in Games /\ opts \in Options
  /\ guard \in Guarded!Guards
  /\ ok \in BOOLEAN /\ unreal \in BOOLEAN /\ winning \in BOOLEAN
  /\ Z \subseteq State
  /\ built \subseteq Latches /\ sub \subseteq built
  /\ R \subseteq Val
  /\ f \in Seq(SUBSET Val) /\ Len(f) <= NumC
  /\ strat = NoStrat \/ strat \in Strategies
  /\ status \in {"none", "REALIZABLE", "UNREALIZABLE", "ERROR"}

\* Whatever fails on the way, a verdict that is reported is the right one:
\* REALIZABLE only when the controller can keep the game safe from the reset
\* state, UNREALIZABLE only when it cannot (although the solver stops at the
\* first round that excludes the reset state).
VerdictSound ==
  /\ status = "REALIZABLE" => Winnable(game)
  /\ status = "UNREALIZABLE" => ~Winnable(game)

\* When the fixpoint or the strategy relation substitutes into Z, the current
\* substitution covers every latch Z depends on, also in demand mode where it
\* is rebuilt as Z's support grows (demand_updates).
SubstitutionCovers ==
  pc \in {"iterate", "relation"} => DependsOnly(Z, sub)

\* The failure report fits the verdict: a losing verdict never comes with one
\* ("never a losing verdict", oxidd_options.h), an ERROR without one only when
\* the solve never started (no game, or no variable numbers left in the
\* session), and a REALIZABLE one only when it was met while compiling next
\* functions the verdict does not need.
FailureReport ==
  /\ status = "UNREALIZABLE" => guard.failure = "NONE"
  /\ status = "ERROR" /\ guard.failure = "NONE" =>
       ok /\ built = {} /\ Z = State
  /\ status = "REALIZABLE" /\ guard.failure # "NONE" =>
       opts.demand /\ ~ConversionOperates

\* Z never loses a set the controller can stay in; the flags and the phase say
\* what is known of Z.  With TypeOK this is inductive and gives VerdictSound.
Overapproximates ==
  \A K \in SUBSET State : Invariant(game, K) => K \subseteq Z

CompleteSubstitution ==
  pc \in {"initial", "support", "iterate", "relation"} =>
    sub = built /\ (~opts.demand => built = Latches)

FlagsFitPhase ==
  /\ pc \in {"enter", "manager", "tables", "construction", "initial",
             "support", "iterate"} => ~unreal /\ ~winning
  /\ pc \in {"relation", "skolem", "updates", "conversion"} => winning
  /\ pc # "done" => status = "none"
  /\ ~strat.none => winning
  /\ status = "REALIZABLE" => winning
  /\ status = "UNREALIZABLE" => unreal

FlagsFitRegion ==
  /\ winning => game.reset \in Z /\ Invariant(game, Z)
  /\ unreal => game.reset \notin Z

VerdictInv ==
  /\ Overapproximates /\ CompleteSubstitution /\ SubstitutionCovers
  /\ FlagsFitPhase /\ FlagsFitRegion

\* Every solve returns: the fixpoint cannot go on for ever.
Terminates == <>(pc = "done")

-----------------------------------------------------------------------------
(***************************************************************************)
(* The solver, then its controller in the loop with the game it was made   *)
(* for.  The strategy AIG keeps its own copy of the game's latches; the    *)
(* environment only feeds it the uncontrollable inputs.  The composition   *)
(* implements SafetyPromise.                                               *)
(***************************************************************************)
VARIABLES plant,   \* the state of the game
          memory   \* the strategy's latches

loopVars == <<solverVars, plant, memory>>

LoopInit == Init /\ plant = game.reset /\ memory = game.reset

Solve == Next /\ UNCHANGED <<plant, memory>>

\* The strategy reads only its latches and u: any c stands for its inputs.
Anything == CHOOSE c \in CMove : TRUE

ControllerMove(u) == Choice(strat.out, <<memory, u, Anything>>)

Play(u) ==
  /\ pc = "done" /\ ~strat.none
  /\ plant' = Successor(game, <<plant, u, ControllerMove(u)>>)
  /\ memory' = [j \in Latches |-> <<memory, u, Anything>> \in strat.next[j]]
  /\ UNCHANGED solverVars

LoopNext == Solve \/ \E u \in UMove : Play(u)

LoopSpec == LoopInit /\ [][LoopNext]_loopVars

-----------------------------------------------------------------------------
P == INSTANCE SafetyPromise WITH verdict <- status

\* The solver and the controller it emits keep the promise of safety_oxidd.h:
\* the verdict is right and no round the controller plays is bad.
Promise == P!Spec
=============================================================================
