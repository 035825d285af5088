# A TLA+ model of tlsf-tools

This directory holds TLA+ specifications of the parts of tlsf-tools that decide
something: what happens to a specification before it becomes a game (expansion,
normalisation, rewriting, analysis and decomposition, reduction to GR(1),
deterministic automata), the BDD layer and the safety and GR(1) solvers with the
strategies they hand out, the publication of their results, the independent
checker of GR(1) policies, and the lifting of policies from small instances.
TLC checks them on small instances; TLAPS proves the central properties of the
solvers, the publication and the checker's argument for all instances.

Paths below are relative to the repository; `PROJECT.json` gives the source
lines of every definition, the runs, one mutant per checked property, the
hazards and the theorems.

## 1. The system

tlsf-tools reads TLSF specifications, expands and normalises them, tries to
decompose them into games that can be solved inside the process, solves those
games over BDDs, and composes the resulting controllers.

| Component | State it keeps | Operations | Correct when |
|---|---|---|---|
| Expansion (`expand.c`) | a staged copy of the specification, environments of parameters and bound variables | evaluate, unroll, publish or undo | the formula means what the high-level one meant; all or nothing |
| Normalisation and rewriting (`normalize.c`, `rewrite.c`, `nnf.c`, `tlsfnorm`) | the six sections, schedules, caps | gate, passes, list-level splits, fixpoint drivers | the accepted words stay the same, finite and infinite |
| Analysis and decomposition (`cover.c`, `gr.c`, `precheck_unreal.c`, `templates.c`, `residual*.c`, `decompose.c`, `env_witness.c`) | the cover, the plan, clusters and games | classify, precheck, substitute definitions, split, drop assumptions | levels and verdicts true; the games stand for the specification |
| DPA construction (`dpa*.c`) | states of an automaton built on demand, interning tables, caps | decompose, expand a row, colour, compare | language preserved, every record found, caps respected |
| GR(1) reduction (`gr1_reduction.cc`) | monitors, budgets, the game under construction | admit, expand, encode, combine | the game's objective is the specification's; failures leave nothing |
| BDD operation layer (`oxidd_common.c`) | failure record, operation and retry counters, `next_gc`, phase | wrapped operations, phase changes, collections, polling of deadline and cancellation | failures are final and genuine, retries are accounted for, collections keep their distance |
| Circuit compilation (`oxidd_build_roots`) | handle map, use counts, published roots | count, release, build, publish | counts exact, nothing read after release, roots all or nothing |
| Safety solver (`safety_oxidd.c`) | fixpoint `Z`, compiled next functions and their substitution, Skolem functions, strategy | construct, iterate, demand-build, Skolemise, convert, clean up | verdict right whatever fails, controller never plays a bad round |
| GR(1) solver (`gr1_oxidd.c`) | three nested fixpoints with levels, the dual's levels, move relations, strategies, exports | iterate, decide, extract, export, settle, publish | levels fit, dual is the complement, controller and counter-strategy win, report honest |
| Export buffer and publication (`gr1_oxidd.c`) | buffer sizes; temporaries, backups, paths | write, grow, close; stage, rename, undo, remove | buffer never overrun; all files or none, no old file lost |
| GR(1) checker (`gr1_check.c`, `tlsfcertcheck`) | compiled game, policy and certificate; verdict, retry | validate, compile, check by certificate, region or closed loop, retry with another order | VERIFIED only for winning policies, REFUTED only for losing ones, methods agree |
| GR(1) lifting (`gr1_lift.cc`, `gr1_env_lift.cc`, `gr1_shared.hh`) | sealed target, window of seed instances, candidate, statistics | prepare, search, solve seeds, learn, check, fall back, publish | accepted proofs are about the sealed game; stops and declines told apart |
| AIGER (`aiger.c`, `mealy2moore`) | circuits | and, merge, sample, rename, read, write | functions preserved |
| Composition (`tlsfcompose`) | components, routes, strategies | route, solve, merge | a merged strategy realizes the specification |

The components form a pipeline of calls in one thread. What is shared is the
BDD manager of an OxiDD session, whose own collector runs concurrently; the
limits (deadline, cancellation callback, node table, artifact cap) can interrupt
any BDD operation; and the file system is shared with other processes.

What is hard here, and hard to test: an interruption before any single
operation of a fixpoint; a full node table and a retry that races another
collector; exact reference counting with shared, complemented and seeded gates;
a substitution that lags behind the set it is applied to; strategies that are
safe and still miss a goal for ever; two computations that must be exact
complements; a failure after the verdict; a crash in the middle of replacing
several files; size arithmetic at SIZE_MAX; rewriting that is sound on infinite
words only; scoping and range ends in nested quantifiers; automata that differ
only in the limit; splitting a game whose assumptions tie its parts together;
deadlines within deadlines and retries that hide the first cause.
`PROJECT.json` lists these hazards at their lines.

## 2. Modules

| Module | Models |
|---|---|
| `RunGuard` | what a wrapped BDD operation promises: a valid handle, or a guard that has failed for good. Abstract specification, and the operators every solver module uses |
| `OxiddRun` | the operation layer itself; implements `RunGuard` |
| `BuildRoots` | `oxidd_build_roots` |
| `SafetyGame`, `SafetyPromise` | safety games with an independent definition of winning; what solving one promises |
| `SafetySolver` | the solver; the solver followed by its controller in the loop with the game, which implements `SafetyPromise` |
| `Gr1Game` | GR(1) games, strategies and policies over them, and the one-step obligations of the checker for a policy with its certificate and for a certificate alone |
| `Gr1Solver`, `Gr1Loop` | the solver with its dual, both strategies and its exports; the closed loops, and what is exported held against the checker's obligations |
| `Gr1Check` | `tlsf_gr1_check`: arguments, reading, compilation, certificate, region and closed-loop methods, the repeated pass, the report; what its verdicts mean, defined by cycles and by least and greatest solutions instead of iterations |
| `PolicyLoop` | a policy that the obligations accept, in the loop with its game |
| `Gr1Cases` | games, policies and certificates, good and flawed, for the runs of the checker |
| `PublishExports` | `publish_exports` |
| `CappedExport` | the in-memory export stream |
| `Formula` | syntax trees and what they mean on finite and infinite words: the reference for everything that works on formulas |
| `Expand`, `ExpandRun` | the evaluators of `expand.c`, with a direct semantics of the high-level language as reference; the staged transaction around them, for any evaluators |
| `Normalize`, `TlsfNorm` | rule table, schedules, gate and passes of `normalize.c`; the run of the normalisation tool around them |
| `Rewrite`, `RewriteRun` | `nnf.c` and the local rules of `rewrite.c`; their fixpoint driver |
| `SpecAnalysis` | cover, GR level, the two prechecks, elimination of defined outputs, clusters, dropped assumptions with the witness search, the games and the report |
| `DpaFormula`, `DpaRun` | the formula algebra of `dpa_formula.c`; components, breakpoints, Zielonka tree, rows on demand, Buchi monitors, formula records and equality |
| `DpaTable` | the interning tables of `dpa.c`: probing, hash collisions, growth record by record with limits striking in between, the byte account; the abstract interner they implement |
| `Gr1Reduction` | `tlsf_gr1_reduce_v1`: admission, monitors, quotients, budgets, exact and strict games |
| `LiftWindow`, `LiftRoute` | the window search over seed instances; preparation, phases, fallbacks and checks of the three lifting calls |
| `*Proofs` | theorems about the module they extend |
| `MC*` | the instances that TLC checks. `MCOperations`, `MCExports`, `MCDpa` and `MCFormulas` hold several machines of which a behaviour runs one; the others rest |

How code became actions:

* A BDD is the set of valuations it accepts. A wrapped operation is one choice
  from `RunGuard!Outcomes`: success, a full table, a limit reached, or an
  invalid operand. A phase of a solver that performs many operations is one
  action that either completes or fails with any guard such a sequence can
  leave; the loops over rounds, goals, assumptions and levels are actions of
  their own. `OxiddRun` justifies the choice: `GuardRefinement` proves that the
  operation layer implements it.
* The node table of `OxiddRun` counts live and dead nodes. The external
  manager is assumed to fail an operation exactly when the nodes it needs do not
  fit, and to collect everything that is dead or, when another collector is
  active, nothing.
* Handles that the code releases are modelled where a property depends on
  them: the map of `BuildRoots`, the substitution of `SafetySolver`.
* Skolemisation in `Gr1Solver` is modelled by what it computes, the greatest
  move of a relation; in `SafetySolver` step by step.
* In `Gr1Check` each premise of a certificate, each counter mode and each step
  of a fixpoint is an action; each has a twin in which an operation or an
  allocation fails. A limit strikes at any time (`Strike`) and stays struck: the
  code looks at it again and again and relies on the answer not changing, which
  a deadline guarantees and a cancellation callback has to. That the artifacts
  parse and their names and arities fit is one flag of the request.
* The renames and removals of `PublishExports` are atomic and each may fail. A
  crash needs no action: what must survive it is stated as an invariant of
  every state. That `access` fails for a file that exists is left out.
* `CappedExport` computes modulo SIZE_MAX + 1.
* A formula is a tuple headed by its kind. Passes, rules and evaluators are
  recursive operators; a step of `TlsfNorm` applies a pass to a section, of
  `RewriteRun` one bottom-up pass, of `ExpandRun` one parameter, bus or formula.
  The meaning they are compared with (`Sat` in `Formula`, `Means` in
  `Expand`) is defined on words, by fixpoints over positions, and shares
  nothing with the transformations.
* In `DpaRun` a BDD class is a Boolean function of atoms with its support. The
  hash-consed operands of a connective are a set; the order of BDD variables is
  left open. An automaton row is one action, asked for in order or in any order.
* A conjunct of `Gr1Reduction` comes with its automaton: the construction of
  automata is the subject of `DpaRun`.
* In `LiftRoute` the reduction, the solvers, the checker and the learning of
  schemata are external and may give any result they can give; what is modelled
  is what the code does with every such result, in which phase and under which
  deadline. Test hooks, which may change the target between two checks, are
  actions, and so is an exception of the host (`Throw`), possible wherever a call
  is at work. For a failure found by the search of a window, `hard` holds the
  cause the search reports; a first cause hidden behind a later one is followed
  in preparation and in the handler.
* `SpecAnalysis` is a chain of calls: each action is one of them, and what it
  computes is an operator over the formulas of the specification.

What the models leave out: tracing, timing and cost reports; the text of
certificates and sidecars; AIGER parsing and printing; OxiDD's threads other
than its collector; memo tables; statistics, except where control depends on
them (obstacle counts in `Normalize`, the counters a second lifting call reads).

Behaviours of the code the models made explicit:

* A stop or failure met while compiling next functions that the verdict no
  longer needs can be left on record beside REALIZABLE (demand mode without
  controllable inputs or without latches); `FailureReport` states exactly this
  case. The strategy is right.
* A null game, a session without variable numbers left, and a GR(1) game
  without a justice record end in ERROR with no failure recorded when the
  caller did not ask for exports.
* A constant operand decides a gate although its other operand could not be
  made (`BuildRoots`): the result is right and the guard has failed.
* In demand mode the phases alternate in each round, so the distance that
  `next_gc` keeps starts anew; `PressureSpacing` holds within a phase.
* `tlsf_gr1_check` refuses a reachability that a limit cut short only because it
  asks for the limit a second time; and it never asks while it checks an
  environment's certificate, which then runs past its deadline. The report that
  follows asks again, so no verdict is late.
* The undo of a publication ignores its system calls' results. The backup is
  kept in that case, so nothing is lost, but paths may not be as before.
* `--no-finally` writes `F a` as `true U a` (`tlsf2ltl/main.c:53`) and the
  simplification folds `true U a` to `F a`: with both on, rewriting oscillates
  until the pass cap. Every pass keeps the meaning.
* The validation of a specification lets `X[!n]` through under infinite-word
  semantics (`spec.c:430`, `spec.c:518`) although it rejects `X[!]`.
* Element 1 of bus `a` gets the name `a_1`, which a scalar may already have
  (`expand.c:1159`). Names are structured in the models, so this clash does not
  occur there.
* The header of the lifting interface says a call empties its statistics
  (`gr1_lift.h:52`); a second call on a prepared target does not, and the
  integrity test at `gr1_lift.cc:3331` then declines a good system candidate.
  The direct solve still gives the right answer (`FallbackReached`).
* The handler around the seed routes of a combined call is for failures of the
  library (`gr1_lift.cc:3437`). Memory of the host that runs out in a seed route,
  or any other exception, ends the call with LIMIT or ERROR and without the direct
  solve (`Throw`). So does metadata of a target or seed that does not bind to the
  source and the game: the environment run reports it like a changed target
  (`gr1_env_lift.cc:2583`) and the handler hands that on (`gr1_lift.cc:3440`).
  `FallbackReached` names these cases.

Two disagreements between documentation and code are runs of their own
(`norm_strong`, `norm_weak`):

* every indexed next that a pre-expansion pass rebuilds loses its strong flag
  (`normalize.c:668`), so under finite words `X[!n] p` becomes `X[n] p`, against
  the claim that these rules are equivalences there;
* `node_eq` reads quantifiers and indexed nexts as binary nodes
  (`normalize.c:1418`), so `pre-weak` takes two different quantifiers for equal
  and drops one.

## 3. Runs

| Run | Shows | Bounds and why they suffice |
|---|---|---|
| `operations` | `GenuineExhaustion`, `PressureSpacing`, refinement of `RunGuard` (`Promise`); `OperandsHeld`, `HandlesCorrect` | 200-node table (1% is 2 nodes, so both waits of `collect` occur), operations of 1, 80 and 160 nodes; `MaxOps` = 6 bounds operations, `MaxGc` = 3 phase changes. Circuits: two leaves, three gates with shared, repeated, complemented and constant fanin, six root lists (one with a literal outside the circuit), every set of seeded inner gates |
| `safety_loop` | `VerdictSound`, `SubstitutionCovers`, `FailureReport`, refinement of `SafetyPromise` (`Promise`), termination | two latches, one environment and two controllable inputs, 200 games of five next functions and four unsafe predicates, one with an uninitialised latch; every option; a failure at every phase |
| `gr1_loop` | `DualIsComplement`, `HonestReport`, `Certified`, `StrategySafe`, `WinnerWins`, termination | three states, one input of each side, 288 games of one or two goals and none to two assumptions, with and without unsafe rounds, and games with an empty goal, without goals or with an unknown reset |
| `exports` | `CrashSafe`, `AllOrNothing`; `BufferSound`, `RefusedForSize` | the code's four files, each requested or not, existing or not; size_t up to 63, first capacity 4, limits below the first capacity, between powers of two, and at the end of the range |
| `gr1_check` | `VerdictSound` (which includes that the methods agree), `FailClosed` (which includes that no verdict rests on the speculative pass), termination | nine games of three states with one or two goals and none to two assumptions; policies that are right, that forget a mode, advance their counter early, late or never; certificates of one to three levels and one for each premise that can fail; every method; a limit or a failure at every step |
| `policy_loop` | `RegionKept`, `RanksDescend`, `AcceptedWins` | the same policies and certificates, those that are accepted; certificates with several levels of both kinds are among them |
| `reduction` | `FailsClean`, `ObjectivePreserved` | one input and one output; assumptions and guarantees of every class in all combinations, exact and strict, with rejecting traps, transient states, a contract that is broken and conjuncts admitted generally or not at all; budgets of 0 to 5 of each kind, also tightened while the call runs; plays of the game for ever |
| `formulas` | `SectionEquivalent`; `RewriteEquivalent`; `ExpansionExact`, `StagedUntilPublished`; `AnalysisTruthful`, `VerdictRight`, `SplitFaithful` | formulas over two names chosen so that every pass, rule and evaluator fires; finite words up to 3 letters and lassos up to 2 (3 over one name); schedules of every phase, repeated twice (`RepeatCap`), growth caps of 0 and 200 percent; every single rule and common combinations; memory running out at every step of an expansion; specifications of up to three inputs and two outputs, realizable or not at the first round, of each GR level, with one or two games, definitions in every section, cycles of definitions and assumptions that can and cannot be dropped. `AnalysisWords` are all finite words and lassos of two letters; over more than three names only the lassos that repeat from the start |
| `dpa` | `AnswersTrue`; `Findable` | formulas of the proved fragment and beyond it, equalities that hold and that do not, formula records with and without a cycle, a state cap; all lassos of up to three letters over two names. Tables of six keys with colliding slots and equal tags, first capacity 2 and a budget of 30 units, so that tables grow twice, growth fails for the budget and for a stop, and a stop strikes with the new index half filled |
| `lift` | `SealedProof`, `HonestStop`, `FallbackReached` | buses of 2 to 6 stations as families: regular, symmetric, without a signature, with one size that fails, with parameters in the wrong place; the three calls, both sides, one or two calls per target, with and without deadlines |
| `norm_strong`, `norm_weak` | violations of `SectionEquivalent` (section 2) | single formulas with `X[!n]`, and with two quantifiers |

Type invariants that are proved (section 4) are not repeated in the runs, nor
are theorems such as `FailureIsFinal`.

Every property has a mutant in `PROJECT.json`: a definition of the model
replaced by a plausible mistake, under which TLC finds the property violated.

`CHECK_DEADLOCK FALSE` is set because every model ends: a solve returns, an
export is closed, a formula has been rewritten. For the solvers and the checker
termination is stated as a property instead.

Fairness: the solvers are single sequential functions, so weak fairness of
their next step says only that the process is scheduled. In `Gr1Loop` the rounds
of the closed loop are weakly fair too, because a play is infinite by
definition; the moves within a round are not. `Gr1Check` is one sequential
function like the solvers, the limits that strike are not fair; `PolicyLoop`
plays for ever like `Gr1Loop`, and so does the game of `Gr1Reduction` once the
reduction has produced it. The other models are checked for safety only. Their
loops are bounded in the code itself (pass caps, budgets, finite lists), and the
buffer's doubling is covered by `BufferSound`, since the target doubles up to a
maximum that suffices.

What bounded words can show: two formulas of this size that differ, differ on a
short lasso or finite word in all cases met, and each mutant does; it is not a
proof of equivalence for longer words.

## 4. Proofs

`OperationsProofs`, for every table size, threshold, waits, needs and bounds with
ShortWait <= LongWait: `RunTyping`; `Accounting`, which is inductive with
`TypeOK`; `Finality` and `GuardRefinement` from it (a guard fails exactly when a
failure is on record, and nothing runs after it); `Exhaustion` from
`RetryIsClean`, that no garbage is left before the second attempt unless another
collector was active; `Spacing` from `SpacingInv`, that `next_gc` is at least the
short wait past the phase's last collection.

`SafetySolverProofs`, for all sets of games, latches and inputs: `Typing`;
`VerdictSoundness` and `SubstitutionCoverage` from `VerdictInv`. The verdict is
not inductive alone. The strengthening says that `Z` contains every set in which
the controller can stay (`Overapproximates`: true of the whole state space, and
kept by a round because such a set is inside its own controllable predecessor),
that the substitution covers all compiled functions, and that `winning` and
`unreal` are set only where `Z` is itself such a set, or no longer holds the
reset state. `ReportFitsVerdict` needs `ReportInv`, which says for each phase
which failures can be on record beside which result. `LoopKeepsPromise` is the
refinement of `SafetyPromise` by the solver and its controller in the loop:
`SkolemInv` says that the relation with the Skolem functions found so far put in
for their inputs never runs out of moves in `Z`, so the functions found at the
end choose a move that stays in `Z` (`StrategyStays`), and `LoopInv` that the
strategy's latches follow the game's and the game stays in `Z`.

`OperationsProofs` too, for every circuit whose gates read lower variables only,
which the code relies on too (`CircuitAssumption`; `oxidd_common.c` 559: "The
reader and AIG builder guarantee topological gate order"):
`OperandsHeldAlways` and `HandlesCorrectAlways` from `BuildInv`. The use count of
a variable is exactly the number of readers still to come (`UsesExact`, as a
cardinality of the pairs of a gate or root and its operand), an operand is held
while it has one, what is held is counted in `retained`, and a handle is the
function of its variable. What a circuit denotes is a recursive function; that
it satisfies its equation follows from the existence of a solution, which is
shown by taking the least gate up to which there would be none.

`Gr1SolverProofs`, for all games with any finite numbers of goals, assumptions
and moves and any caller's options: `ReportIsHonest`, `DualExact`, `ExportsPass`
(what is exported meets the checker's obligations) and `StrategyKeepsRegion`.
The invariant has a part for each thing the solver builds. `ReportInv`: which
failures go with which phase. `FixInv`: the sets of the three nested loops lie
between the least and greatest solutions they approach. Those are intersections
and unions of pre- and post-fixpoints, so nothing is assumed about the number of
states; `Win` is the greatest outer set, and the dual loop is the same loop on
complements. `LevelInv`: the stored levels are the ones of the last outer round,
each computed from the one before. `StrategyInv`, `OutcomeInv`: the relation read
off the levels has a move for every round in the region, and the Skolem functions
keep to it. `DualInv`: the same for the recorded levels of the dual and the
counter-strategy. `PlayInv`: the play is inside the region of the winner and the
counter is one-hot or zero. A state's first level exists and is unique because a
non-empty set of naturals has a least element.

`LiftRouteProofs`, for all jobs and families of the interface's types
(`JobsAssumption`, `FamiliesAssumption`: a size below the parameter's value
reduces, or fails as `lower` does): `AcceptedIsSealed`, `StopsAreHonest` and
`DirectIsTried` from `RouteInv`. Its parts: which phases belong to which call;
that the target is absent, as sealed, changed or swapped; that a failure on its
way is a decline exactly when nothing harder was met, and a deadline or a
cancellation only if that has struck; that a candidate belongs to the bytes it was made from, and is
marked only by a check that hashed the same bytes; that a combined call that
fails tried the direct solve or has an excuse (the caller's stop, an exception of
the host, a target that changed, is not exact or does not bind, a checked proof
that cannot be handed out; each is needed, TLC finds a violation without any one
of them). The window searches are written in
closed form (the first size, or first failing one, with the work done up to it)
and not as loops, since the lemmas about what they can fail with need the least
size that fails and no recursion.

`AtomicityProofs` holds three results of one kind: nothing is left half done.

* Exports, for any number of files: `CrashSafety` and `Atomicity` from
  `TypeOK` and `Progress`, which says for each phase and position what every
  file's path, temporary and backup hold. For every SIZE_MAX, first capacity and
  limits: `BufferSafety`, inductive with the type invariant and the bound of the
  capacity, and `RefusalJustified` from `RefusalFinal`: a failure is the last
  thing that happens to the buffer before it is closed, so the size and the count
  that the refusal was about are still there.
* Interning tables, for every set of keys, every hash and tag, every first
  capacity and budget (`TableAssumption`): `InternedFindable`, `BytesAccounted`
  and `TableImplementsInterner`, all from `TableInv`. Its core is `Indexes`: every
  record occurs in the index once, and every slot probed before it is occupied, so
  that a search cannot stop too early. An insertion keeps this for all older
  records because it only fills an empty slot. That there is one is a count: the
  records are fewer than the slots (`EmptySlot`); that a search meets it is
  arithmetic: probing reaches every slot (`Reached`). While a new index is filled,
  it indexes the records copied so far, the old one still indexes all of them, and
  both are in the byte account (`Held`); so a stop in between loses nothing.
  `TableInv` also says that the record an insertion is about has no identifier yet,
  which makes the tables implement the abstract `Interner`.
* Expansion, for every set of specifications and any two evaluators:
  `ExpansionStaged` from `ExpandInv`, which tracks the ids this call has written
  into nodes it does not own; `FormulasExpanded` from `FormulasInv`: the formulas
  before the current one are results of the evaluator for the given formulas at
  their places, in the given definitions and scalars and the final parameters, and
  the others are as given. Assumed is what a specification is (`SpecsAssumption`).
  What the evaluators of `Expand` compute is not part of these theorems.

`PolicyLoopProofs`, for all games, policies and certificates of either side:
`LoopTyping`, `RegionSoundness`, `RankSoundness`, `DualRankSoundness` and
`RankingSoundness`. The invariant is the region itself, with the acceptance of
the policy. The ranks need more than the obligations say: that a state of the
region has a least rank at all, and that the outer levels of the dual lie in the
region. Both are inductions over levels and are obtained from the least element
of a set of naturals. Assumed of the candidates is what the checker validates
before it compiles: arities, and at least one level each (`CandidatesFit`).

`Gr1CheckProofs`, for all games over finite sets of states and all requests:
`ReportsFailClosed` from `RunInv`, which adds to the types and to `FailClosed`
itself what each phase may rely on (`PhaseInv`: the arguments fit once the
artifacts are read, they are well formed once they are compiled, the modes are
counted from zero) and what is on record for the caller (`ReportInv`: nothing
before the end, and a code against a policy only from a pass that is not
repeated). Assumed of a request is what the checker validates before it compiles
(`CheckConstants`): readable artifacts fit the game in arities and numbers of
levels.

`Gr1CheckProofs` too: `VerdictsSound`, that no verdict is wrong and the two
methods never disagree, from `VerdictInv` with `RunInv`. What a verdict means is
defined by paths and cycles, not by the fixpoints of the code: `Loses` by a
reachable bad round or a cycle, `Winning` by least and greatest solutions. The
facts about them come first: `ReachedFrom` is the least closed set (its waves settle because the set is finite), and a cycle that
meets given sets exists exactly where there is a non-empty core, a set from whose
states one can go on inside and come back to each of the sets. The parts of
`VerdictInv`:

* `SearchInv`: while the closed loop is explored, `reach` is reachable; then it is
  everything reachable. In the Emerson-Lei loops, `z` and `newZ` hold every core,
  and `newZ` after `fi - 1` sets lies in what can meet each of them and `z` again
  (`Meets`), `y` in what can meet the next. Hence an empty `z` means no cycle, and
  a settled one is a core. What was searched before, assumptions or goals, has no
  cycle (`Cleared`).
* `CertInv`: the premises and modes passed so far hold, and `proof` is VERIFIED
  only of a request that is `Proved`. For the system (`SystemSound`): along a cycle
  without goal j the counter cannot come nearer to j, so it stays; then the rank
  cannot fall for ever, so the cycle stays outside the assumption of its least
  rank. For the environment (`EnvironmentSound`): the outer level and the goal
  denied never rise and the goal is missed, so no cycle meets every goal; along a
  cycle on which an assumption fails the counter stays, and the inner rank would
  fall for ever. For a region (`RegionSound`): the certified set is a solution of
  the equation of which the winning region is the greatest.
* `LoopInv`, `OutcomeInv`: what is on record from the loop, in the exit code and in
  the verdict is so.

`Gr1ReductionProofs`, for all requests, budgets and automata whose states were
interned as they were found (`ReductionConstants` with `Found`):
`FailuresAreClean` from `RunInv`, which `FailsClean` is a part of. `WorkInv`: before
the end the work counted fits every budget and is the number of states of the
finished monitors; it survives a callback that tightens the budget because that
happens before anything is counted. `RowInv`: when the last row of a monitor has
been expanded, its size fits what is left of both state budgets, and its edges what
is left of theirs, so that finishing it cannot pass one. `CapFacts`: one state more
than what is left passes one of the two budgets, which is what a failure counts.
`PartsInv`: the parts handed out are the first ones.

Only model-checked: all liveness (`Terminates`, `WinnerWins`, `AcceptedWins`,
`ObjectivePreserved`), which is out of TLAPS's reach under fairness; and what is
said of formulas and automata: `SectionEquivalent`, `RewriteEquivalent`,
`ExpansionExact`, `AnalysisTruthful`, `VerdictRight`, `SplitFaithful` and
`AnswersTrue`. The operators behind these are recursive over syntax trees, and what
a recursive definition computes for every input needs induction over data, which
the backends of TLAPS cannot do.

## 5. What is left

Every safety property that does not rest on induction over syntax is a theorem.
The next ones would be of parts not modelled yet.

Not modelled, and why:

* schema learning and instantiation of the lifts (`gr1_lift.cc` 1107-2184, most
  of `gr1_env_lift.cc`): guesses that are all re-checked; `LiftRoute` lets them
  give anything. The property that matters, that a wrong guess cannot get
  through, is `SealedProof` with `VerdictSound` of the checker;
* the certifiers of `templates_certify.c` other than the one for definitions,
  their Skolem values and the second phase of `csnf_compose`; the normalisation
  of a cover before templates are matched (`cover_match_normalize`) and the
  adaptation of Mealy specifications to Moore targets and back
  (`spec_adapt_target`);
* the JSON sidecars and the symbol map of the reduction; names and counts in
  the sidecars of policies; counterexamples and emitted controllers of the
  checker;
* `tlsfcompose`, which runs the modelled pieces in a chosen order, starts
  external solvers and merges circuits; `aiger.c` and `mealy2moore`, whose
  circuits are fixed formulas;
* variable ordering (any order is right), memo tables (caches without a bound),
  the parser, printers, hashing, command lines, scripts, benchmarks and the Lean
  development under `proofs/`.
