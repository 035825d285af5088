---------------------------- MODULE Gr1Reduction ----------------------------
(***************************************************************************)
(* tlsf_gr1_reduce_v1 (gr1_reduction.cc): a specification, lowered to      *)
(* conjuncts of assumptions and guarantees, becomes a GR(1) game with one  *)
(* monitor per conjunct, each a block of one-hot latches.  Monitors are    *)
(* expanded state by state within budgets; limits strike anywhere.         *)
(*                                                                         *)
(* A conjunct is [assumption, name, nodes, depth, dba, klass, admission,   *)
(* flaw]: its size for the structural budget, the automaton dpa_buchi      *)
(* makes of it, the grammatical class it reports, whether it is admitted   *)
(* by default, only by the general construction, or not at all, and        *)
(* whether the automaton breaks its contract.                              *)
(***************************************************************************)
EXTENDS Naturals, Sequences, FiniteSets

-----------------------------------------------------------------------------
(***************************************************************************)
(* What gr1_reduction.cc computes about one monitor: a complete            *)
(* deterministic Buchi automaton with state-based acceptance, made from a  *)
(* conjunct of the specification.  States are 1..n in the order in which   *)
(* they were found, 1 is initial; succ maps a state and a letter.          *)
(***************************************************************************)
CONSTANT Letters   \* valuations of the signals

StatesOf(a) == 1..a.n
Targets(a, s) == {a.succ[<<s, l>>] : l \in Letters}

\* The states from which T is reached, T included.
BackwardClosure(a, T) ==
  LET B[k \in 0..a.n] ==
        IF k = 0 THEN T
        ELSE B[k - 1] \cup {s \in StatesOf(a) : Targets(a, s) \cap B[k - 1] # {}}
  IN B[a.n]

\* s lies on a cycle inside S.
OnCycle(a, S, s) ==
  LET From[k \in 0..a.n] ==
        IF k = 0 THEN Targets(a, s) \cap S
        ELSE From[k - 1] \cup UNION {Targets(a, t) \cap S : t \in From[k - 1]}
  IN s \in From[a.n]

\* rejecting_states: the states that cannot reach a cyclic component with an
\* accepting state.
RejectingStates(a) ==
  StatesOf(a) \ BackwardClosure(a,
    {s \in StatesOf(a) : \E t \in a.acc :
       /\ OnCycle(a, StatesOf(a), t)
       /\ s \in BackwardClosure(a, {t}) /\ t \in BackwardClosure(a, {s})})

\* rejecting_cycle: the non-accepting states, or those of them that still have
\* an accepting continuation, do not sort topologically.
RejectingCycle(a, rejecting, liveOnly) ==
  LET included == {s \in StatesOf(a) \ a.acc : ~liveOnly \/ s \notin rejecting}
  IN \E s \in included : OnCycle(a, included, s)

\* The monitor's language, where it is constant.
Constant(a) ==
  IF 1 \in RejectingStates(a) THEN "ff"
  ELSE IF ~RejectingCycle(a, {}, FALSE) THEN "tt" ELSE "none"

SafetyClasses == {"B", "S"}

\* The class the monitor is given: B where its language is constant, and under
\* strict semantics a safety class wherever the language is safety.
ClassOf(a, klass, strict) ==
  LET k == IF Constant(a) = "none" THEN klass ELSE "B"
  IN IF strict /\ ~RejectingCycle(a, RejectingStates(a), TRUE)
     THEN IF k = "B" THEN "B" ELSE "S"
     ELSE k

\* A safety tag on a language that is none is found under strict semantics only.
TagDisagrees(a, klass, strict) ==
  /\ strict /\ RejectingCycle(a, RejectingStates(a), TRUE)
  /\ ClassOf(a, klass, strict) \in SafetyClasses

\* The rejecting region of a safety monitor is never left.
Sticky(a) ==
  \A s \in RejectingStates(a) : Targets(a, s) \subseteq RejectingStates(a)

\* The states were interned one by one, each but the first as a successor.
Found(a) ==
  /\ a.n \in Nat \ {0} /\ a.succ \in [StatesOf(a) \X Letters -> StatesOf(a)]
  /\ \A t \in StatesOf(a) \ {1} : \E s \in StatesOf(a) : s < t /\ t \in Targets(a, s)

-----------------------------------------------------------------------------
CONSTANTS Requests,
          StopKinds,    \* what may end the call from outside
          WordMax       \* UINT64_MAX

ASSUME ReductionConstants ==
  /\ WordMax \in Nat
  /\ StopKinds \subseteq {"CANCELLED", "DEADLINE", "LIMIT", "ERROR"}
  /\ \A r \in Requests :
       /\ r.semantics \in {"EXACT", "STRICT"}
       /\ {r.occupied, r.arguments, r.snapshot, r.mealy, r.declared} \subseteq BOOLEAN
       /\ r.maxMonitorStates \in Nat /\ r.tighten \subseteq Nat
       /\ r.budget \in [maxConjuncts : Nat, maxPredicted : Nat, maxTotalStates : Nat,
                        maxTotalEdges : Nat]
       /\ DOMAIN r.conjuncts = 1..Len(r.conjuncts) /\ Len(r.conjuncts) \in Nat
       /\ \A i \in DOMAIN r.conjuncts : Found(r.conjuncts[i].dba)

Parts == <<"game", "aag", "metadata", "provenance", "symbol_map">>

VARIABLES req, pc,
          budget,     \* read live: a statistics callback may tighten it
          work,       \* TlsfGr1ConstructionWork: states, edges, monitors
          k, row,     \* conjunct being made, its next row
          seen,       \* edges of its rows so far
          monitors,   \* finished monitors
          result,     \* parts of the result that are set
          status, failure

call == <<req, budget>>
expansion == <<work, k, row, seen, monitors>>
vars == <<call, pc, expansion, result, status, failure>>

Strict == req.semantics = "STRICT"
Conjunct == req.conjuncts[k]
Least(a, b) == IF a <= b THEN a ELSE b

\* UINT64 subtraction that stops at zero, and saturating addition.
Less(a, b) == a - Least(a, b)
Saturate(a) == Least(a, WordMax)

Init ==
  /\ req \in Requests /\ budget = req.budget
  /\ pc = "enter" /\ work = [states |-> 0, edges |-> 0, completed |-> 0]
  /\ k = 1 /\ row = 0 /\ seen = 0 /\ monitors = << >>
  /\ result = IF req.occupied THEN {"game"} ELSE {}
  /\ status = "none" /\ failure = "OK"

\* Every throw is caught: the result is cleared and both codes are set.
Fail(code, cause) ==
  /\ pc' = "done" /\ result' = {} /\ status' = code /\ failure' = cause

\* An occupied result, or an argument missing: refused, the result untouched.
Invalid ==
  /\ pc = "enter" /\ (req.occupied \/ ~req.arguments)
  /\ pc' = "done" /\ status' = "INVALID" /\ failure' = "INVALID"
  /\ UNCHANGED <<call, expansion, result>>

\* Limits.check, an artifact over its cap, or a failed allocation.
Interrupted(kind) ==
  /\ pc \notin {"enter", "done"} /\ kind \in StopKinds
  /\ Fail(kind, kind) /\ UNCHANGED <<call, expansion>>

Enter ==
  /\ pc = "enter" /\ ~req.occupied /\ req.arguments
  /\ pc' = "source" /\ UNCHANGED <<call, expansion, result, status, failure>>

\* The snapshot's hash, the semantics and the signal names.
SourceRefused ==
  /\ pc = "source"
  /\ \/ ~req.snapshot /\ Fail("INVALID", "INVALID")
     \/ req.snapshot /\ ~req.mealy /\ Fail("UNSUPPORTED", "UNSUPPORTED")
     \/ req.snapshot /\ req.mealy /\ ~req.declared /\ Fail("UNSUPPORTED", "ERROR")
  /\ UNCHANGED <<call, expansion>>

\* precheck: nodes times two to the temporal depth, summed without wrapping.
Estimate(c) == Saturate(c.nodes * 2^Least(c.depth, 20))
Predicted ==
  LET P[i \in 0..Len(req.conjuncts)] ==
        IF i = 0 THEN 0 ELSE Saturate(P[i - 1] + Estimate(req.conjuncts[i]))
  IN P[Len(req.conjuncts)]
OverStructure ==
  \/ budget.maxConjuncts # 0 /\ Len(req.conjuncts) > budget.maxConjuncts
  \/ budget.maxPredicted # 0 /\ Predicted > budget.maxPredicted

\* The first stage ends, and with it the statistics callback may tighten the
\* budget.
Precheck(tighter) ==
  /\ pc = "source" /\ req.snapshot /\ req.mealy /\ req.declared
  /\ \/ /\ OverStructure /\ Fail("LIMIT", "LIMIT") /\ UNCHANGED call
     \/ /\ ~OverStructure /\ pc' = "monitor"
        /\ budget' = [budget EXCEPT !.maxTotalStates = tighter]
        /\ UNCHANGED <<req, result, status, failure>>
  /\ UNCHANGED expansion

Tighter ==
  {budget.maxTotalStates} \cup
  {n \in req.tighten : budget.maxTotalStates = 0 \/ n < budget.maxTotalStates}

-----------------------------------------------------------------------------
\* make_monitor: what is left of both state budgets; zero means no total one.
Cap ==
  LET own == Less(req.maxMonitorStates, work.states)
  IN IF budget.maxTotalStates = 0 THEN own
     ELSE Least(Less(budget.maxTotalStates, work.states), own)

\* The excluded state is not counted.
CountMaterialised(s, e) ==
  work' = [work EXCEPT !.states = Least(@ + s, req.maxMonitorStates), !.edges = @ + e]

Count(s, e) ==
  work' = [work EXCEPT !.states = @ + s, !.edges = @ + e]

\* The excluded initial state is counted as needed.
Exhausted ==
  /\ pc = "monitor" /\ k <= Len(req.conjuncts) /\ Cap = 0
  /\ Count(1, 0) /\ Fail("LIMIT", "LIMIT")
  /\ UNCHANGED <<call, k, row, seen, monitors>>

\* dpa_buchi_create, tried again with allow_unproved when it is unsupported.
CreateFails ==
  /\ pc = "monitor" /\ k <= Len(req.conjuncts) /\ Cap > 0
  /\ Conjunct.admission = "none" \/ Conjunct.klass \notin {"B", "G", "S", "O", "R"}
  /\ Fail("UNSUPPORTED", "UNSUPPORTED") /\ UNCHANGED <<call, expansion>>

Create ==
  /\ pc = "monitor" /\ k <= Len(req.conjuncts) /\ Cap > 0
  /\ Conjunct.admission \in {"default", "general"}
  /\ Conjunct.klass \in {"B", "G", "S", "O", "R"}
  /\ pc' = "expand" /\ row' = 1 /\ seen' = 0
  /\ UNCHANGED <<call, work, k, monitors, result, status, failure>>

\* States interned once rows 1..r are expanded, and the edges of row r.
Discovered(a, r) ==
  LET seenStates == {1} \cup UNION {Targets(a, s) : s \in 1..r}
  IN CHOOSE m \in seenStates : \A s \in seenStates : s <= m
Edges(a, r) == Cardinality(Targets(a, r))

\* A new state would pass the cap: it is not interned, but counted.
RowOverStates ==
  /\ pc = "expand" /\ row <= Conjunct.dba.n
  /\ Discovered(Conjunct.dba, row) > Cap
  /\ Count(Cap + 1, seen) /\ Fail("LIMIT", "LIMIT")
  /\ UNCHANGED <<call, k, row, seen, monitors>>

OverEdges(total) ==
  budget.maxTotalEdges # 0 /\ total > Less(budget.maxTotalEdges, work.edges)

RowOverEdges ==
  /\ pc = "expand" /\ row <= Conjunct.dba.n
  /\ Discovered(Conjunct.dba, row) <= Cap
  /\ OverEdges(seen + Edges(Conjunct.dba, row))
  /\ Count(Discovered(Conjunct.dba, row), seen + Edges(Conjunct.dba, row))
  /\ Fail("LIMIT", "LIMIT")
  /\ UNCHANGED <<call, k, row, seen, monitors>>

ExpandRow ==
  /\ pc = "expand" /\ row <= Conjunct.dba.n
  /\ Discovered(Conjunct.dba, row) <= Cap
  /\ ~OverEdges(seen + Edges(Conjunct.dba, row))
  /\ seen' = seen + Edges(Conjunct.dba, row) /\ row' = row + 1
  /\ UNCHANGED <<call, pc, work, k, monitors, result, status, failure>>

\* Labels that do not partition the letters, acceptance that is not of states,
\* a safety tag that the language contradicts.
ContractBroken ==
  /\ pc = "expand" /\ row > Conjunct.dba.n
  /\ Conjunct.flaw \/ TagDisagrees(Conjunct.dba, Conjunct.klass, Strict)
  /\ Fail("UNSUPPORTED", "ERROR") /\ UNCHANGED <<call, expansion>>

Monitor(c) ==
  [assumption |-> c.assumption, dba |-> c.dba,
   klass |-> ClassOf(c.dba, c.klass, Strict),
   rejecting |-> RejectingStates(c.dba),
   formula |-> IF Constant(c.dba) = "none" THEN c.name ELSE Constant(c.dba)]

\* append: the finished monitor is counted.
FinishMonitor ==
  /\ pc = "expand" /\ row > Conjunct.dba.n
  /\ ~Conjunct.flaw /\ ~TagDisagrees(Conjunct.dba, Conjunct.klass, Strict)
  /\ Monitor(Conjunct).klass \in SafetyClasses => Sticky(Conjunct.dba)
  /\ work' = [states |-> work.states + Conjunct.dba.n,
              edges |-> work.edges + seen, completed |-> work.completed + 1]
  /\ monitors' = Append(monitors, Monitor(Conjunct))
  /\ k' = k + 1 /\ pc' = "monitor"
  /\ UNCHANGED <<call, row, seen, result, status, failure>>

\* encode, then the texts are written and one after another handed out.
Encode ==
  /\ pc = "monitor" /\ k > Len(req.conjuncts)
  /\ pc' = "publish" /\ UNCHANGED <<call, expansion, result, status, failure>>

PublishPart ==
  /\ pc = "publish" /\ Cardinality(result) < Len(Parts)
  /\ result' = result \cup {Parts[Cardinality(result) + 1]}
  /\ UNCHANGED <<call, pc, expansion, status, failure>>

Finish ==
  /\ pc = "publish" /\ Cardinality(result) = Len(Parts)
  /\ pc' = "done" /\ status' = "OK" /\ UNCHANGED <<call, expansion, result, failure>>

Next ==
  \/ Invalid \/ Enter \/ SourceRefused
  \/ \E kind \in StopKinds : Interrupted(kind)
  \/ \E tighter \in Tighter : Precheck(tighter)
  \/ Exhausted \/ CreateFails \/ Create
  \/ RowOverStates \/ RowOverEdges \/ ExpandRow
  \/ ContractBroken \/ FinishMonitor \/ Encode \/ PublishPart \/ Finish

-----------------------------------------------------------------------------
(***************************************************************************)
(* The reduction, then its game played on every infinite word of letters   *)
(* beside the automata the game encodes: what the game asks of a play      *)
(* against what the specification asks of the word.                        *)
(***************************************************************************)
VARIABLES latches,   \* latches of the game that are 1: <<monitor, state>>
          violated,  \* the latch assumption_safety_violated
          bad,       \* some round so far was bad
          run,       \* the states of the automata themselves
          first      \* which side's safety was lost first, on a tie the assumptions'

playVars == <<vars, latches, violated, bad, run, first>>

Ms == DOMAIN monitors
IsSafety(m) == monitors[m].klass \in SafetyClasses

\* encode: the disjunctions over a monitor's latches.
Accepting(m) == \E s \in monitors[m].dba.acc : <<m, s>> \in latches
Rejecting(m) == \E s \in monitors[m].rejecting : <<m, s>> \in latches

HasViolated == Strict /\ \E m \in Ms : monitors[m].assumption /\ IsSafety(m)
\* The latch alone releases, one round late.
ReleaseLate == HasViolated /\ violated

Release ==
  /\ HasViolated
  /\ violated \/ \E m \in Ms : monitors[m].assumption /\ IsSafety(m) /\ Rejecting(m)

Role(m) ==
  IF Strict /\ IsSafety(m)
  THEN IF monitors[m].assumption THEN "violated" ELSE "bad"
  ELSE IF monitors[m].assumption THEN "fairness" ELSE "justice"

Bad == ~Release /\ \E m \in Ms : Role(m) = "bad" /\ Rejecting(m)

\* A goal is also met once an assumption is broken; released only when strict.
Justice(m) == Accepting(m) \/ Release

\* The next functions: the incoming edges of each latch, and the sticky latch.
NextLatches(letter) ==
  UNION {{<<m, monitors[m].dba.succ[<<s, letter>>]>> :
            s \in {t \in StatesOf(monitors[m].dba) : <<m, t>> \in latches}} :
         m \in Ms}

\* A side has lost when a safety automaton of it cannot accept any more.
Dead(states, assumption) ==
  \E m \in Ms : /\ monitors[m].assumption = assumption /\ IsSafety(m)
               /\ states[m] \in monitors[m].rejecting
Lost(states) ==
  IF Dead(states, TRUE) THEN "assumption"
  ELSE IF Dead(states, FALSE) THEN "guarantee" ELSE "none"

PlayInit ==
  Init /\ latches = {} /\ violated = FALSE /\ bad = FALSE
  /\ run = << >> /\ first = "none"

Solve ==
  /\ Next
  /\ IF pc' = "done" /\ status' = "OK"
     THEN /\ latches' = {<<m, 1>> : m \in Ms} /\ run' = [m \in Ms |-> 1]
          /\ first' = Lost([m \in Ms |-> 1]) /\ UNCHANGED <<violated, bad>>
     ELSE UNCHANGED <<latches, violated, bad, run, first>>

Round(letter) ==
  /\ status = "OK"
  /\ bad' = (bad \/ Bad) /\ violated' = Release
  /\ latches' = NextLatches(letter)
  /\ run' = [m \in Ms |-> monitors[m].dba.succ[<<run[m], letter>>]]
  /\ first' = IF first = "none" THEN Lost(run') ELSE first
  /\ UNCHANGED vars

Play == \E letter \in Letters : Round(letter)

\* The call is one sequential function, and a word is infinite.
PlaySpec ==
  /\ PlayInit /\ [][Solve \/ Play]_playVars
  /\ WF_playVars(Solve) /\ WF_playVars(Play)

-----------------------------------------------------------------------------
MaxMonitors == 4

Has(m, assumption) == status = "OK" /\ m \in Ms /\ monitors[m].assumption = assumption
Seen(m) == run[m] \in monitors[m].dba.acc

\* The specification: if every assumption's automaton accepts, so does every
\* guarantee's.
Assumed == \A m \in 1..MaxMonitors : []<>(Has(m, TRUE) => Seen(m))
Guaranteed == \A m \in 1..MaxMonitors : []<>(Has(m, FALSE) => Seen(m))

\* The objective of the published game.
Objective ==
  /\ []~bad
  /\ \/ \E m \in 1..MaxMonitors : <>[](m \in Ms /\ Role(m) = "fairness" /\ ~Accepting(m))
     \/ \A m \in 1..MaxMonitors : []<>(m \in Ms /\ Role(m) = "justice" => Justice(m))

\* "Exact preserves the lowered implication. Strict is REAL-sound only": a play
\* that meets the exact game's objective is a word of the specification and the
\* other way round; one that meets the strict game's is a word of the
\* specification, and it loses neither words that keep all assumptions nor words
\* whose safety assumptions break first.
ObjectivePreserved ==
  <>(status = "OK") =>
    /\ Objective => (Assumed => Guaranteed)
    /\ Assumed /\ Guaranteed => Objective
    /\ <>(Strict /\ first = "assumption") => Objective
    /\ <>(~Strict) => ((Assumed => Guaranteed) => Objective)

\* "On other failures the result is empty": a failed call hands out nothing, a
\* refused occupied result is left alone, and the budget is honest: what was
\* finished fits it, and a call that a state or edge budget ended counted more
\* work than the budget has.
FailsClean ==
  pc = "done" =>
    /\ status = "OK" <=> failure = "OK"
    /\ status = "OK" =>
         /\ result = {Parts[i] : i \in DOMAIN Parts}
         /\ work.states = Cardinality({p \in Ms \X (1..req.maxMonitorStates) :
                                         p[2] \in StatesOf(monitors[p[1]].dba)})
         /\ work.states <= req.maxMonitorStates
         /\ budget.maxTotalStates # 0 => work.states <= budget.maxTotalStates
         /\ budget.maxTotalEdges # 0 => work.edges <= budget.maxTotalEdges
    /\ status # "OK" => result = IF req.occupied THEN {"game"} ELSE {}
    /\ status = "LIMIT" /\ "LIMIT" \notin StopKinds /\ ~OverStructure =>
         \/ work.states > req.maxMonitorStates
         \/ budget.maxTotalStates # 0 /\ work.states > budget.maxTotalStates
         \/ budget.maxTotalEdges # 0 /\ work.edges > budget.maxTotalEdges
=============================================================================
