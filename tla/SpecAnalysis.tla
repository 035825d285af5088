---------------------------- MODULE SpecAnalysis -----------------------------
(***************************************************************************)
(* What the library computes of an expanded specification before any       *)
(* solver runs: the constraint cover (cover.c, classify.c), the GR level   *)
(* (gr.c), the two one-step prechecks (precheck_unreal.c), and the split   *)
(* of the residual into games with disjoint outputs (residual.c), with the *)
(* environment assumptions a game may do without (env_witness.c).          *)
(*                                                                         *)
(* A specification has its formulas by role, the sets of its inputs and    *)
(* outputs, its semantics and its target.  The templates are those of the  *)
(* mask TPL_DEFINITION; the other certifiers, which a wider mask adds, are *)
(* not modelled.  Resource failures end the code without a result and are  *)
(* left out, except where it goes on: a missing cache and an exhausted     *)
(* witness search.                                                         *)
(***************************************************************************)
EXTENDS Rewrite, SequencesExt

CONSTANTS WitnessAps, WitnessNodes,     \* ENV_WITNESS_MAX_APS, MAX_NODES
          WitnessLength                 \* ENV_WITNESS_MAX_LENGTH

\* The order in which cover_build takes the sections.
Roles == <<"INITIALLY", "REQUIRE", "ASSUME", "PRESET", "ASSERT", "GUARANTEE">>
Assumptions == {"INITIALLY", "REQUIRE", "ASSUME"}
Invariants == {"REQUIRE", "ASSERT"}

RECURSIVE ApsOf(_)
ApsOf(f) == IF Kind(f) = "ap" THEN {f[2]} ELSE UNION {ApsOf(f[k]) : k \in ChildrenAt(f)}

-----------------------------------------------------------------------------
\* The constraint cover.

\* has_liveness, on a formula in negation normal form.
RECURSIVE HasLiveness(_)
HasLiveness(n) == Kind(n) \in {"F", "U", "M"} \/ \E k \in ChildrenAt(n) : HasLiveness(n[k])

\* collect: where each name occurs, below a negation and below a next.
RECURSIVE Occurrences(_, _, _)
Occurrences(n, neg, nxt) ==
    IF Kind(n) = "ap" THEN {[name |-> n[2], neg |-> neg, next |-> nxt]}
    ELSE UNION {Occurrences(n[k], neg # (Kind(n) = "not"), nxt \/ Kind(n) \in {"X", "X!"}) :
                k \in ChildrenAt(n)}

\* An undeclared name counts as an input.
IsInput(sp, a) == a \in sp.inputs \/ a \notin sp.outputs

Constraint(sp, role, f) ==
    LET nnf == ToNnf(f, TRUE, sp.finite)
        occ == Occurrences(nnf, FALSE, FALSE)
        Where(P(_)) == {o.name : o \in {x \in occ : P(x)}}
        Out(x) == x.name \in sp.outputs
    IN  [role |-> role, formula |-> f, nnf |-> nnf, safety |-> ~HasLiveness(nnf),
         inputs |-> Where(LAMBDA x : IsInput(sp, x.name)),
         outputs |-> Where(Out),
         negOutputs |-> Where(LAMBDA x : Out(x) /\ x.neg),
         posOutputs |-> Where(LAMBDA x : Out(x) /\ ~x.neg),
         nextOutputs |-> Where(LAMBDA x : Out(x) /\ x.next),
         curOutputs |-> Where(LAMBDA x : Out(x) /\ ~x.next)]

\* cover_build: the constraints of the sections in order, one per conjunct
\* when split is asked for.
SectionConstraints(sp, role) ==
    LET parts(f) == IF sp.split THEN Decompose(f) ELSE <<f>>
        all == FlattenSeq([k \in DOMAIN sp.sections[role] |-> parts(sp.sections[role][k])])
    IN  [k \in DOMAIN all |-> Constraint(sp, role, all[k])]
CoverBuild(sp) == FlattenSeq([r \in DOMAIN Roles |-> SectionConstraints(sp, Roles[r])])

\* The table of names: the declared signals and what the formulas mention.
ApTable(sp, cov) == sp.inputs \cup sp.outputs \cup UNION {ApsOf(cov[i].nnf) : i \in DOMAIN cov}

OnAssumptionSide(c) == c.role \in Assumptions

-----------------------------------------------------------------------------
\* One formula for a list of entries with roles.  A part that is missing is
\* Absent.

Absent == <<"absent">>
AndOpt(x, y) == IF x = Absent THEN y ELSE IF y = Absent THEN x ELSE And(x, y)
ImplOpt(x, y) == IF y = Absent \/ x = Absent THEN y ELSE <<"impl", x, y>>
GloballyOpt(x) == IF x = Absent THEN x ELSE <<"G", x>>

RECURSIVE ConjOf(_)
ConjOf(fs) == IF fs = <<>> THEN Absent ELSE AndOpt(ConjOf(Front(fs)), Last(fs))

RoleConj(entries, role) ==
    LET here == SelectSeq(entries, LAMBDA e : e.role = role)
    IN  ConjOf([k \in DOMAIN here |-> here[k].formula])

\* section_pattern_to_ltl with safety and liveness both wanted.
PatternLtl(entries, strict) ==
    LET require == RoleConj(entries, "REQUIRE")
        assert == RoleConj(entries, "ASSERT")
        env == AndOpt(GloballyOpt(require), RoleConj(entries, "ASSUME"))
        guarantee == RoleConj(entries, "GUARANTEE")
        safety == IF assert # Absent /\ require # Absent
                  THEN <<"W", assert, Not(require)>> ELSE GloballyOpt(assert)
        promised == IF strict THEN AndOpt(safety, ImplOpt(env, guarantee))
                    ELSE ImplOpt(env, AndOpt(GloballyOpt(assert), guarantee))
        body == AndOpt(RoleConj(entries, "PRESET"), promised)
        root == ImplOpt(RoleConj(entries, "INITIALLY"), body)
    IN  IF root = Absent THEN True ELSE root

\* The sections as they are, for the formula of the whole specification.
SectionEntries(sp) ==
    FlattenSeq([r \in DOMAIN Roles |->
      [k \in DOMAIN sp.sections[Roles[r]] |->
        [role |-> Roles[r], formula |-> sp.sections[Roles[r]][k]]]])

\* Finite words have no weak until and no strong release in the output.
Lowered(root, finite) ==
    IF finite THEN ApplyRewrites(root, {"no_weak_until", "no_strong_release"}, RwCap)
    ELSE root

-----------------------------------------------------------------------------
\* gr_level.

RECURSIVE IsProp(_)
IsProp(n) ==
    \/ Kind(n) \in {"true", "false", "ap"}
    \/ /\ Kind(n) \in {"not", "and", "or", "impl", "equiv"}
       /\ \A k \in ChildrenAt(n) : IsProp(n[k])

RECURSIVE IsTrans(_)
IsTrans(n) ==
    \/ Kind(n) \in {"true", "false", "ap"}
    \/ Kind(n) \in {"X", "X!"} /\ IsProp(n[2])
    \/ /\ Kind(n) \in {"not", "and", "or", "impl", "equiv"}
       /\ \A k \in ChildrenAt(n) : IsTrans(n[k])

LimitKinds(n) == <<Kind(n), IF Kind(n) \in {"G", "F"} THEN Kind(n[2]) ELSE "">>
IsLiteral(n) == LimitKinds(n) \in {<<"G", "F">>, <<"F", "G">>} /\ IsTrans(n[2][2])

RECURSIVE IsLiveCombo(_)
IsLiveCombo(n) ==
    \/ IsLiteral(n)
    \/ Kind(n) \in {"true", "false"}
    \/ /\ Kind(n) \in {"not", "and", "or", "impl", "equiv"}
       /\ \A k \in ChildrenAt(n) : IsLiveCombo(n[k])

\* gnorm: G over a conjunction is pushed into it, G G f is G f.
RECURSIVE Gnorm(_)
Gnorm(n) ==
    IF Kind(n) # "G" THEN MapChildren(n, Gnorm)
    ELSE LET m == Gnorm(n[2])
         IN  CASE Kind(m) = "and" -> And(Gnorm(<<"G", m[2]>>), Gnorm(<<"G", m[3]>>))
               [] Kind(m) = "G" -> m
               [] OTHER -> <<"G", m>>

RECURSIVE Conjuncts(_)
Conjuncts(n) == IF Kind(n) = "and" THEN Conjuncts(n[2]) \cup Conjuncts(n[3]) ELSE {n}

\* What a conjunct of a section is: nothing that matters for the level, a
\* combination of limits, or outside the fragment.
NotLive == [fits |-> TRUE, live |-> {}]
Live(f) == [fits |-> TRUE, live |-> {f}]
Outside == [fits |-> FALSE, live |-> {}]

ClassifyGeneral(n) ==
    CASE IsProp(n) -> NotLive
      [] IsLiveCombo(n) -> Live(n)
      [] Kind(n) = "G" /\ IsTrans(n[2]) -> NotLive
      [] OTHER -> Outside

RECURSIVE ClassifyInvariant(_)
ClassifyInvariant(f) ==
    CASE IsTrans(f) -> NotLive
      [] IsLiveCombo(f) -> Live(f)
      [] Kind(f) = "F" /\ IsTrans(f[2]) -> Live(<<"G", f>>)
      [] Kind(f) = "G" -> ClassifyInvariant(f[2])
      [] OTHER -> Outside

Classify(role, n) ==
    CASE role \in {"INITIALLY", "PRESET"} -> IF IsProp(n) THEN NotLive ELSE Outside
      [] role \in Invariants -> ClassifyInvariant(n)
      [] OTHER -> ClassifyGeneral(n)

SectionConjuncts(sp, role) ==
    UNION {Conjuncts(Gnorm(sp.sections[role][k])) : k \in DOMAIN sp.sections[role]}

\* F G m taken for the limit G F not m.
LiteralUndenied(n) ==
    LET m == n[2][2]
        plain == IF Kind(m) = "not" THEN m[2] ELSE m
    IN  [atom |-> [base |-> plain, inverted |-> (Kind(m) = "not") # (Kind(n) = "F")],
         denied |-> FALSE]

\* The limit a literal is about, infinitely often base or infinitely often not
\* base, and whether the literal denies it: F G m is not G F not m.
Literal(n) ==
    LET m == n[2][2]
        plain == IF Kind(m) = "not" THEN m[2] ELSE m
    IN  [atom |-> [base |-> plain, inverted |-> (Kind(m) = "not") # (Kind(n) = "F")],
         denied |-> Kind(n) = "F"]

\* A clause has the limits it asserts and those it denies; tautologies and
\* duplicates are not kept.
Clauses(cs) == {c \in cs : c.pos \cap c.neg = {}}
CnfOr(A, B) == Clauses({[pos |-> x.pos \cup y.pos, neg |-> x.neg \cup y.neg] : x \in A, y \in B})
CnfTrue == {}
CnfFalse == {[pos |-> {}, neg |-> {}]}

\* cnf_of: the clauses of a combination of limits, or of its negation.
RECURSIVE CnfOf(_, _)
CnfOf(n, pos) ==
    LET join(A, B, conj) == IF conj THEN A \cup B ELSE CnfOr(A, B)
        k == Kind(n)
    IN  CASE IsLiteral(n) ->
               LET l == Literal(n)
               IN  IF pos # l.denied THEN {[pos |-> {l.atom}, neg |-> {}]}
                   ELSE {[pos |-> {}, neg |-> {l.atom}]}
          [] ~IsLiteral(n) /\ k \in {"true", "false"} ->
               IF (k = "true") = pos THEN CnfTrue ELSE CnfFalse
          [] ~IsLiteral(n) /\ k = "not" -> CnfOf(n[2], ~pos)
          [] ~IsLiteral(n) /\ k \in {"and", "or"} ->
               join(CnfOf(n[2], pos), CnfOf(n[3], pos), (k = "and") = pos)
          [] ~IsLiteral(n) /\ k = "impl" ->
               join(CnfOf(n[2], ~pos), CnfOf(n[3], pos), ~pos)
          [] ~IsLiteral(n) /\ k = "equiv" ->
               join(join(CnfOf(n[2], ~pos), CnfOf(n[3], pos), ~pos),
                    join(CnfOf(n[3], ~pos), CnfOf(n[2], pos), ~pos), pos)

Conjunction(sets) == UNION sets
RECURSIVE Disjunction(_)
Disjunction(sets) ==
    IF sets = {} THEN CnfFalse
    ELSE LET A == CHOOSE A \in sets : TRUE IN CnfOr(A, Disjunction(sets \ {A}))

\* gr_level: whether every conjunct fits, the limits assumed and guaranteed,
\* the clauses of their implication, and the level: the number of different
\* sets of limits the clauses deny, -1 when a conjunct does not fit.  (The
\* tables of limits and clauses are taken to be large enough.)
GrLevel(sp) ==
    LET found(role) == {Classify(role, n) : n \in SectionConjuncts(sp, role)}
        all == UNION {found(Roles[r]) : r \in DOMAIN Roles}
        live(side) == UNION {c.live : c \in UNION {found(r) : r \in side}}
        env == live(Assumptions)
        sys == live({"PRESET", "ASSERT", "GUARANTEE"})
        clauses == CnfOr(Disjunction({CnfOf(f, FALSE) : f \in env}),
                         Conjunction({CnfOf(f, TRUE) : f \in sys}))
    IN  IF \A c \in all : c.fits
        THEN [level |-> Cardinality({c.neg : c \in clauses}), env |-> env, sys |-> sys,
              clauses |-> clauses]
        ELSE [level |-> -1, env |-> {}, sys |-> {}, clauses |-> {}]

-----------------------------------------------------------------------------
\* The prechecks.

\* step0_bool_body: what a constraint asks of the first letter, if that is all.
Step0(c) ==
    IF IsProp(c.formula) THEN {c.formula}
    ELSE IF c.role \notin Invariants /\ Kind(c.formula) = "G" /\ IsProp(c.formula[2])
         THEN {c.formula[2]} ELSE {}

HoldsNow(f, letter) == 1 \in Sat(f, [letters |-> <<letter>>, back |-> 1])

Bodies(cov, assumed) ==
    UNION {Step0(cov[i]) : i \in {j \in DOMAIN cov : OnAssumptionSide(cov[j]) = assumed}}
AllHold(fs, letter) == \A f \in fs : HoldsNow(f, letter)

\* Each name is either an input or an output.
Partitioned(sp, aps) == aps # {} /\ \A a \in aps : (a \in sp.inputs) # (a \in sp.outputs)

\* Temporal assumptions passed over like temporal guarantees.
AssumptionsReadAny(cov) == TRUE

AssumptionsRead(cov) == \A i \in DOMAIN cov : OnAssumptionSide(cov[i]) => Step0(cov[i]) # {}

\* precheck_trivially_unreal: an input that breaks the one-step guarantees and
\* keeps the assumptions whatever the outputs are.
TriviallyUnreal(sp, cov) ==
    /\ ~sp.finite /\ Partitioned(sp, ApTable(sp, cov))
    /\ AssumptionsRead(cov)
    /\ Bodies(cov, FALSE) # {}
    /\ \E I \in SUBSET sp.inputs : \A O \in SUBSET sp.outputs :
         AllHold(Bodies(cov, TRUE), I \cup O) /\ ~AllHold(Bodies(cov, FALSE), I \cup O)

\* precheck_trivially_real: every guarantee is about one step and every input
\* has outputs that keep them all.
TriviallyReal(sp, cov) ==
    /\ ~sp.finite /\ ~sp.moore /\ Partitioned(sp, ApTable(sp, cov))
    /\ \A i \in DOMAIN cov : ~OnAssumptionSide(cov[i]) => Step0(cov[i]) # {}
    /\ Bodies(cov, FALSE) # {}
    /\ \A I \in SUBSET sp.inputs : \E O \in SUBSET sp.outputs :
         AllHold(Bodies(cov, FALSE), I \cup O)

Verdict(sp, cov) ==
    CASE TriviallyUnreal(sp, cov) -> "UNREALIZABLE"
      [] ~TriviallyUnreal(sp, cov) /\ TriviallyReal(sp, cov) -> "REALIZABLE"
      [] OTHER -> "UNKNOWN"

-----------------------------------------------------------------------------
\* The witness that some assumptions can be met together.

\* evaluate: the positions of a lasso where each node holds, the fixed points
\* by iteration.
RECURSIVE Iterated(_, _, _, _, _)
Iterated(v, a, b, release, w) ==
    LET succ == StrongBefore(w, v)
        updated == IF release THEN b \cap (a \cup succ) ELSE b \cup (a \cap succ)
    IN  IF updated = v THEN v ELSE Iterated(updated, a, b, release, w)

RECURSIVE EvaluateOn(_, _)
EvaluateOn(f, w) ==
    LET k == Kind(f)
        mask == Positions(w)
        arg(i) == EvaluateOn(f[i], w)
    IN  CASE k = "true" -> mask
          [] k = "false" -> {}
          [] k = "ap" -> {j \in mask : f[2] \in w.letters[j]}
          [] k = "not" -> mask \ arg(2)
          [] k = "and" -> arg(2) \cap arg(3)
          [] k = "or" -> arg(2) \cup arg(3)
          [] k = "impl" -> (mask \ arg(2)) \cup arg(3)
          [] k = "equiv" -> (arg(2) \cap arg(3)) \cup (mask \ (arg(2) \cup arg(3)))
          [] k \in {"X", "X!"} -> StrongBefore(w, arg(2))
          [] k = "F" -> Iterated({}, mask, arg(2), FALSE, w)
          [] k = "G" -> Iterated(mask, {}, arg(2), TRUE, w)
          [] k = "U" -> Iterated({}, arg(2), arg(3), FALSE, w)
          [] k = "W" -> Iterated(mask, arg(2), arg(3), FALSE, w)
          [] k = "R" -> Iterated(mask, arg(2), arg(3), TRUE, w)
          [] k = "M" -> Iterated({}, arg(2), arg(3), TRUE, w)

Satisfies(entries, w) ==
    \A e \in entries :
      LET v == EvaluateOn(e.formula, w)
      IN  IF e.role = "REQUIRE" THEN v = Positions(w) ELSE 1 \in v

RECURSIVE SizeOf(_)
SizeOf(entries) ==
    IF entries = {} THEN 0
    ELSE LET e == CHOOSE e \in entries : TRUE IN NodeCount(e.formula) + SizeOf(entries \ {e})

\* env_witness_search, when its work budget lasts.
EnvWitness(entries) ==
    LET aps == UNION {ApsOf(e.formula) : e \in entries}
    IN  /\ Cardinality(aps) <= WitnessAps /\ SizeOf(entries) <= WitnessNodes
        /\ \E w \in LassoWords(aps, WitnessLength) : Satisfies(entries, w)

-----------------------------------------------------------------------------
\* Outputs that a constraint defines (certify_definition and the definitions
\* of csnf_compose).  Constraints are told apart by their index.

RECURSIVE HasTemporal(_)
HasTemporal(n) == Kind(n) \in TemporalKinds \/ \E k \in ChildrenAt(n) : HasTemporal(n[k])

\* The output and the value of G(o <-> value), the left-hand side first.
DefinitionOf(sp, c) ==
    LET f == c.formula
        eq == f[2]
        out(n) == Kind(n) = "ap" /\ n[2] \in sp.outputs
    IN  IF Kind(f) # "G" THEN {}
        ELSE IF Kind(eq) # "equiv" THEN {}
        ELSE IF out(eq[2]) THEN {[output |-> eq[2][2], value |-> eq[3]]}
        ELSE IF out(eq[3]) THEN {[output |-> eq[3][2], value |-> eq[2]]} ELSE {}

\* A decoder: a value that can be computed from the current letter.
Decoder(sp, c) ==
    {d \in DefinitionOf(sp, c) :
       ~sp.moore /\ ~HasTemporal(d.value) /\ d.output \notin ApsOf(d.value)}

\* A definition taken to hold wherever the output is used.
CoversAny(use, def, strict) == TRUE

\* definition_section_covers: where use must hold the definition holds too.
Covers(use, def, strict) ==
    \/ use = def \/ def = "PRESET"
    \/ use = "GUARANTEE" /\ def = "ASSERT"
    \/ ~strict /\ use = "ASSERT" /\ def = "GUARANTEE"

Accepted(sp, cov) ==
    {i \in DOMAIN cov :
       \E d \in Decoder(sp, cov[i]) :
         /\ ~OnAssumptionSide(cov[i])
         /\ \A k \in DOMAIN cov : d.output \in cov[k].outputs =>
              ~OnAssumptionSide(cov[k]) /\ Covers(cov[k].role, cov[i].role, sp.strict)}

TheDefinition(sp, c) == CHOOSE d \in DefinitionOf(sp, c) : TRUE

\* The first of the constraints that define an output is its provider.
Providers(sp, cov, from) ==
    {i \in from : \A k \in from :
       TheDefinition(sp, cov[k]).output = TheDefinition(sp, cov[i]).output => i <= k}

\* All names the values of some definitions read, directly or not.
RECURSIVE ReadBy(_, _)
ReadBy(names, defs) ==
    LET more == names \cup UNION {ApsOf(d.value) : d \in {e \in defs : e.output \in names}}
    IN  IF more = names THEN names ELSE ReadBy(more, defs)

\* Providers whose output is needed to compute it.
OnCycle(sp, cov, from) ==
    LET owners == Providers(sp, cov, from)
        defs == {TheDefinition(sp, cov[i]) : i \in owners}
    IN  {i \in owners :
           LET d == TheDefinition(sp, cov[i]) IN d.output \in ReadBy(ApsOf(d.value), defs)}

-----------------------------------------------------------------------------
\* The residual and its games.

RECURSIVE NodeSubst(_, _)
NodeSubst(n, d) ==
    IF Kind(n) = "ap" THEN IF n[2] = d.output THEN d.value ELSE n
    ELSE LET Below(c) == NodeSubst(c, d) IN MapChildren(n, Below)

RECURSIVE SubstAll(_, _)
SubstAll(n, defs) == IF defs = <<>> THEN n ELSE SubstAll(NodeSubst(n, Head(defs)), Tail(defs))

\* residual_apply_elims: all definitions, once more than there are.
ApplyElims(n, elims) == SubstAll(n, FlattenSeq([k \in 1..(Len(elims) + 1) |-> elims]))

\* residual_plan_build: what is left of each constraint, True if nothing is.
Residual(sp, cov, elims, gone) ==
    [i \in DOMAIN cov |->
       IF i \in gone THEN True
       ELSE ApplyRewrites(ApplyElims(cov[i].formula, elims),
                          {"simplify"} \cup (IF sp.finite THEN {"finite"} ELSE {}), RwCap)]

Outs(sp, f) == ApsOf(f) \cap sp.outputs
Left(rf) == {i \in DOMAIN rf : rf[i] # True}
Environment(cov, rf) == {i \in Left(rf) : OnAssumptionSide(cov[i])}

\* Outputs that occur together are in one group.
Joined(groups, S) ==
    LET hit == {g \in groups : g \cap S # {}}
    IN  IF hit = {} THEN groups ELSE (groups \ hit) \cup {UNION hit}
RECURSIVE Grouped(_, _)
Grouped(groups, sets) ==
    IF sets = {} THEN groups
    ELSE LET S == CHOOSE S \in sets : TRUE IN Grouped(Joined(groups, S), sets \ {S})

\* One game for all outputs: an assumption is about outputs, or the players
\* share the choice of where the word ends.
Coupled(sp, cov, rf) ==
    sp.finite \/ \E i \in Environment(cov, rf) : Outs(sp, rf[i]) # {}

Groups(sp, cov, rf) ==
    IF Coupled(sp, cov, rf) THEN {sp.outputs}
    ELSE Grouped({{o} : o \in sp.outputs}, {Outs(sp, rf[i]) : i \in Left(rf)})

\* residual_cluster_keys: the outputs of the game a guarantee belongs to; none
\* for the guarantees about inputs alone.
KeyOf(sp, cov, rf, i) ==
    LET mine == Outs(sp, rf[i])
    IN  IF mine = {} THEN IF Coupled(sp, cov, rf) THEN sp.outputs ELSE {}
        ELSE CHOOSE g \in Groups(sp, cov, rf) : mine \subseteq g

Keys(sp, cov, rf) ==
    {KeyOf(sp, cov, rf, i) : i \in Left(rf) \ Environment(cov, rf)}

ApsIn(rf, I) == UNION {ApsOf(rf[i]) : i \in I}

\* Assumptions that share a signal with the game, or with one that does.
RECURSIVE Closed(_, _, _)
Closed(rf, core, env) ==
    LET more == {i \in env \ core : ApsOf(rf[i]) \cap ApsIn(rf, core) # {}}
    IN  IF more = {} THEN core ELSE Closed(rf, core \cup more, env)

\* The constraints of one game: those with its key and the assumptions, less
\* the ones it may do without (cluster_assumption_mask).
Chosen(sp, cov, rf, key, mayDrop, lasts) ==
    LET env == Environment(cov, rf)
        keyed == {i \in Left(rf) \ env : KeyOf(sp, cov, rf, i) = key}
        about == {i \in env : \E a \in ApsOf(rf[i]) : ~IsInput(sp, a)}
        core == Closed(rf, keyed \cup about, env)
        dropped == {[at |-> i, role |-> cov[i].role, formula |-> rf[i]] : i \in env \ core}
    IN  IF /\ mayDrop /\ ~sp.finite /\ ~sp.moore /\ sp.mealyTarget
           /\ (dropped = {} \/ (lasts /\ EnvWitness(dropped)))
        THEN core ELSE keyed \cup env

Game(sp, cov, rf, key, cached, lasts) ==
    LET kept == Chosen(sp, cov, rf, key, cached /\ key # {}, lasts)
        entry(i) == [role |-> cov[i].role, formula |-> rf[i]]
        order == SelectSeq([i \in DOMAIN rf |-> i], LAMBDA i : i \in kept)
        seen == ApsIn(rf, kept)
    IN  [key |-> key, kept |-> kept,
         root |-> Lowered(PatternLtl([k \in DOMAIN order |-> entry(order[k])], sp.strict),
                          sp.finite),
         inputs |-> {a \in seen : IsInput(sp, a)},
         outputs |-> seen \cap sp.outputs]

-----------------------------------------------------------------------------
\* tlsf_decompose_file from the expanded specification to its report.

CONSTANTS Analysed,                 \* the specifications
          AnalysisWordsOf(_, _)     \* words over some names, finite or not

VARIABLES sp,          \* the specification
          cover,       \* its constraints
          broken,      \* definitions given up to break a cycle
          elims,       \* the definitions substituted, in order
          rf,          \* the residual formulas
          cached,      \* the plan has room for its cluster views
          report,      \* GR level, verdict and the whole formula
          games,       \* the games built so far
          analysisPc

analysisVars == <<sp, cover, broken, elims, rf, cached, report, games, analysisPc>>

NoReport == [gr |-> [level |-> -1, env |-> {}, sys |-> {}, clauses |-> {}],
             verdict |-> "UNKNOWN", root |-> True]

AnalysisCalled(s) ==
    /\ sp = s
    /\ cover = <<>> /\ broken = {} /\ elims = <<>> /\ rf = <<>> /\ cached = FALSE
    /\ report = NoReport /\ games = {}
    /\ analysisPc = "cover"

AnalysisInit == \E s \in Analysed : AnalysisCalled(s)

BuildCover ==
    /\ analysisPc = "cover"
    /\ cover' = CoverBuild(sp)
    /\ analysisPc' = "compose"
    /\ UNCHANGED <<sp, broken, elims, rf, cached, report, games>>

Usable == Accepted(sp, cover) \ broken

\* find_decoder_cycle_block gives up one definition of a cycle; which one
\* depends on the order of the names.
BreakCycle ==
    /\ analysisPc = "compose"
    /\ \E i \in OnCycle(sp, cover, Usable) : broken' = broken \cup {i}
    /\ UNCHANGED <<sp, cover, elims, rf, cached, report, games, analysisPc>>

Compose ==
    /\ analysisPc = "compose"
    /\ OnCycle(sp, cover, Usable) = {}
    /\ LET gone == Providers(sp, cover, Usable)
           order == SelectSeq([i \in DOMAIN cover |-> i], LAMBDA i : i \in gone)
           defs == [k \in DOMAIN order |-> TheDefinition(sp, cover[order[k]])]
       IN  /\ elims' = defs
           /\ rf' = Residual(sp, cover, defs, gone)
    /\ cached' \in BOOLEAN
    /\ analysisPc' = "report"
    /\ UNCHANGED <<sp, cover, broken, report, games>>

Report ==
    /\ analysisPc = "report"
    /\ report' = [gr |-> GrLevel(sp), verdict |-> Verdict(sp, cover),
                  root |-> PatternLtl(SectionEntries(sp), sp.strict)]
    /\ analysisPc' = "games"
    /\ UNCHANGED <<sp, cover, broken, elims, rf, cached, games>>

BuildGame ==
    /\ analysisPc = "games"
    /\ \E key \in Keys(sp, cover, rf) \ {g.key : g \in games}, lasts \in BOOLEAN :
         games' = games \cup {Game(sp, cover, rf, key, cached, lasts)}
    /\ UNCHANGED <<sp, cover, broken, elims, rf, cached, report, analysisPc>>

Decomposed ==
    /\ analysisPc = "games"
    /\ Keys(sp, cover, rf) = {g.key : g \in games}
    /\ analysisPc' = "done"
    /\ UNCHANGED <<sp, cover, broken, elims, rf, cached, report, games>>

AnalysisNext == BuildCover \/ BreakCycle \/ Compose \/ Report \/ BuildGame \/ Decomposed

AnalysisSpec == AnalysisInit /\ [][AnalysisNext]_analysisVars

-----------------------------------------------------------------------------
(***************************************************************************)
(* What the results mean, defined on words.                                *)
(***************************************************************************)

Signals == ApTable(sp, cover)
AllWords == AnalysisWordsOf(Signals, sp.finite)

\* The positions where every formula of a section holds.
Where(role, w) ==
    {j \in Positions(w) : \A k \in DOMAIN sp.sections[role] : j \in Sat(sp.sections[role][k], w)}
AtStart(role, w) == 1 \in Where(role, w)
Always(role, w) == Where(role, w) = Positions(w)

\* The guarantees that are invariants hold; with strict semantics as long as
\* the assumptions that are invariants have held.
Asserted(w) ==
    \A j \in Positions(w) :
      (\A i \in 1..j : i \in Where("REQUIRE", w)) => j \in Where("ASSERT", w)

\* A word is right for the specification.
Right(w) ==
    LET assumed == Always("REQUIRE", w) /\ AtStart("ASSUME", w)
    IN  AtStart("INITIALLY", w) =>
          /\ AtStart("PRESET", w)
          /\ sp.strict => Asserted(w)
          /\ assumed => Always("ASSERT", w) /\ AtStart("GUARANTEE", w)

\* Every position of a word with the output as its definition says.
Defined(w, d) ==
    LET true == Sat(d.value, w)
    IN  [w EXCEPT !.letters = [j \in Positions(w) |->
          IF j \in true THEN w.letters[j] \cup {d.output} ELSE w.letters[j] \ {d.output}]]
Obeys(w) == \A k \in DOMAIN elims : Defined(w, elims[k]) = w

RECURSIVE Obeying(_, _)
Obeying(w, times) ==
    IF times = 0 THEN w
    ELSE LET RECURSIVE Each(_, _)
             Each(v, k) == IF k > Len(elims) THEN v ELSE Each(Defined(v, elims[k]), k + 1)
         IN  Obeying(Each(w, 1), times - 1)

-----------------------------------------------------------------------------
\* The first k letters of a word, played out, and then another word.
Played(w, k, v) ==
    LET RECURSIVE At(_)
        At(j) == IF j = 1 THEN 1 ELSE Following(w, At(j - 1))
    IN  [letters |-> [j \in 1..k |-> w.letters[At(j)]] \o v.letters, back |-> k + v.back]

\* Only names that occur below a negation can hurt a formula by being set, and
\* only others can help it; a constraint filed under safety is lost at some
\* point for good.
CoverTruthful ==
    analysisPc = "compose" /\ broken = {} =>
      \A i \in DOMAIN cover :
        LET c == cover[i]
            words == AnalysisWordsOf(ApsOf(c.formula), sp.finite)
            With(w, j, o) == [w EXCEPT !.letters[j] = @ \cup {o}]
        IN  /\ \A w \in words, o \in c.outputs : \A j \in Positions(w) :
                 /\ o \notin c.negOutputs /\ 1 \in Sat(c.formula, w) =>
                      1 \in Sat(c.formula, With(w, j, o))
                 /\ o \notin c.posOutputs /\ 1 \in Sat(c.formula, With(w, j, o)) =>
                      1 \in Sat(c.formula, [w EXCEPT !.letters[j] = @ \ {o}])
            /\ c.safety /\ ~sp.finite =>
                 \A w \in {u \in words : 1 \notin Sat(c.formula, u)} :
                   \E k \in 1..4 : \A v \in words : 1 \notin Sat(c.formula, Played(w, k, v))

\* A specification that has a GR level is what its parts say: the clauses mean
\* the same as the implication of the limits, and the level counts the
\* different antecedents.
AtomHolds(a, w) ==
    1 \in Sat(<<"G", <<"F", IF a.inverted THEN Not(a.base) ELSE a.base>>>>, w)
GrExact ==
    analysisPc = "games" /\ games = {} /\ report.gr.level >= 0 =>
      \A w \in AllWords :
        LET holds(f) == 1 \in Sat(f, w)
            safe == \A r \in {"PRESET", "ASSERT", "GUARANTEE"} :
                      \A n \in SectionConjuncts(sp, r) :
                        Classify(r, n).live = {} =>
                          holds(IF r = "ASSERT" THEN <<"G", n>> ELSE n)
            promised == AtStart("PRESET", w) /\ Always("ASSERT", w) /\ AtStart("GUARANTEE", w)
        IN  /\ (\A c \in report.gr.clauses : \/ \E a \in c.pos : AtomHolds(a, w)
                                             \/ \E a \in c.neg : ~AtomHolds(a, w))
               = ((\A f \in report.gr.env : holds(f)) => \A f \in report.gr.sys : holds(f))
            /\ promised = (safe /\ \A f \in report.gr.sys : holds(f))

\* What the cover records of a constraint and the level of the specification
\* are true of its words, not of the way it is written.
AnalysisTruthful == CoverTruthful /\ GrExact

-----------------------------------------------------------------------------
\* Controllers with two states of memory, and the word one makes of a
\* repeated sequence of inputs.

Machines ==
    LET Moves == {1, 2} \X SUBSET sp.inputs
    IN  {[out |-> o, next |-> n] :
           o \in [IF sp.moore THEN {<<m, {}>> : m \in {1, 2}} ELSE Moves -> SUBSET sp.outputs],
           n \in [Moves -> {1, 2}]}
Output(m, state, I) == m.out[IF sp.moore THEN <<state, {}>> ELSE <<state, I>>]

Product(m, inputs) ==
    LET len == Len(inputs)
        RECURSIVE Go(_, _, _)
        Go(trace, letters, at) ==
            LET seen == {j \in DOMAIN trace : trace[j] = at}
                I == inputs[at[1]]
            IN  IF seen # {} THEN [letters |-> letters, back |-> CHOOSE j \in seen : TRUE]
                ELSE Go(Append(trace, at), Append(letters, I \cup Output(m, at[2], I)),
                        <<IF at[1] = len THEN 1 ELSE at[1] + 1, m.next[<<at[2], I>>]>>)
    IN  Go(<<>>, <<>>, <<1, 1>>)

InputSequences == UNION {[1..k -> SUBSET sp.inputs] : k \in 1..3}
Wins(m) == \A inputs \in InputSequences : Right(Product(m, inputs))

\* A verdict without a solver is right: no controller meets a specification
\* called unrealizable, some controller meets one called realizable.
VerdictRight ==
    analysisPc = "games" /\ games = {} =>
      /\ report.verdict = "UNREALIZABLE" => \A m \in Machines : ~Wins(m)
      /\ report.verdict = "REALIZABLE" => \E m \in Machines : Wins(m)

-----------------------------------------------------------------------------
\* The games stand for the specification.  An output that is substituted may
\* be set as its definition says without harm.  Then no output is in two
\* games, a word that is right in all games is right, and a game asks for no
\* more than the specification does, provided that the assumptions it left
\* out hold; which they can, whatever the game's signals do.
SplitFaithful ==
    analysisPc = "done" =>
      LET words == {w \in AllWords : Obeys(w)}
          left(g) == Environment(cover, rf) \ g.kept
      IN  /\ \A w \in AllWords : 1 \in Sat(report.root, w) <=> Right(w)
          /\ \A w \in AllWords : Right(w) => Right(Obeying(w, Len(elims)))
          /\ \A g, h \in games : g # h => g.outputs \cap h.outputs = {}
          /\ \A w \in words : (\A g \in games : 1 \in Sat(g.root, w)) => Right(w)
          /\ \A g \in games :
               LET Met(w) == \A i \in left(g) :
                     IF cover[i].role = "REQUIRE" THEN Sat(rf[i], w) = Positions(w)
                     ELSE 1 \in Sat(rf[i], w)
               IN  /\ ApsIn(rf, left(g)) \cap (g.inputs \cup g.outputs) = {}
                   /\ \E w \in AnalysisWordsOf(ApsIn(rf, left(g)), sp.finite) : Met(w)
                   /\ \A w \in words : Met(w) /\ Right(w) => 1 \in Sat(g.root, w)
=============================================================================
