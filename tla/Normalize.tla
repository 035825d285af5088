----------------------------- MODULE Normalize -----------------------------
(***************************************************************************)
(* normalize.c: the rule table, schedules, the passes and the driver that  *)
(* applies one pass to one formula under the iteration and size caps.      *)
(*                                                                         *)
(* A schedule is a sequence of [pass, iter]; opts holds finite, maxIter,   *)
(* maxGrowth (percent) and maxNodes.  Statistics and the trace are left    *)
(* out, except the obstacle counts, which stage 2 and stage 3 consult.     *)
(***************************************************************************)
EXTENDS Rewrite, SequencesExt

CONSTANTS NameOrder,    \* the signal names in strcmp order
          RepeatCap     \* PROFILE_REPEAT_CAP

-----------------------------------------------------------------------------
\* Rules and schedules.

PrePasses == {"pre-indexed-x", "pre-bounded-bool", "pre-spine-split", "pre-weak"}

\* pass_rules.
PassRules(p) ==
    CASE p = "split" -> {}
      [] p = "nnf" -> {"route-nnf"}
      [] p = "weak" -> {"weak-double-neg", "weak-const-fold", "weak-idempotent"}
      [] p = "bool-canon" -> {"bool-flatten", "bool-sort"}
      [] p = "or-to-impl-pattern" -> {"or-to-response-impl", "or-to-guarded-next-impl"}
      [] p = "equiv-output-side" -> {"equiv-output-left"}
      [] p = "mutex-demorgan" -> {"mutex-demorgan-pair"}
      [] p = "route-safe" -> {"route-nnf", "route-push-g-in", "route-push-x-in"}
      [] p = "sickert-stage2" -> {"sickert-limit-lift"}
      [] p = "sickert-stage3" -> {"sickert-gf-w", "sickert-fg-u"}
      [] p = "pre-indexed-x" -> {"pre-xn-flatten", "pre-x0"}
      [] p = "pre-bounded-bool" -> {"pre-bounded-empty", "pre-bounded-singleton",
                                    "pre-bounded-const-fold"}
      [] p = "pre-spine-split" -> {"pre-spine-split"}
      [] p = "pre-weak" -> {"pre-weak"}

Passes == PrePasses \cup {"split", "nnf", "weak", "bool-canon", "or-to-impl-pattern",
    "equiv-output-side", "mutex-demorgan", "route-safe", "sickert-stage2",
    "sickert-stage3"}

PreRules == UNION {PassRules(p) : p \in PrePasses}

\* RULES: every rule is an equivalence on infinite words; the limit rules are
\* not one on finite words; pre-expansion rules belong to that phase only.
RuleInfo(r) ==
    [equivalence_finite |->
        r \notin {"sickert-limit-lift", "sickert-gf-w", "sickert-fg-u"},
     phases |-> IF r \in PreRules THEN {"pre_expand"}
                ELSE {"match", "route", "visible", "bench"}]

\* expand_token: a pass, or a profile that stands for a block of passes.
Repeated(block, times) == FlattenSeq([k \in 1..times |-> block])

ExpandToken(name, iter) ==
    LET rep == IF iter = 0 THEN 1 ELSE IF iter > RepeatCap THEN RepeatCap ELSE iter
        Once(passes) == [k \in DOMAIN passes |-> [pass |-> passes[k], iter |-> 1]]
    IN  CASE name = "boolean" -> <<[pass |-> "weak", iter |-> iter]>>
          [] name \in Passes -> <<[pass |-> name, iter |-> iter]>>
          [] name = "off" -> <<>>
          [] name = "match-safe" ->
               Repeated(Once(<<"weak", "bool-canon", "or-to-impl-pattern",
                               "equiv-output-side", "mutex-demorgan">>), rep)
          [] name = "pre-safe" ->
               Repeated(Once(<<"pre-indexed-x", "pre-bounded-bool",
                               "pre-spine-split">>), rep)
          [] name = "sickert-bounded" ->
               <<[pass |-> "sickert-stage2", iter |-> rep], [pass |-> "weak", iter |-> 1],
                 [pass |-> "sickert-stage3", iter |-> rep], [pass |-> "weak", iter |-> 1]>>

KnownToken(name) ==
    name \in Passes \cup {"boolean", "off", "match-safe", "pre-safe", "sickert-bounded"}

\* tlsf_norm_parse_schedule: tokens are [name, iter].
ParseSchedule(tokens) ==
    FlattenSeq([k \in DOMAIN tokens |-> ExpandToken(tokens[k].name, tokens[k].iter)])

\* The schedule is refused only for rules that do not belong to the phase.
PhaseCheckOnly(schedule, finite, phase) ==
    \A k \in DOMAIN schedule : \A r \in PassRules(schedule[k].pass) :
        phase \in RuleInfo(r).phases

\* tlsf_norm_schedule_check.
ScheduleCheck(schedule, finite, phase) ==
    \A k \in DOMAIN schedule : \A r \in PassRules(schedule[k].pass) :
        /\ finite => RuleInfo(r).equivalence_finite
        /\ phase \in RuleInfo(r).phases

-----------------------------------------------------------------------------
\* Boolean canonical form.

KindOrder == <<"true", "false", "ap", "int", "not", "and", "or", "impl", "equiv",
               "X", "G", "R", "W", "F", "U", "M", "X!">>
Rank(s, x) == CHOOSE k \in DOMAIN s : s[k] = x

\* struct_cmp, as a strict order.
RECURSIVE StructLess(_, _)
StructLess(x, y) ==
    LET k == Kind(x)
    IN  CASE k # Kind(y) -> Rank(KindOrder, k) < Rank(KindOrder, Kind(y))
          [] k = "ap" -> Rank(NameOrder, x[2]) < Rank(NameOrder, y[2])
          [] k \in UnaryKinds -> StructLess(x[2], y[2])
          [] k \in BinaryKinds ->
               \/ StructLess(x[2], y[2])
               \/ x[2] = y[2] /\ StructLess(x[3], y[3])
          [] OTHER -> FALSE

\* The operands of a chain of one connective, sorted and without repetition.
RECURSIVE Operands(_, _), BoolCanon(_)
Operands(n, k) ==
    IF Kind(n) = k THEN Operands(n[2], k) \o Operands(n[3], k) ELSE <<BoolCanon(n)>>

BoolCanon(n) ==
    IF Kind(n) \in {"and", "or"}
    THEN LET ops == SortSeq(Operands(n, Kind(n)), StructLess)
             kept == SelectSeq([j \in DOMAIN ops |-> j],
                               LAMBDA j : j = 1 \/ ops[j] # ops[j - 1])
         IN  FoldLeft(LAMBDA acc, j : <<Kind(n), acc, ops[j]>>, ops[kept[1]], Tail(kept))
    ELSE MapChildren(n, BoolCanon)

-----------------------------------------------------------------------------
\* Passes on high-level trees.

IsLit(n) == Kind(n) = "int"
NextN(count, body) == <<"next", FALSE, count, body>>

\* node_eq: kinds outside the core are compared field by field as if they were
\* binary nodes.  On those, the fields that answer are the bound variable and
\* the lower bound of a reduction, the lower bound of a bounded operator, and
\* the count and body of an indexed next, whatever its strength.  Calls and
\* set literals hold an array there; two of them answer equal only when they
\* are the same object.
RECURSIVE NodeEq(_, _)
NodeEq(x, y) ==
    LET k == Kind(x)
    IN  k = Kind(y) /\
        CASE k \in {"true", "false"} -> TRUE
          [] k \in {"ap", "int", "var", "sizeof"} -> x[2] = y[2]
          [] k \in {"call", "set", "enum"} -> x = y
          [] k \in {"forall", "exists", "sum", "product", "bigunion", "biginter"} ->
               x[2] = y[2] /\ (Kind(x[3]) = "range" => NodeEq(x[3][3], y[3][3]))
          [] k \in {"Grange", "Frange"} -> NodeEq(x[3], y[3])
          [] k = "bus" -> x[2] = y[2] /\ NodeEq(x[3], y[3])
          [] k = "next" -> NodeEq(x[3], y[3]) /\ NodeEq(x[4], y[4])
          [] k \in UnaryKinds -> NodeEq(x[2], y[2])
          [] OTHER -> NodeEq(x[2], y[2]) /\ NodeEq(x[3], y[3])

\* pre_indexed_x: counts of adjacent next operators are added up.
RECURSIVE PreIndexedX(_)
PreIndexedX(n) ==
    CASE Kind(n) = "next" ->
           LET body == PreIndexedX(n[4])
           IN  (CASE IsLit(n[3]) /\ n[3][2] = 0 -> body
                  [] IsLit(n[3]) /\ Kind(body) = "X" ->
                       NextN(<<"int", n[3][2] + 1>>, body[2])
                  [] IsLit(n[3]) /\ Kind(body) = "next" /\ IsLit(body[3]) ->
                       NextN(<<"int", n[3][2] + body[3][2]>>, body[4])
                  [] OTHER -> IF body = n[4] THEN n ELSE NextN(n[3], body))
      [] Kind(n) = "X" ->
           LET arg == PreIndexedX(n[2])
           IN  IF Kind(arg) = "next" /\ IsLit(arg[3])
               THEN NextN(<<"int", arg[3][2] + 1>>, arg[4])
               ELSE <<"X", arg>>
      [] Kind(n) \in {"X!", "not", "G", "F", "and", "or", "impl", "equiv"} ->
           MapChildren(n, PreIndexedX)
      [] OTHER -> n

\* pre_bounded_bool: reductions that are constant whatever their body.
EmptyRange(dom) ==
    /\ Kind(dom) = "range" /\ IsLit(dom[3]) /\ IsLit(dom[4])
    /\ dom[3][2] + (IF dom[2].lo THEN 1 ELSE 0) >
       dom[4][2] - (IF dom[2].hi THEN 1 ELSE 0)

RECURSIVE PreBoundedBool(_)
PreBoundedBool(n) ==
    CASE Kind(n) = "forall" ->
           IF n[4] = True \/ EmptyRange(n[3]) THEN True ELSE n
      [] Kind(n) = "exists" ->
           IF n[4] = False \/ EmptyRange(n[3]) THEN False ELSE n
      [] Kind(n) \in {"not", "G", "F", "X", "and", "or", "impl", "equiv"} ->
           MapChildren(n, PreBoundedBool)
      [] OTHER -> n

\* pre_weak: constants folded through the connectives, G, F and, on infinite
\* words, X.
PreWeakLocal(n, finite) ==
    LET k == Kind(n)
        x == n[2]
        y == n[3]
    IN  CASE k = "not" -> SimplifyNot(x)
          [] k = "and" -> (CASE False \in {x, y} -> False
                             [] x = True -> y
                             [] y = True -> x
                             [] OTHER -> IF NodeEq(x, y) THEN x ELSE n)
          [] k = "or" -> (CASE True \in {x, y} -> True
                            [] x = False -> y
                            [] y = False -> x
                            [] OTHER -> IF NodeEq(x, y) THEN x ELSE n)
          [] k = "impl" -> (CASE x = False \/ y = True -> True
                              [] x = True -> y
                              [] OTHER -> n)
          [] k \in {"G", "F"} -> IF x \in {True, False} THEN x ELSE n
          [] k = "X" -> IF ~finite /\ x = False THEN False ELSE n
          [] OTHER -> n

RECURSIVE PreWeak(_, _)
PreWeak(n, finite) ==
    LET Below(c) == PreWeak(c, finite)
    IN  CASE Kind(n) = "next" ->
               LET b == Below(n[4]) IN IF b = n[4] THEN n ELSE NextN(n[3], b)
          [] Kind(n) \in (UnaryKinds \ {"X!"}) \cup BinaryKinds ->
               PreWeakLocal(MapChildren(n, Below), finite)
          [] OTHER -> n

\* prenorm_spine: split at top-level conjunctions, carrying G and the next
\* operators over them.
RECURSIVE PreSpine(_)
PreSpine(f) ==
    LET Over(c, Wrap(_)) == LET parts == PreSpine(c)
                            IN  [k \in DOMAIN parts |-> Wrap(parts[k])]
    IN  CASE Kind(f) = "and" -> PreSpine(f[2]) \o PreSpine(f[3])
          [] Kind(f) \in {"G", "X", "X!"} -> Over(f[2], LAMBDA g : <<Kind(f), g>>)
          [] Kind(f) = "next" -> Over(f[4], LAMBDA g : NextN(f[3], g))
          [] OTHER -> <<f>>

-----------------------------------------------------------------------------
\* Passes on expanded trees that expose template shapes.

IsResponseRhs(n) == Kind(n) \in {"F", "X", "X!"}

RECURSIVE OrToImpl(_), MutexDeMorgan(_), EquivOutputSide(_)
OrToImpl(n) ==
    LET r == MapChildren(n, OrToImpl)
    IN  CASE Kind(r) # "or" -> r
          [] Kind(r[2]) = "not" /\ IsResponseRhs(r[3]) -> <<"impl", r[2][2], r[3]>>
          [] Kind(r[3]) = "not" /\ IsResponseRhs(r[2]) -> <<"impl", r[3][2], r[2]>>
          [] OTHER -> r

MutexDeMorgan(n) ==
    LET r == MapChildren(n, MutexDeMorgan)
        NegatedAp(f) == Kind(f) = "not" /\ Kind(f[2]) = "ap"
    IN  IF Kind(r) # "or" THEN r
        ELSE IF NegatedAp(r[2]) /\ NegatedAp(r[3])
        THEN Not(And(r[2][2], r[3][2])) ELSE r

RECURSIVE PastNexts(_)
PastNexts(n) == IF Kind(n) \in {"X", "X!"} THEN PastNexts(n[2]) ELSE n
IsOutputSide(n) == Kind(PastNexts(IF Kind(n) = "not" THEN n[2] ELSE n)) = "ap"

EquivOutputSide(n) ==
    LET r == MapChildren(n, EquivOutputSide)
    IN  IF Kind(r) # "equiv" THEN r
        ELSE IF IsOutputSide(r[3]) /\ ~IsOutputSide(r[2])
        THEN <<"equiv", r[3], r[2]>> ELSE r

-----------------------------------------------------------------------------
\* Bounded Sickert stages.

IsGF(n) == Kind(n) = "G" /\ Kind(n[2]) = "F"
IsFG(n) == Kind(n) = "F" /\ Kind(n[2]) = "G"
IsLimit(n) == IsGF(n) \/ IsFG(n)

\* obst_walk: how often an obstacle of each class occurs.
One(b) == IF b THEN 1 ELSE 0

RECURSIVE ObstWalk(_, _, _, _, _)
ObstWalk(n, temporal, w, gf, fg) ==
    LET here == [u_under_w |-> One(Kind(n) = "U" /\ w),
                 w_under_gf |-> One(Kind(n) = "W" /\ gf),
                 u_under_fg |-> One(Kind(n) = "U" /\ fg),
                 limit_under_temporal |-> One(IsLimit(n) /\ temporal)]
        Child(k) == ObstWalk(n[k], temporal \/ Kind(n) \in TemporalKinds,
                             w \/ Kind(n) = "W", gf \/ IsGF(n), fg \/ IsFG(n))
        Plus(p, k) == [c \in DOMAIN p |-> p[c] + Child(k)[c]]
    IN  CASE Kind(n) \in UnaryKinds -> Plus(here, 2)
          [] Kind(n) \in BinaryKinds -> Plus(Plus(here, 2), 3)
          [] OTHER -> here

Obstacles(n) == ObstWalk(n, FALSE, FALSE, FALSE, FALSE)

\* A place in a tree is the sequence of child indices that leads to it; NoPath
\* says there is none.  Trees come out of to_nnf, which shares no subtree with
\* a temporal operator, so a place is what a pointer is in the code.
NoPath == <<0>>
Under(k, p) == IF p = NoPath THEN NoPath ELSE <<k>> \o p
FirstOf(p, q) == IF p = NoPath THEN q ELSE p

RECURSIVE SubAt(_, _), PutAt(_, _, _)
SubAt(n, p) == IF p = <<>> THEN n ELSE SubAt(n[p[1]], Tail(p))
\* subst_by_ptr.
PutAt(n, p, r) == IF p = <<>> THEN r ELSE [n EXCEPT ![p[1]] = PutAt(@, Tail(p), r)]

\* limit_under_bool: a limit node reached through && and || only.
RECURSIVE LimitUnderBool(_)
LimitUnderBool(n) ==
    CASE IsLimit(n) -> <<>>
      [] Kind(n) \in {"and", "or"} ->
           FirstOf(Under(2, LimitUnderBool(n[2])), Under(3, LimitUnderBool(n[3])))
      [] OTHER -> NoPath

\* The place sickert2_step rewrites: the outermost temporal node with a limit
\* node as the nearest temporal node below it.
NearestLimit(n) ==
    CASE Kind(n) \notin TemporalKinds -> NoPath
      [] Kind(n) \in UnaryKinds -> Under(2, LimitUnderBool(n[2]))
      [] OTHER -> FirstOf(Under(2, LimitUnderBool(n[2])), Under(3, LimitUnderBool(n[3])))

\* The first of the places in pre-order.
Preorder(p, q) == \* p is before q
    \/ IsStrictPrefix(p, q)
    \/ \E k \in DOMAIN p \cap DOMAIN q :
          p[k] < q[k] /\ \A j \in 1..(k - 1) : p[j] = q[j]

RECURSIVE Places(_)
Places(n) ==
    {<<>>} \cup
    IF Kind(n) \in UnaryKinds \cup BinaryKinds
    THEN UNION {{<<k>> \o p : p \in Places(n[k])} : k \in 2..Len(n)}
    ELSE {}

FirstWhere(n, Test(_)) ==
    LET hits == {p \in Places(n) : Test(SubAt(n, p))}
    IN  IF hits = {} THEN NoPath
        ELSE CHOOSE p \in hits : \A q \in hits \ {p} : Preorder(p, q)

\* find_kind: the first node of a kind.
FindKind(n, k) == FirstWhere(n, LAMBDA m : Kind(m) = k)

\* C[limit] = (limit && C[true]) || C[false].
LiftLimit(n) ==
    LET p == NearestLimit(n)
    IN  Or(And(SubAt(n, p), PutAt(n, p, True)), PutAt(n, p, False))

SickertStage2(n) ==
    LET nnf == ToNnf(n, TRUE, FALSE)
        at == FirstWhere(nnf, LAMBDA m : NearestLimit(m) # NoPath)
    IN  IF Obstacles(nnf).limit_under_temporal = 0 \/ at = NoPath THEN n
        ELSE ApplyRewrites(PutAt(nnf, at, LiftLimit(SubAt(nnf, at))), {"simplify"}, RwCap)

GF(f) == <<"G", <<"F", f>>>>
FG(f) == <<"F", <<"G", f>>>>

\* GF C[a W b] = GF C[a U b] || (FG a && GF C[true]).
WeakInGF(n) == IF IsGF(n) THEN FindKind(n[2][2], "W") ELSE NoPath
ReplaceWeak(n) ==
    LET body == n[2][2]
        p == WeakInGF(n)
        w == SubAt(body, p)
    IN  Or(GF(PutAt(body, p, <<"U", w[2], w[3]>>)),
           And(FG(w[2]), GF(PutAt(body, p, True))))

\* FG C[a U b] = (GF b && FG C[a W b]) || FG C[false].
UntilInFG(n) == IF IsFG(n) THEN FindKind(n[2][2], "U") ELSE NoPath
ReplaceUntil(n) ==
    LET body == n[2][2]
        p == UntilInFG(n)
        u == SubAt(body, p)
    IN  Or(And(GF(u[3]), FG(PutAt(body, p, <<"W", u[2], u[3]>>))),
           FG(PutAt(body, p, False)))

SickertStage3(n) ==
    LET nnf == ToNnf(n, TRUE, FALSE)
        ob == Obstacles(nnf)
        at == FirstWhere(nnf, LAMBDA m : WeakInGF(m) # NoPath \/ UntilInFG(m) # NoPath)
        m == SubAt(nnf, at)
    IN  IF (ob.w_under_gf = 0 /\ ob.u_under_fg = 0) \/ at = NoPath THEN n
        ELSE ApplyRewrites(
               PutAt(nnf, at, IF WeakInGF(m) # NoPath THEN ReplaceWeak(m)
                              ELSE ReplaceUntil(m)),
               {"simplify"}, RwCap)

-----------------------------------------------------------------------------
\* The driver.

ApplyPassOnce(p, n, finite) ==
    LET fin == IF finite THEN {"finite"} ELSE {}
    IN  CASE p = "nnf" -> ToNnf(n, TRUE, finite)
          [] p = "weak" -> ApplyRewrites(n, {"simplify"} \cup fin, RwCap)
          [] p = "bool-canon" -> BoolCanon(n)
          [] p = "or-to-impl-pattern" -> OrToImpl(n)
          [] p = "equiv-output-side" -> EquivOutputSide(n)
          [] p = "mutex-demorgan" -> MutexDeMorgan(n)
          [] p = "pre-indexed-x" -> PreIndexedX(n)
          [] p = "pre-bounded-bool" -> PreBoundedBool(n)
          [] p = "pre-weak" -> PreWeak(n, finite)
          [] p = "route-safe" ->
               ApplyRewrites(n, {"nnf", "push_g", "push_x", "simplify"} \cup fin, RwCap)
          [] p = "sickert-stage2" -> SickertStage2(n)
          [] p = "sickert-stage3" -> SickertStage3(n)
          [] OTHER -> n

\* A candidate over a cap is rejected and the pass abandoned.
Rejected(count, n0, opts) ==
    \/ opts.maxNodes # 0 /\ count > opts.maxNodes
    \/ opts.maxGrowth # 0 /\ count > n0 + (n0 * opts.maxGrowth) \div 100

\* tlsf_normalize_formula on a schedule of one pass, item.
NormalizeFormula(root, item, opts) ==
    LET asked == IF item.iter = 0 THEN 1 ELSE item.iter
        iters == IF opts.maxIter # 0 /\ asked > opts.maxIter THEN opts.maxIter ELSE asked
        n0 == NodeCount(root)
        RECURSIVE Iterate(_, _)
        Iterate(cur, left) ==
            LET cand == ApplyPassOnce(item.pass, cur, opts.finite)
            IN  IF left = 0 \/ Rejected(NodeCount(cand), n0, opts) THEN cur
                ELSE IF NodeEq(cand, cur) THEN cand
                ELSE Iterate(cand, left - 1)
    IN  IF item.pass \in {"split", "pre-spine-split"} THEN root ELSE Iterate(root, iters)
=============================================================================
