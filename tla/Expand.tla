------------------------------- MODULE Expand -------------------------------
(***************************************************************************)
(* expand.c: high-level nodes to plain LTL, for the transaction ExpandRun. *)
(*                                                                         *)
(* A specification S is a record: params (a sequence of [name, value,      *)
(* has]), defs (a sequence of [name, params, body]), buses (name to        *)
(* [lo, hi] for the bus signals), scalars (names), labels (label name to   *)
(* its sequence of valuations, each a sequence over "0", "1", "*").        *)
(* env maps parameters and bound variables to integers.  Every evaluator   *)
(* returns Fail where the code reports an error.  Source identifiers and   *)
(* the bounded-operator metadata kept for printers are left out.           *)
(***************************************************************************)
EXTENDS Formula, SequencesExt, ExpandRun

CONSTANT MaxDepth       \* MAX_DEPTH: bound on definition recursion

Fail == <<"fail">>

NumericKinds == {"int", "add", "sub", "mul", "div", "mod", "neg", "sizeof",
                 "size", "min", "max", "sum", "product"}
SetKinds == {"set", "enum", "union", "inter", "diff", "bigunion", "biginter"}

\* env_lookup and the child environments of binders.
Bind(env, x, v) == [y \in DOMAIN env \cup {x} |-> IF y = x THEN v ELSE env[y]]

\* find_def: the first definition with this name and arity.
Matching(S, name, argc) ==
    {k \in DOMAIN S.defs : S.defs[k].name = name /\ Len(S.defs[k].params) = argc}
FindDef(S, name, argc) == S.defs[Min(Matching(S, name, argc))]

\* The body of a definition without parameters, or Fail.
NamedBody(S, x) == IF Matching(S, x, 0) = {} THEN Fail ELSE FindDef(S, x, 0).body

\* subst: a copy of the body with every formal replaced by its actual.  Bound
\* variables of reductions in the body are not renamed.
SubstName(x, m) ==
    IF x \in DOMAIN m /\ Kind(m[x]) = "ap" THEN m[x][2] ELSE x

RECURSIVE Subst(_, _)
Subst(n, m) ==
    IF Kind(n) \in {"ap", "var"}
    THEN IF n[2] \in DOMAIN m THEN m[n[2]] ELSE n
    ELSE <<>> \o [k \in 1..Len(n) |->
            IF k \in ChildrenAt(n) THEN Subst(n[k], m)
            ELSE IF k = 2 /\ Kind(n) \in {"sizeof", "bus"} THEN SubstName(n[2], m)
            ELSE n[k]]

Actuals(d, n) == [x \in Range(d.params) |->
                    n[2 + CHOOSE k \in DOMAIN d.params : d.params[k] = x]]

\* bus_width.
BusWidth(S, x) ==
    CASE x \in DOMAIN S.buses -> <<"I", S.buses[x].hi - S.buses[x].lo + 1>>
      [] x \in S.scalars -> <<"I", 1>>
      [] OTHER -> Fail

\* C's division and remainder round towards zero.
Quotient(a, b) ==
    LET p(x) == IF x < 0 THEN -x ELSE x
        q == p(a) \div p(b)
    IN  IF (a < 0) = (b < 0) THEN q ELSE -q

Arithmetic(k, a, b) ==
    CASE k = "add" -> <<"I", a + b>>
      [] k = "sub" -> <<"I", a - b>>
      [] k = "mul" -> <<"I", a * b>>
      [] b = 0 -> Fail
      [] k = "div" -> <<"I", Quotient(a, b)>>
      [] k = "mod" -> <<"I", a - b * Quotient(a, b)>>

Compare(k, a, b) ==
    CASE k = "lt" -> a < b [] k = "le" -> a <= b
      [] k = "gt" -> a > b [] k = "ge" -> a >= b

\* A value is <<"I", integer>>, <<"N", node>> or <<"S", set of values>>.  An
\* evaluated set is <<"S", members>>: members [val, src] without two equal
\* values (set_add), in the order the code adds them.
Values(s) == {s[k].val : k \in DOMAIN s}

\* node_structural_equal and value_equal: same kind and same active payload,
\* the strong flag included; sets are compared by their members.
NodeStructuralEqual(l, r) == l = r
ValueEqual(a, b) ==
    a[1] = b[1] /\ IF a[1] = "N" THEN NodeStructuralEqual(a[2], b[2]) ELSE a[2] = b[2]

SetAdd(s, item) ==
    IF \E k \in DOMAIN s : ValueEqual(s[k].val, item.val) THEN s ELSE Append(s, item)
RECURSIVE SetAddAll(_, _)
SetAddAll(s, items) ==
    IF items = <<>> THEN s ELSE SetAddAll(SetAdd(s, items[1]), Tail(items))
IntItem(v) == [val |-> <<"I", v>>, src |-> <<"int", v>>]

\* The evaluators call each other; every such call is of Eval, which names the
\* one that is meant and passes an earlier error on.
RECURSIVE Eval(_, _, _, _, _)
Evaluate(what, S, n, env, d) == Eval(what, S, n, env, d)
IntOf(S, n, env, d) == Evaluate("int", S, n, env, d)
BoolOf(S, n, env, d) == Evaluate("bool", S, n, env, d)
ValueOf(S, n, env, d) == Evaluate("value", S, n, env, d)
SetOf(S, n, env, d) == Evaluate("set", S, n, env, d)
DomainOf(S, n, env, d) == Evaluate("domain", S, n, env, d)
BranchOf(S, n, env, d) == Evaluate("branch", S, n, env, d)
NodeOf(S, n, env, d) == Evaluate("node", S, n, env, d)

\* The body of a definition call after substitution, or Fail.
Instantiated(d, n) == Subst(d.body, Actuals(d, n))
CallBody(S, n) ==
    IF Matching(S, n[2], Len(n) - 2) = {} THEN Fail
    ELSE Instantiated(FindDef(S, n[2], Len(n) - 2), n)

\* bind_reduction_body: an integer member extends the environment, any other
\* member is substituted for the bound variable.
BoundBody(n, item) ==
    IF item.val[1] = "I" THEN n[4]
    ELSE Subst(n[4], [x \in {n[2]} |-> item.src])
BoundEnv(n, item, env) ==
    IF item.val[1] = "I" THEN Bind(env, n[2], item.val[2]) ELSE env

\* The last member of a range with an inclusive upper end is forgotten.
EvalDomainOpen(S, n, env, d) ==
    LET dom == n[3]
    IN  IF Kind(dom) # "range" THEN SetOf(S, dom, env, d + 1)
        ELSE LET lo == IntOf(S, dom[3], env, d + 1)
                 hi == IntOf(S, dom[4], env, d + 1)
             IN  IF Fail \in {lo, hi} THEN Fail
                 ELSE LET first == lo[2] + (IF dom[2].lo THEN 1 ELSE 0)
                      IN  <<"S", [k \in 1..(hi[2] - first) |-> IntItem(first + k - 1)]>>

\* eval_domain: an integer range with strict or inclusive ends, or a set.
EvalDomain(S, n, env, d) ==
    LET dom == n[3]
    IN  IF Kind(dom) # "range" THEN SetOf(S, dom, env, d + 1)
        ELSE LET lo == IntOf(S, dom[3], env, d + 1)
                 hi == IntOf(S, dom[4], env, d + 1)
             IN  IF Fail \in {lo, hi} THEN Fail
                 ELSE LET first == lo[2] + (IF dom[2].lo THEN 1 ELSE 0)
                          last == hi[2] - (IF dom[2].hi THEN 1 ELSE 0)
                      IN  <<"S", [k \in 1..(last - first + 1) |->
                                    IntItem(first + k - 1)]>>

\* The values of a reduction's body, one for every member of its domain.
Terms(what, S, n, env, d, dom) ==
    IF dom = Fail THEN Fail
    ELSE <<"S", [k \in DOMAIN dom[2] |->
           Evaluate(what, S, BoundBody(n, dom[2][k]), BoundEnv(n, dom[2][k], env), d + 1)]>>

\* SUM and PROD.
RECURSIVE Reduced(_, _)
Reduced(k, vs) ==
    IF vs = <<>> THEN IF k = "sum" THEN 0 ELSE 1
    ELSE Arithmetic(IF k = "sum" THEN "add" ELSE "mul", vs[1][2], Reduced(k, Tail(vs)))[2]

IntTotal(k, terms) ==
    IF terms = Fail \/ Fail \in Range(terms[2]) THEN Fail
    ELSE <<"I", Reduced(k, terms[2])>>

\* eval_int_reduction: an error in any term is an error.
EvalIntReduction(S, n, env, d) ==
    IntTotal(Kind(n), Terms("int", S, n, env, d, DomainOf(S, n, env, d + 1)))

\* MIN and MAX need a nonempty set of integers.
Extremum(k, s) ==
    IF s = <<>> \/ \E j \in DOMAIN s : s[j].val[1] # "I" THEN Fail
    ELSE LET vs == {s[j].val[2] : j \in DOMAIN s}
         IN  <<"I", CHOOSE v \in vs : \A u \in vs :
                      IF k = "min" THEN v <= u ELSE v >= u>>

\* eval_int.
EvalInt(S, n, env, d) ==
    LET k == Kind(n)
    IN  IF d > MaxDepth THEN Fail
        ELSE CASE k = "int" -> <<"I", n[2]>>
          [] k \in {"var", "ap"} ->
               IF n[2] \in DOMAIN env THEN <<"I", env[n[2]]>>
               ELSE IntOf(S, NamedBody(S, n[2]), env, d + 1)
          [] k = "sizeof" -> BusWidth(S, n[2])
          [] k \in {"size", "min", "max"} ->
               LET s == SetOf(S, n[2], env, d + 1)
               IN  IF s = Fail THEN Fail
                   ELSE IF k = "size" THEN <<"I", Len(s[2])>>
                   ELSE Extremum(k, s[2])
          [] k = "neg" ->
               LET a == IntOf(S, n[2], env, d)
               IN  IF a = Fail THEN Fail ELSE <<"I", -a[2]>>
          [] k = "call" -> IntOf(S, CallBody(S, n), env, d + 1)
          [] k = "ite" -> IntOf(S, BranchOf(S, n, env, d + 1), env, d + 1)
          [] k \in {"sum", "product"} -> EvalIntReduction(S, n, env, d + 1)
          [] k \in {"add", "sub", "mul", "div", "mod"} ->
               LET a == IntOf(S, n[2], env, d)
                   b == IntOf(S, n[3], env, d)
               IN  IF Fail \in {a, b} THEN Fail ELSE Arithmetic(k, a[2], b[2])
          [] OTHER -> Fail

\* The value of a comparison or connective of two values.
Relation(k, a, b) ==
    CASE k = "eq" -> ValueEqual(a, b) [] k = "ne" -> ~ValueEqual(a, b)
      [] k = "and" -> a[2] /\ b[2] [] k = "or" -> a[2] \/ b[2]
      [] k = "impl" -> a[2] => b[2] [] k = "equiv" -> a[2] <=> b[2]
      [] OTHER -> Compare(k, a[2], b[2])
Related(k, pair) ==
    IF Fail \in Range(pair) THEN Fail ELSE <<"B", Relation(k, pair[1], pair[2])>>

\* eval_bool: both operands of a connective are evaluated, so an error in
\* either is an error of the guard.
EvalBool(S, n, env, d) ==
    LET k == Kind(n)
        Pair(what, e) == <<Evaluate(what, S, n[2], env, e),
                           Evaluate(what, S, n[3], env, e)>>
    IN  IF d > MaxDepth THEN Fail
        ELSE CASE k \in {"true", "false"} -> <<"B", k = "true">>
          [] k \in {"eq", "ne"} -> Related(k, Pair("value", d + 1))
          [] k \in {"lt", "le", "gt", "ge"} -> Related(k, Pair("int", d))
          [] k = "in" ->
               LET v == ValueOf(S, n[2], env, d + 1)
                   s == SetOf(S, n[3], env, d + 1)
               IN  IF v = Fail \/ s = Fail THEN Fail ELSE <<"B", v \in Values(s[2])>>
          [] k = "not" ->
               LET a == BoolOf(S, n[2], env, d)
               IN  IF a = Fail THEN Fail ELSE <<"B", ~a[2]>>
          [] k \in {"and", "or", "impl", "equiv"} -> Related(k, Pair("bool", d))
          [] k = "ite" -> BoolOf(S, BranchOf(S, n, env, d + 1), env, d + 1)
          [] k = "call" -> BoolOf(S, CallBody(S, n), env, d + 1)
          [] OTHER -> Fail

\* eval_value: the value of an expression; what is neither a number nor a set
\* is itself.
EvalValue(S, n, env, d) ==
    LET k == Kind(n)
    IN  IF d > MaxDepth THEN Fail
        ELSE CASE k \in NumericKinds -> IntOf(S, n, env, d + 1)
          [] k \in SetKinds ->
               LET s == SetOf(S, n, env, d + 1)
               IN  IF s = Fail THEN Fail ELSE <<"S", Values(s[2])>>
          [] k \in {"ap", "var"} ->
               IF n[2] \in DOMAIN env THEN <<"I", env[n[2]]>>
               ELSE IF Matching(S, n[2], 0) = {} THEN <<"N", n>>
               ELSE ValueOf(S, NamedBody(S, n[2]), env, d + 1)
          [] k = "call" -> ValueOf(S, CallBody(S, n), env, d + 1)
          [] k = "ite" -> ValueOf(S, BranchOf(S, n, env, d + 1), env, d + 1)
          [] OTHER -> <<"N", n>>

\* The stepped range { first, second .. last }.
Stepped(first, second, last) ==
    LET step == second - first
        size == IF step > 0 THEN (last - first) \div step
                            ELSE (first - last) \div (-step)
    IN  CASE step = 0 -> Fail
          [] (step > 0 /\ first > last) \/ (step < 0 /\ first < last) -> <<"S", <<>>>>
          [] OTHER -> <<"S", [k \in 1..(size + 1) |-> IntItem(first + (k - 1) * step)]>>

\* The members of s whose value is in vs, or is not.
RECURSIVE Filter(_, _, _)
Filter(s, vs, kept) ==
    IF s = <<>> THEN <<>>
    ELSE (IF (s[1].val \in vs) = kept THEN <<s[1]>> ELSE <<>>) \o Filter(Tail(s), vs, kept)
Meet(s, t) == Filter(s, Values(t), TRUE)

\* eval_set_reduction: an intersection over an empty domain is an error.
RECURSIVE Folded(_, _)
Folded(k, ts) ==
    IF Len(ts) = 1 THEN ts[1][2]
    ELSE IF k = "bigunion" THEN SetAddAll(Folded(k, Front(ts)), Last(ts)[2])
    ELSE Meet(Folded(k, Front(ts)), Last(ts)[2])

SetTotal(k, terms) ==
    CASE terms = Fail -> Fail
      [] terms[2] = <<>> -> IF k = "biginter" THEN Fail ELSE <<"S", <<>>>>
      [] Fail \in Range(terms[2]) -> Fail
      [] OTHER -> <<"S", Folded(k, terms[2])>>

EvalSetReduction(S, n, env, d) ==
    SetTotal(Kind(n), Terms("set", S, n, env, d, DomainOf(S, n, env, d + 1)))

Combined(k, s, t) ==
    CASE k = "union" -> SetAddAll(s, t)
      [] k = "inter" -> Meet(s, t)
      [] k = "diff" -> Filter(s, Values(t), FALSE)

\* eval_set.
EvalSet(S, n, env, d) ==
    LET k == Kind(n)
        Elem(j) == ValueOf(S, n[j], env, d + 1)
        Item(j) == [val |-> Elem(j), src |-> n[j]]
    IN  IF d > MaxDepth THEN Fail
        ELSE CASE k = "set" ->
               IF \E j \in 2..Len(n) : Elem(j) = Fail THEN Fail
               ELSE <<"S", SetAddAll(<<>>, [j \in 1..(Len(n) - 1) |-> Item(j + 1)])>>
          [] k = "enum" ->
               LET v == [j \in 1..3 |-> IntOf(S, n[j + 1], env, d + 1)]
               IN  IF Fail \in Range(v) THEN Fail
                   ELSE Stepped(v[1][2], v[2][2], v[3][2])
          [] k \in {"union", "inter", "diff"} ->
               LET l == SetOf(S, n[2], env, d + 1)
                   r == SetOf(S, n[3], env, d + 1)
               IN  IF Fail \in {l, r} THEN Fail ELSE <<"S", Combined(k, l[2], r[2])>>
          [] k \in {"ap", "var"} -> SetOf(S, NamedBody(S, n[2]), env, d + 1)
          [] k = "call" -> SetOf(S, CallBody(S, n), env, d + 1)
          [] k = "ite" -> SetOf(S, BranchOf(S, n, env, d + 1), env, d + 1)
          [] k \in {"bigunion", "biginter"} -> EvalSetReduction(S, n, env, d + 1)
          [] OTHER -> Fail
-----------------------------------------------------------------------------
\* Guards.

Declared(S, x) == \/ \E k \in DOMAIN S.params : S.params[k].name = x
                  \/ \E k \in DOMAIN S.defs : S.defs[k].name = x
                  \/ x \in DOMAIN S.buses \cup S.scalars

\* match_pattern: the bindings of the pattern's identifiers after matching,
\* <<"no">> when the shapes differ, Fail when an identifier is declared
\* elsewhere.  A repeated identifier must meet the same syntax again.
RECURSIVE MatchPattern(_, _, _, _)
MatchPattern(S, subject, pattern, b) ==
    LET x == pattern[2]
        k == Kind(pattern)
    IN  CASE k = "ap" ->
               (CASE x = <<"_">> -> <<"m", b>>
                  [] Declared(S, x) -> Fail
                  [] x \in DOMAIN b ->
                       IF NodeStructuralEqual(b[x], subject) THEN <<"m", b>> ELSE <<"no">>
                  [] OTHER -> <<"m", Bind(b, x, subject)>>)
          [] Kind(subject) # k -> <<"no">>
          [] k \in {"true", "false"} -> <<"m", b>>
          [] k \in UnaryKinds -> MatchPattern(S, subject[2], x, b)
          [] k \in BinaryKinds ->
               LET l == MatchPattern(S, subject[2], x, b)
               IN  IF l[1] # "m" THEN l
                   ELSE MatchPattern(S, subject[3], pattern[3], l[2])
          [] k = "call" -> Fail
          [] OTHER -> <<"no">>

\* select_ite_branch.
SelectBranch(S, n, env, d) ==
    IF Kind(n[2]) # "match"
    THEN LET c == BoolOf(S, n[2], env, d + 1)
         IN  IF c = Fail THEN Fail ELSE IF c[2] THEN n[3] ELSE n[4]
    ELSE LET subject == NodeOf(S, n[2][2], env, d + 1)
             hit == IF subject = Fail THEN Fail
                    ELSE MatchPattern(S, subject, n[2][3], <<>>)
         IN  CASE hit = Fail -> Fail
               [] hit = <<"no">> -> n[4]
               [] OTHER -> Subst(n[3], hit[2])

-----------------------------------------------------------------------------
\* Formulas.

\* bus_elem_name.
BusElem(bus, k) == Ap(Append(bus, k))

\* The left-nested conjunction or disjunction of the parts.
RECURSIVE Conjoin(_, _)
Conjoin(k, parts) ==
    IF Len(parts) = 1 THEN parts[1] ELSE <<k, Conjoin(k, Front(parts)), Last(parts)>>

\* bus == LABEL: one of the label's valuations, "*" leaving its bit free.
RECURSIVE Literals(_, _, _)
Literals(bus, valuation, k) ==
    IF k = 0 THEN <<>>
    ELSE Literals(bus, valuation, k - 1)
         \o (CASE valuation[k] = "*" -> <<>>
               [] valuation[k] = "1" -> <<BusElem(bus, k - 1)>>
               [] OTHER -> <<Not(BusElem(bus, k - 1))>>)

LabelBits(bus, valuation) ==
    IF Range(valuation) = {"*"} THEN True
    ELSE Conjoin("and", Literals(bus, valuation, Len(valuation)))

LabelMatch(S, label, bus) ==
    IF S.labels[label] = <<>> THEN False
    ELSE Conjoin("or", [k \in DOMAIN S.labels[label] |->
                          LabelBits(bus, S.labels[label][k])])

IsLabel(S, n) == Kind(n) = "ap" /\ n[2] \in DOMAIN S.labels

ExpandEquality(S, n, env, d) ==
    LET label == IF IsLabel(S, n[3]) THEN n[3] ELSE n[2]
        bus == IF IsLabel(S, n[3]) THEN n[2] ELSE n[3]
        match == LabelMatch(S, label[2], bus[2])
        b == BoolOf(S, n, env, d)
    IN  IF IsLabel(S, label)
        THEN IF Kind(bus) # "ap" THEN Fail
             ELSE IF Kind(n) = "ne" THEN Not(match) ELSE match
        ELSE IF b = Fail THEN Fail ELSE IF b[2] THEN True ELSE False

\* count-fold next.
RECURSIVE Nexts(_, _, _)
Nexts(strong, count, f) ==
    IF count = 0 THEN f
    ELSE <<IF strong THEN "X!" ELSE "X", Nexts(strong, count - 1, f)>>

\* expand_quantifier.
Quantified(k, terms) ==
    CASE terms = Fail -> Fail
      [] terms[2] = <<>> -> IF k = "forall" THEN True ELSE False
      [] Fail \in Range(terms[2]) -> Fail
      [] OTHER -> Conjoin(IF k = "forall" THEN "and" ELSE "or", terms[2])

ExpandQuantifier(S, n, env, d) ==
    Quantified(Kind(n), Terms("node", S, n, env, d, DomainOf(S, n, env, d + 1)))

\* G[lo:hi] and F[lo:hi].
ExpandRange(S, n, env, d) ==
    LET lo == IntOf(S, n[3], env, d)
        hi == IntOf(S, n[4], env, d)
        body == NodeOf(S, n[5], env, d)
        conj == Kind(n) = "Grange"
    IN  CASE Fail \in {lo, hi} -> Fail
          [] lo[2] < 0 \/ hi[2] < 0 -> Fail
          [] lo[2] > hi[2] -> IF conj THEN True ELSE False
          [] body = Fail -> Fail
          [] OTHER -> Conjoin(IF conj THEN "and" ELSE "or",
                        [k \in 1..(hi[2] - lo[2] + 1) |->
                           Nexts(n[2], lo[2] + k - 1, body)])

\* expand_node.
ExpandNode(S, n, env, d) ==
    LET k == Kind(n)
        Below(c) == NodeOf(S, c, env, d)
        Constant(b) == IF b = Fail THEN Fail ELSE IF b[2] THEN True ELSE False
    IN  IF d > MaxDepth THEN Fail
        ELSE CASE k \in {"true", "false"} -> n
          [] k = "ap" ->
               IF Matching(S, n[2], 0) = {} THEN n
               ELSE NodeOf(S, NamedBody(S, n[2]), env, d + 1)
          [] k \in UnaryKinds \cup BinaryKinds ->
               LET m == <<>> \o [j \in 1..Len(n) |->
                          IF j \in ChildrenAt(n) THEN Below(n[j]) ELSE n[j]]
               IN  IF \E j \in ChildrenAt(n) : m[j] = Fail THEN Fail ELSE m
          [] k \in {"eq", "ne"} -> ExpandEquality(S, n, env, d)
          [] k \in {"lt", "le", "gt", "ge", "in"} -> Constant(BoolOf(S, n, env, d + 1))
          [] k = "bus" ->
               LET i == IntOf(S, n[3], env, d)
               IN  IF i = Fail THEN Fail ELSE BusElem(n[2], i[2])
          [] k \in {"forall", "exists"} -> ExpandQuantifier(S, n, env, d)
          [] k = "next" ->
               LET c == IntOf(S, n[3], env, d)
                   body == Below(n[4])
               IN  IF c = Fail \/ body = Fail THEN Fail
                   ELSE IF c[2] < 0 THEN Fail ELSE Nexts(n[2], c[2], body)
          [] k \in {"Grange", "Frange"} -> ExpandRange(S, n, env, d)
          [] k = "ite" -> NodeOf(S, BranchOf(S, n, env, d + 1), env, d + 1)
          [] k = "call" -> NodeOf(S, CallBody(S, n), env, d + 1)
          [] OTHER -> Fail

Eval(what, S, n, env, d) ==
    CASE n = Fail -> Fail
      [] what = "int" -> EvalInt(S, n, env, d)
      [] what = "bool" -> EvalBool(S, n, env, d)
      [] what = "value" -> EvalValue(S, n, env, d)
      [] what = "set" -> EvalSet(S, n, env, d)
      [] what = "domain" -> EvalDomain(S, n, env, d)
      [] what = "branch" -> SelectBranch(S, n, env, d)
      [] what = "node" -> ExpandNode(S, n, env, d)

\* eval_int and expand_node as expand() calls them.
IntAtTop(S, n, env) == IntOf(S, n, env, 0)
NodeAtTop(S, n, env) == NodeOf(S, n, env, 0)

-----------------------------------------------------------------------------
(***************************************************************************)
(* What a high-level formula means, without expanding it: the reference    *)
(* for Expand.  An environment rho maps a name to a number <<"I", k>> or   *)
(* to a closure <<"C", node, environment>>; names are resolved where they  *)
(* are written, numbers and sets are mathematical ones, and a formula      *)
(* denotes the set of positions of a word where it holds.  All operators   *)
(* are used only on formulas whose expressions are defined.                *)
(***************************************************************************)
With(rho, x, v) == [y \in DOMAIN rho \cup {x} |-> IF y = x THEN v ELSE rho[y]]

Parameters(S) == [x \in {S.params[k].name : k \in DOMAIN S.params} |->
                    <<"I", (CHOOSE p \in Range(S.params) : p.name = x).value>>]

\* The definition and the environment its body is read in.
Definition(S, n) == FindDef(S, n[2], Len(n) - 2)
Called(S, n, rho) ==
    LET d == Definition(S, n)
        formal(k) == d.params[k]
    IN  [x \in DOMAIN Parameters(S) \cup Range(d.params) |->
           IF x \in Range(d.params)
           THEN <<"C", n[2 + CHOOSE k \in DOMAIN d.params : formal(k) = x], rho>>
           ELSE Parameters(S)[x]]

\* The formula a name stands for; patterns of the form "operator name" only.
RECURSIVE Written(_, _)
Written(n, rho) ==
    IF Kind(n) = "ap" /\ n[2] \in DOMAIN rho
    THEN Written(rho[n[2]][2], rho[n[2]][3])
    ELSE <<"C", n, rho>>

\* A bus named by a formal is the actual's bus.
BusName(x, rho) ==
    IF x \in DOMAIN rho /\ rho[x][1] = "C" /\ Kind(rho[x][2]) = "ap"
    THEN rho[x][2][2] ELSE x

RECURSIVE Num(_, _, _), Truth(_, _, _), Members(_, _, _), Instances(_, _, _),
          Holds(_, _, _, _)

Instances(S, n, rho) ==
    IF Kind(n[3]) = "range"
    THEN LET lo == Num(S, n[3][3], rho)
             hi == Num(S, n[3][4], rho)
         IN  {<<"I", v>> : v \in {u \in lo..hi : (n[3][2].lo => u # lo) /\
                                                  (n[3][2].hi => u # hi)}}
    ELSE Members(S, n[3], rho)

Num(S, n, rho) ==
    LET k == Kind(n)
        a == Num(S, n[2], rho)
        b == Num(S, n[3], rho)
        RECURSIVE Total(_)
        Total(V) == IF V = {} THEN IF k = "sum" THEN 0 ELSE 1
                    ELSE LET v == CHOOSE v \in V : TRUE
                             t == Num(S, n[4], With(rho, n[2], v))
                         IN  IF k = "sum" THEN t + Total(V \ {v})
                                          ELSE t * Total(V \ {v})
    IN  CASE k = "int" -> n[2]
          [] k \in {"var", "ap"} ->
               IF n[2] \in DOMAIN rho
               THEN IF rho[n[2]][1] = "I" THEN rho[n[2]][2]
                    ELSE Num(S, rho[n[2]][2], rho[n[2]][3])
               ELSE Num(S, FindDef(S, n[2], 0).body, Parameters(S))
          [] k = "sizeof" -> Cardinality(S.buses[BusName(n[2], rho)].lo..S.buses[BusName(n[2], rho)].hi)
          [] k = "size" -> Cardinality(Members(S, n[2], rho))
          [] k = "min" -> CHOOSE v \in {m[2] : m \in Members(S, n[2], rho)} :
                            \A m \in Members(S, n[2], rho) : v <= m[2]
          [] k = "max" -> CHOOSE v \in {m[2] : m \in Members(S, n[2], rho)} :
                            \A m \in Members(S, n[2], rho) : v >= m[2]
          [] k = "add" -> a + b
          [] k = "sub" -> a - b
          [] k = "mul" -> a * b
          [] k = "div" -> CHOOSE q \in -9..9 : \E r \in -9..9 :
                            a = q * b + r /\ r * r < b * b /\ r * a >= 0
          [] k = "mod" -> CHOOSE r \in -9..9 : \E q \in -9..9 :
                            a = q * b + r /\ r * r < b * b /\ r * a >= 0
          [] k = "call" -> Num(S, Definition(S, n).body, Called(S, n, rho))
          [] k = "ite" -> Num(S, IF Truth(S, n[2], rho) THEN n[3] ELSE n[4], rho)
          [] k \in {"sum", "product"} -> Total(Instances(S, n, rho))

Members(S, n, rho) ==
    CASE Kind(n) = "set" ->
           {IF Kind(n[k]) \in NumericKinds \cup {"var"} THEN <<"I", Num(S, n[k], rho)>>
            ELSE <<"C", n[k], rho>> : k \in 2..Len(n)}
      [] Kind(n) = "enum" ->
           LET first == Num(S, n[2], rho)
               step == Num(S, n[3], rho) - first
               last == Num(S, n[4], rho)
           IN  {<<"I", v>> : v \in {u \in -9..9 : \E j \in 0..9 :
                  u = first + j * step /\ (IF step > 0 THEN u <= last ELSE u >= last)}}
      [] Kind(n) = "union" -> Members(S, n[2], rho) \cup Members(S, n[3], rho)
      [] Kind(n) = "inter" -> Members(S, n[2], rho) \cap Members(S, n[3], rho)
      [] Kind(n) = "diff" -> Members(S, n[2], rho) \ Members(S, n[3], rho)
      [] Kind(n) = "bigunion" ->
           UNION {Members(S, n[4], With(rho, n[2], v)) : v \in Instances(S, n, rho)}
      [] Kind(n) = "biginter" ->
           LET each == {Members(S, n[4], With(rho, n[2], v)) : v \in Instances(S, n, rho)}
           IN  {m \in UNION each : \A s \in each : m \in s}

Truth(S, n, rho) ==
    LET k == Kind(n)
        a == Num(S, n[2], rho)
        b == Num(S, n[3], rho)
    IN  CASE k = "true" -> TRUE
          [] k = "eq" -> a = b
          [] k = "ne" -> a # b
          [] k \in {"lt", "le", "gt", "ge"} -> Compare(k, a, b)
          [] k = "in" -> <<"I", a>> \in Members(S, n[3], rho)
          [] k = "not" -> ~Truth(S, n[2], rho)
          [] k = "and" -> Truth(S, n[2], rho) /\ Truth(S, n[3], rho)
          [] k = "or" -> Truth(S, n[2], rho) \/ Truth(S, n[3], rho)

\* A valuation of a label against a letter.
Shows(letter, bus, valuation) ==
    \A k \in DOMAIN valuation :
        valuation[k] # "*" => (valuation[k] = "1" <=> Append(bus, k - 1) \in letter)

\* The positions reached by k steps, where they exist; the rest satisfy a weak
\* next and not a strong one.
RECURSIVE Steps(_, _, _, _)
Steps(w, strong, k, Z) ==
    IF k = 0 THEN Z
    ELSE LET Y == Steps(w, strong, k - 1, Z)
         IN  IF strong THEN StrongBefore(w, Y) ELSE WeakBefore(w, Y)

Holds(S, n, rho, w) ==
    LET k == Kind(n)
        Sub(j) == Holds(S, n[j], rho, w)
        Const(b) == IF b THEN Positions(w) ELSE {}
    IN  CASE k \in {"true", "false"} -> Const(k = "true")
          [] k = "ap" ->
               (CASE n[2] \in DOMAIN rho -> Holds(S, rho[n[2]][2], rho[n[2]][3], w)
                  [] Matching(S, n[2], 0) # {} ->
                       Holds(S, FindDef(S, n[2], 0).body, Parameters(S), w)
                  [] OTHER -> Sat(n, w))
          [] k = "not" -> Positions(w) \ Sub(2)
          [] k = "and" -> Sub(2) \cap Sub(3)
          [] k = "or" -> Sub(2) \cup Sub(3)
          [] k = "G" -> WeakUntil(w, Sub(2), {})
          [] k = "F" -> Until(w, Positions(w), Sub(2))
          [] k = "bus" ->
               {i \in Positions(w) :
                  Append(BusName(n[2], rho), Num(S, n[3], rho)) \in w.letters[i]}
          [] k \in {"eq", "ne"} /\ IsLabel(S, n[3]) ->
               LET hit == {i \in Positions(w) : \E j \in DOMAIN S.labels[n[3][2]] :
                             Shows(w.letters[i], n[2][2], S.labels[n[3][2]][j])}
               IN  IF k = "eq" THEN hit ELSE Positions(w) \ hit
          [] k \in {"eq", "ne", "lt", "le", "gt", "ge", "in"} -> Const(Truth(S, n, rho))
          [] k \in {"forall", "exists"} ->
               LET each == {Holds(S, n[4], With(rho, n[2], v), w) :
                              v \in Instances(S, n, rho)}
               IN  IF k = "exists" THEN UNION each
                   ELSE {i \in Positions(w) : \A s \in each : i \in s}
          [] k = "next" -> Steps(w, n[2], Num(S, n[3], rho), Sub(4))
          [] k = "Grange" ->
               {i \in Positions(w) :
                  \A j \in Num(S, n[3], rho)..Num(S, n[4], rho) :
                     i \in Steps(w, n[2], j, Sub(5))}
          [] k = "Frange" ->
               {i \in Positions(w) :
                  \E j \in Num(S, n[3], rho)..Num(S, n[4], rho) :
                     i \in Steps(w, n[2], j, Sub(5))}
          [] k = "ite" /\ Kind(n[2]) = "match" ->
               LET subject == Written(n[2][2], rho)
                   pattern == n[2][3]
               IN  IF Kind(subject[2]) = Kind(pattern)
                   THEN Holds(S, n[3], With(rho, pattern[2][2],
                                            <<"C", subject[2][2], subject[3]>>), w)
                   ELSE Holds(S, n[4], rho, w)
          [] k = "ite" -> Holds(S, IF Truth(S, n[2], rho) THEN n[3] ELSE n[4], rho, w)
          [] k = "call" -> Holds(S, Definition(S, n).body, Called(S, n, rho), w)

CONSTANT Words         \* the words meanings are compared on

\* The input as the reference reads it: overrides and bus bounds applied.
Valued == [given.spec EXCEPT !.params = Overridden(@, given.overrides)]
Resolved ==
    [Valued EXCEPT !.buses =
       [x \in DOMAIN given.spec.declared |->
          [lo |-> Num(Valued, given.spec.declared[x].lo, Parameters(Valued)),
           hi |-> Num(Valued, given.spec.declared[x].hi, Parameters(Valued))]]]

RECURSIVE PlainLtl(_)
PlainLtl(f) == /\ Kind(f) \in CoreKinds
               /\ \A k \in ChildrenAt(f) : PlainLtl(f[k])

\* A published formula is plain LTL and means what the high-level formula meant:
\* quantifiers, reductions, definitions, guards, indexed and bounded operators
\* have been unrolled over exactly the right instances, on finite and infinite
\* words.
ExpansionExact ==
    expandPc = "done" =>
        \A k \in DOMAIN spec.formulas :
            /\ PlainLtl(spec.formulas[k])
            /\ \A w \in Words :
                 Sat(spec.formulas[k], w)
                     = Holds(Resolved, given.spec.formulas[k], Parameters(Resolved), w)
=============================================================================
