----------------------------- MODULE MCFormulas ------------------------------
(***************************************************************************)
(* The machines that work on formulas: the normalisation tool, the         *)
(* rewriting passes of tlsf2ltl, the expansion and the analysis of an      *)
(* expanded specification.  A run takes one of them; the others rest.      *)
(***************************************************************************)
EXTENDS TlsfNorm, RewriteRun, SpecAnalysis

CONSTANT Parts   \* the machines that are run

-----------------------------------------------------------------------------
\* Normalisation.
a == <<"ap", <<"a">>>>
b == <<"ap", <<"b">>>>
MCNames == <<<<"a">>, <<"b">>>>
I(k) == <<"int", k>>
V(s) == <<"var", <<s>>>>
To(lo, hi, strict) == <<"range", [lo |-> FALSE, hi |-> strict], lo, hi>>
X(f) == <<"X", f>>
N(k, f) == <<"next", FALSE, k, f>>
Each(k, dom, f) == <<k, <<"i">>, dom, f>>

Common == [params |-> <<[name |-> <<"n">>, value |-> 2, has |-> TRUE]>>,
           defs |-> <<[name |-> <<"later">>, params |-> <<<<"x">>>>,
                       body |-> N(V("n"), <<"ap", <<"x">>>>)]>>,
           declared |-> <<>>, buses |-> <<>>, scalars |-> {<<"a">>, <<"b">>},
           labels |-> <<>>, formulas |-> <<>>]

SpecOf(fs) == [Common EXCEPT !.formulas = fs]

\* Formulas of plain LTL: what the passes that run after expansion look for.
PlainFormulas == {
  And(b, And(a, b)), Or(Or(b, a), And(a, b)), Not(And(Not(Not(a)), True)),
  Or(Not(a), <<"F", b>>), Or(X(b), Not(a)), Or(Not(b), Not(a)),
  <<"equiv", <<"F", a>>, X(b)>>, <<"equiv", a, False>>,
  <<"impl", <<"equiv", a, b>>, X(False)>>,
  <<"G", And(a, X(And(b, a)))>>, Not(<<"G", Or(a, X(b))>>), Not(X(<<"U", a, b>>)),
  <<"G", <<"G", And(a, <<"impl", b, X(a)>>)>>>>,
  <<"U", <<"G", <<"F", a>>>>, b>>, <<"W", b, Or(a, <<"F", <<"G", b>>>>)>>,
  X(Or(<<"G", <<"F", a>>>>, b)), <<"M", a, <<"G", <<"F", b>>>>>>,
  <<"G", <<"F", <<"W", a, b>>>>>>, <<"F", <<"G", <<"U", a, b>>>>>>,
  <<"G", <<"F", And(a, <<"W", b, a>>)>>>>, <<"F", <<"G", Or(a, X(<<"U", b, a>>))>>>>,
  Not(<<"F", <<"G", <<"R", a, b>>>>>>), <<"R", False, b>>, <<"U", True, a>>,
  <<"W", a, False>>, <<"M", a, True>>, <<"R", a, b>>, X(True)}

\* High-level formulas: what the passes that run before expansion look for.
High == {
  N(I(0), a), N(I(1), N(I(1), a)), N(I(1), X(a)), X(N(I(1), And(a, b))),
  N(V("n"), N(I(1), a)), N(I(1), N(V("n"), X(b))), Not(N(I(2), And(a, b))),
  <<"U", N(I(1), N(I(1), a)), b>>,
  Each("forall", To(I(0), I(0), TRUE), a), Each("exists", To(I(1), I(0), FALSE), b),
  Each("forall", To(I(0), V("n"), TRUE), N(V("i"), a)),
  Not(Each("exists", To(I(0), I(2), TRUE), N(V("i"), a))),
  And(Each("forall", To(I(0), I(1), FALSE), True), b),
  <<"Grange", FALSE, I(0), I(2), a>>, <<"Frange", FALSE, I(1), V("n"), Or(a, b)>>,
  <<"G", And(N(I(1), And(a, b)), <<"Frange", FALSE, I(0), I(1), b>>)>>,
  <<"call", <<"later">>, a>>, And(<<"call", <<"later">>, X(b)>>, True),
  X(And(False, a)), <<"impl", <<"G", True>>, Or(N(I(1), a), N(I(1), a))>>}

StrongPlain == {<<"X!", And(a, b)>>, Not(<<"X!", a>>), <<"G", Or(Not(a), <<"X!", b>>)>>,
                And(<<"X!", True>>, X(False))}

T(name, iter) == [name |-> name, iter |-> iter]
PreSchedules == {<<>>, <<T("pre-safe", 2)>>, <<T("pre-weak", 0)>>,
                 <<T("pre-indexed-x", 3), T("pre-spine-split", 0)>>}
PostSchedules == {<<>>, <<T("match-safe", 2)>>, <<T("split", 0), T("route-safe", 0)>>,
                  <<T("nnf", 0), T("boolean", 2)>>, <<T("sickert-bounded", 3)>>}
MCOpts(g) == [finite |-> FALSE, maxIter |-> 2, maxGrowth |-> g, maxNodes |-> 40]

Job(fs, fin, soundness, p, q, r, g) ==
    [spec |-> SpecOf(fs), written |-> fin, finite |-> fin, soundness |-> soundness,
     pre |-> p, post |-> q, normalize |-> r, opts |-> MCOpts(g)]

MCJobs ==
    {Job(<<f, b>>, fin, "assert", <<>>, q, <<>>, g) :
       f \in PlainFormulas, fin \in BOOLEAN, q \in PostSchedules, g \in {0, 200}}
    \cup {Job(<<f>>, fin, "assert", p, <<>>, q, 200) :
            f \in High, fin \in BOOLEAN, p \in PreSchedules,
            q \in {<<>>, <<T("match-safe", 1)>>}}
    \cup {Job(<<f>>, fin, "assert", p, q, <<>>, 200) :
            f \in StrongPlain, fin \in BOOLEAN, p \in PreSchedules, q \in PostSchedules}
    \cup {Job(<<a>>, FALSE, s, <<T("weak", 0)>>, <<>>, <<>>, 0) : s \in {"off", "assert"}}
    \cup {[Job(<<f>>, FALSE, "assert", <<>>, <<>>, <<>>, 0) EXCEPT !.written = TRUE] :
            f \in StrongPlain \cup {<<"Frange", TRUE, I(0), I(1), a>>, X(a)}}
    \cup {Job(<<a>>, FALSE, "off", <<>>, <<T("tidy", 0)>>, <<>>, 0),
          Job(<<<<"div", I(1), I(0)>>>>, FALSE, "assert", <<>>, <<>>, <<>>, 0)}

\* X[!1] and X[!2], by themselves, below another next and over a conjunction.
StrongJobs ==
    {Job(<<f>>, TRUE, "assert", <<T("pre-safe", 0)>>, <<>>, <<>>, 200) :
       f \in {<<"next", TRUE, I(1), <<"next", TRUE, I(1), a>>>>,
              <<"next", TRUE, I(2), And(a, b)>>}}

\* Two reductions over the same variable and lower bound, different bodies.
WeakJobs ==
    {Job(<<And(Each("forall", To(I(0), I(1), FALSE), N(V("i"), a)),
               Each("forall", To(I(0), I(1), FALSE), N(V("i"), b)))>>,
         FALSE, "assert", <<T("pre-weak", 0)>>, <<>>, <<>>, 200)}

MCWordsOf(fin) == IF fin THEN FiniteWords({<<"a">>, <<"b">>}, 3)
                     ELSE LassoWords({<<"a">>, <<"b">>}, 2)
                          \cup LassoWords({<<"a">>}, 3) \cup LassoWords({<<"b">>}, 3)

-----------------------------------------------------------------------------
\* Rewriting.
MCRoots == {
  Not(<<"equiv", a, X(b)>>), <<"impl", <<"F", a>>, <<"G", b>>>>,
  Not(<<"U", a, Not(X(b))>>), Not(<<"W", X(a), b>>), Not(<<"R", a, <<"F", b>>>>),
  Not(<<"M", a, b>>), Not(<<"X!", And(a, b)>>), X(Or(a, X(And(a, b)))),
  <<"G", And(<<"F", Or(a, b)>>, X(a))>>, And(<<"G", a>>, <<"G", X(b)>>),
  Or(<<"F", a>>, <<"F", And(b, True)>>), And(X(a), X(Or(X(b), X(a)))),
  <<"W", <<"R", a, b>>, <<"M", b, a>>>>, <<"G", <<"G", Or(a, X(False))>>>>,
  <<"R", <<"U", True, a>>, <<"W", b, False>>>>, <<"U", False, <<"M", a, True>>>>,
  <<"equiv", <<"impl", a, False>>, <<"X!", False>>>>, And(X(True), Or(b, b))}

Named == {"no_weak_until", "no_release", "no_strong_release", "no_finally",
          "no_globally", "push_g", "push_f", "push_x", "pull_g", "pull_f", "pull_x",
          "simplify"}
StrongRules == {"simplify", "nnf", "no_weak_until", "no_release", "pull_g", "pull_f", "pull_x"}

MCFlagSets ==
    {{}, {"nnf"}} \cup {{r} : r \in Named} \cup {{r, "nnf", "simplify"} : r \in Named}
    \cup {StrongRules, {"no_weak_until", "no_finally", "no_globally"},
          {"push_g", "push_f", "push_x", "simplify", "nnf"},
          {"push_g", "pull_g"}, {"no_release", "no_weak_until", "no_strong_release"}}

RewriteWords(fin) == IF fin THEN FiniteWords({<<"a">>, <<"b">>}, 2) \cup FiniteWords({<<"a">>}, 3)
                     ELSE LassoWords({<<"a">>, <<"b">>}, 2)

-----------------------------------------------------------------------------
\* Expansion.
\* Names: a is a bus of n elements, b a scalar, n a parameter, e a bus with
\* the labels IDLE and BUSY, i and j bound variables, x and y formals.
nm(s) == <<s>>
P(s) == <<"ap", nm(s)>>
At(bus, e) == <<"bus", nm(bus), e>>
Range2(lo, los, e1, his) == <<"range", [lo |-> los, hi |-> his], lo, e1>>
Over(k, v, dom, body) == <<k, nm(v), dom, body>>
Call(f, args) == <<"call", nm(f)>> \o args
Minus(x, y) == <<"sub", x, y>>

Defs == <<
  [name |-> nm("m"), params |-> <<>>, body |-> Minus(V("n"), I(1))],
  [name |-> nm("later"), params |-> <<nm("x"), nm("y")>>,
   body |-> <<"next", FALSE, V("y"), P("x")>>],
  [name |-> nm("all"), params |-> <<nm("x")>>,
   body |-> Over("forall", "j", Range2(I(0), FALSE, <<"sizeof", nm("x")>>, TRUE),
                 <<"bus", nm("x"), V("j")>>)],
  [name |-> nm("count"), params |-> <<nm("x")>>,
   body |-> <<"ite", <<"le", V("x"), I(0)>>, I(0),
                <<"ite", <<"true">>,
                  <<"add", I(1), Call("count", <<Minus(V("x"), I(1))>>)>>, I(0)>>>>],
  [name |-> nm("loop"), params |-> <<>>, body |-> <<"F", P("loop")>>],
  [name |-> nm("pick"), params |-> <<nm("x")>>,
   body |-> <<"ite", <<"match", P("x"), <<"G", P("s")>>>>, P("s"), <<"not", P("x")>>>>]
>>

Numbers == {I(0), I(1), V("n"), P("m"), <<"neg", I(1)>>, <<"mul", I(2), V("n")>>,
            <<"div", <<"neg", I(3)>>, V("n")>>, <<"mod", <<"neg", I(3)>>, I(2)>>,
            <<"div", I(1), P("m")>>, Call("count", <<V("n")>>),
            Over("sum", "i", Range2(I(0), TRUE, V("n"), FALSE), V("i")),
            Over("product", "i", Range2(I(1), FALSE, V("n"), FALSE), V("i"))}

Sets == {<<"set", I(0), V("n"), I(0)>>,
         <<"enum", I(0), I(2), V("n")>>,
         <<"enum", V("n"), I(1), I(0)>>,
         <<"union", <<"set", I(0)>>, <<"set", I(1), I(0)>>>>,
         <<"diff", <<"set", I(0), I(1)>>, <<"set", V("n")>>>>,
         Over("bigunion", "j", Range2(I(0), FALSE, V("n"), TRUE), <<"set", V("j")>>),
         Over("biginter", "j", Range2(I(0), FALSE, P("m"), TRUE),
              <<"set", V("j"), I(1)>>)}

Atoms == {At("a", V("i")), <<"G", At("a", V("i"))>>}

Formulas ==
    {<<"next", s, e, P("b")>> : s \in BOOLEAN, e \in Numbers}
    \cup {<<k, s, I(1), e, P("b")>> :
            k \in {"Grange", "Frange"}, s \in BOOLEAN, e \in {I(0), V("n"), P("m")}}
    \cup {Over(k, "i", Range2(I(0), los, e, his), f) :
            k \in {"forall", "exists"}, los \in BOOLEAN, his \in BOOLEAN,
            e \in {I(0), V("n"), P("m")}, f \in Atoms}
    \cup {Over(k, "i", s, At("a", V("i"))) : k \in {"forall", "exists"}, s \in Sets}
    \cup {Over("exists", "x", <<"set", P("b"), <<"G", P("b")>>, P("b")>>,
               <<"not", P("x")>>)}
    \cup {Call("later", <<<<"not", P("b")>>, e>>) : e \in {I(1), V("n"), Minus(V("n"), I(3))}}
    \cup {Call("all", <<P("a")>>), Call("later", <<P("b")>>), P("loop"),
          Call("pick", <<P("b")>>), Call("pick", <<<<"G", P("b")>>>>)}
    \cup {<<"ite", <<c, V("n"), <<"size", s>>>>, P("b"), Call("all", <<P("a")>>)>> :
            c \in {"lt", "eq", "ge"}, s \in Sets}
    \cup {<<"ite", <<"in", V("n"), s>>, P("b"), <<"not", P("b")>>>> : s \in Sets}
    \cup {<<"le", <<k, s>>, I(0)>> : k \in {"min", "max"}, s \in Sets}
    \cup {<<c, P("e"), P(l)>> : c \in {"eq", "ne"}, l \in {"IDLE", "BUSY"}}

MCSpecs ==
    {[params |-> <<[name |-> nm("n"), value |-> 2, has |-> h]>>,
      defs |-> Defs,
      declared |-> [x \in {nm("a"), nm("e")} |->
                      [lo |-> I(0), hi |-> IF x = nm("e") THEN I(1) ELSE Minus(V("n"), I(1))]],
      buses |-> <<>>,
      scalars |-> {nm("b")},
      labels |-> [l \in {nm("IDLE"), nm("BUSY")} |->
                    IF l = nm("IDLE") THEN <<<<"0", "0">>>>
                    ELSE <<<<"1", "*">>, <<"0", "1">>>>],
      formulas |-> <<f, P("b")>>] : f \in Formulas, h \in {TRUE}}
    \cup {[params |-> <<[name |-> nm("n"), value |-> 0, has |-> FALSE]>>,
           defs |-> Defs, declared |-> <<>>, buses |-> <<>>, scalars |-> {nm("b")},
           labels |-> <<>>, formulas |-> <<<<"next", FALSE, V("n"), P("b")>>>>]}

MCOverrides == {<<>>, <<[name |-> nm("n"), value |-> 1]>>,
                <<[name |-> nm("n"), value |-> 1], [name |-> nm("n"), value |-> 3]>>,
                <<[name |-> nm("n"), value |-> 0]>>,
                <<[name |-> nm("k"), value |-> 1]>>}

\* Words over the names the formulas mention.
MCWords ==
    LassoWords({<<"a", 0>>, <<"a", 1>>}, 2) \cup LassoWords({<<"b">>}, 3)
    \cup FiniteWords({<<"b">>}, 3) \cup FiniteWords({<<"a", 0>>, <<"a", 1>>}, 2)
    \cup LassoWords({<<"a", 0>>, <<"a", 2>>, <<"b">>}, 1)
    \cup LassoWords({<<"e", 0>>, <<"e", 1>>}, 1)

-----------------------------------------------------------------------------
\* Analysis: specifications over the inputs x1, x2 and x3 and the outputs o1
\* and o2.
x1 == P("x1")
x2 == P("x2")
x3 == P("x3")
o1 == P("o1")
o2 == P("o2")
NamesOf(aps) == {f[2] : f \in aps}
Imp(f, g) == <<"impl", f, g>>
Alw(f) == <<"G", f>>
Inf(f) == <<"G", <<"F", f>>>>
Fin(f) == <<"F", <<"G", f>>>>
Def(out, f) == <<"G", <<"equiv", out, f>>>>
NoSections == [r \in Range(Roles) |-> <<>>]
Given(ins, outs, sections) ==
    [sections |-> sections @@ NoSections, inputs |-> NamesOf(ins), outputs |-> NamesOf(outs),
     finite |-> FALSE, moore |-> FALSE, strict |-> FALSE, mealyTarget |-> TRUE, split |-> TRUE]
Has(role, fs) == role :> fs
Promise(gs) == Has("GUARANTEE", gs)

\* The same specification under other semantics.
Variants(s) ==
    {[s EXCEPT !.strict = TRUE], [s EXCEPT !.finite = TRUE], [s EXCEPT !.moore = TRUE],
     [s EXCEPT !.mealyTarget = FALSE], [s EXCEPT !.split = FALSE],
     [s EXCEPT !.strict = TRUE, !.finite = TRUE], s}

\* What the prechecks decide or must leave open.
Decided == {Given({x1}, {o1}, sections) : sections \in {
  Promise(<<Alw(x1)>>), Promise(<<Def(o1, x1)>>), Promise(<<Def(x1, o1), Alw(Not(o1))>>),
  Promise(<<Alw(Not(x1))>>) @@ Has("ASSUME", <<Alw(Imp(x1, X(x1))), Inf(Not(x1))>>),
  Promise(<<Alw(Imp(x1, o1))>>) @@ Has("REQUIRE", <<x1>>) @@ Has("ASSERT", <<Not(o1)>>),
  Promise(<<Alw(Imp(x1, o1))>>) @@ Has("REQUIRE", <<Not(x1)>>) @@ Has("ASSERT", <<Not(o1)>>),
  Promise(<<Alw(Not(x1))>>) @@ Has("INITIALLY", <<Not(x1)>>),
  Promise(<<Inf(x1)>>) @@ Has("ASSUME", <<x1>>) @@ Has("PRESET", <<Not(x1)>>),
  Has("PRESET", <<o1>>) @@ Has("ASSERT", <<Or(o1, x1)>>),
  Has("PRESET", <<o1>>) @@ Has("ASSERT", <<Imp(o1, X(Not(o1)))>>)}}

\* Combinations of limits, and what only looks like one.
Limits == {Given({x1}, {o1}, sections) : sections \in {
  Promise(<<Inf(o1)>>) @@ Has("ASSUME", <<Inf(x1)>>) @@ Has("ASSERT", <<<<"F", X(o1)>>>>),
  Promise(<<<<"equiv", Inf(x1), Fin(Not(o1))>>>>) @@ Has("REQUIRE", <<<<"F", Not(x1)>>>>),
  Promise(<<Alw(And(<<"F", o1>>, <<"F", X(Not(x1))>>))>>) @@ Has("ASSUME", <<Fin(x1)>>),
  Promise(<<Or(Imp(Inf(x1), Fin(o1)), Not(Inf(o1)))>>),
  Promise(<<Alw(Imp(o1, X(x1))), Fin(Or(x1, o1))>>) @@ Has("ASSERT", <<Alw(Imp(x1, X(o1)))>>),
  Promise(<<<<"U", x1, o1>>>>) @@ Has("PRESET", <<Not(o1)>>),
  Promise(<<Inf(Not(o1)), <<"W", o1, Not(x1)>>>>) @@ Has("PRESET", <<Alw(o1)>>),
  Promise(<<Imp(Not(Fin(And(x1, o1))), And(Inf(x1), True)), <<"R", x1, Not(<<"X!", o1>>)>>>>)}}

\* Games side by side.
TwoGames == <<Alw(Imp(o1, X(x1))), <<"F", o2>>>>
Split ==
  {Given({x1, x2}, {o1, o2}, s) : s \in {
     Promise(TwoGames) @@ Has("ASSUME", <<Inf(x2)>>),
     Promise(TwoGames) @@ Has("ASSUME", <<Alw(Imp(x2, X(Not(x2)))), Fin(x2)>>),
     Promise(TwoGames) @@ Has("ASSUME", <<Inf(And(x1, x2))>>) @@ Has("REQUIRE", <<x2>>),
     Promise(TwoGames) @@ Has("INITIALLY", <<x2>>) @@ Has("ASSUME", <<X(X(Not(x2)))>>)}}
  \cup UNION {Variants(Given({x1}, {o1, o2}, s)) : s \in {
     Promise(<<Alw(Or(o1, x1)), Inf(o2)>>) @@ Has("ASSUME", <<Alw(Imp(o1, <<"F", x1>>))>>),
     Promise(<<Inf(o1), <<"F", x1>>>>) @@ Has("REQUIRE", <<x1>>)
     @@ Has("ASSERT", <<Imp(x1, X(o2))>>)}}
  \cup {Given({x1, x2, x3}, {o1}, Promise(<<Alw(Imp(o1, X(x1)))>>)
          @@ Has("ASSUME", <<Inf(And(x2, x3)), Alw(Imp(x1, X(x2))), Inf(x3)>>))}

\* Outputs that are defined, in one section or another.
Eliminated ==
  UNION {Variants(Given({x1}, {o1, o2}, s)) : s \in {
     Promise(<<Def(o1, x1), Alw(Imp(o2, X(o1)))>>),
     Promise(<<Def(o1, Not(x1))>>) @@ Has("ASSERT", <<Imp(o1, X(o2))>>)
     @@ Has("ASSUME", <<Inf(x1)>>),
     Promise(<<Def(o1, x1)>>) @@ Has("PRESET", <<o1>>) @@ Has("ASSUME", <<Inf(x1)>>),
     Promise(<<Alw(And(<<"equiv", o2, o1>>, X(Imp(o2, x1))))>>) @@ Has("PRESET", <<Def(o1, x1)>>),
     Promise(<<Def(o1, o2), Def(o2, o1), Alw(Imp(o1, x1))>>)}}
  \cup {Given({x1}, {o1, o2}, s) : s \in {
     Promise(<<Def(o1, o2), Def(o2, x1), Inf(Or(o1, o2))>>),
     Promise(<<Def(o1, x1), Def(o1, Not(o2)), Inf(o2)>>),
     Promise(<<Def(o1, X(x1)), Def(o2, Not(o2))>>),
     Promise(<<Def(o1, x1), Inf(o2)>>) @@ Has("ASSUME", <<Alw(Imp(o1, <<"F", x1>>))>>),
     Has("ASSERT", <<<<"equiv", o1, x1>>>>) @@ Has("GUARANTEE", <<Def(x1, o2), Inf(o1)>>)}}

MCAnalysed == Decided \cup Limits \cup Split \cup Eliminated

AnalysisWords(names, fin) ==
    CASE fin -> FiniteWords(names, 2)
      [] ~fin /\ Cardinality(names) <= 3 -> LassoWords(names, 2)
      [] OTHER -> {w \in LassoWords(names, 2) : w.back = 1}

-----------------------------------------------------------------------------
VARIABLE part

SomeJob == CHOOSE j \in Jobs : TRUE
SomeCall == [spec |-> CHOOSE S \in Specs : TRUE, overrides |-> << >>,
             provenance |-> FALSE, stamped |-> {}]
NormRests == NormCalled(SomeJob)
RewriteRests == RewriteCalled(True, {}, FALSE)
ExpandRests == ExpandCalled(SomeCall)
SomeSpec == CHOOSE s \in Analysed : TRUE
AnalysisRests == AnalysisCalled(SomeSpec)

PartInit ==
  /\ part \in Parts
  /\ \/ part = "normalise" /\ Init /\ RewriteRests /\ ExpandRests /\ AnalysisRests
     \/ part = "rewrite" /\ RewriteInit /\ NormRests /\ ExpandRests /\ AnalysisRests
     \/ part = "expand" /\ ExpandInit /\ NormRests /\ RewriteRests /\ AnalysisRests
     \/ part = "analyse" /\ AnalysisInit /\ NormRests /\ RewriteRests /\ ExpandRests

PartNext ==
  \/ part = "normalise" /\ Next /\ UNCHANGED <<part, rewriteVars, expandVars, analysisVars>>
  \/ part = "rewrite" /\ RewriteNext /\ UNCHANGED <<part, vars, expandVars, analysisVars>>
  \/ part = "expand" /\ ExpandNext /\ UNCHANGED <<part, vars, rewriteVars, analysisVars>>
  \/ part = "analyse" /\ AnalysisNext /\ UNCHANGED <<part, vars, rewriteVars, expandVars>>

PartSpec == PartInit /\ [][PartNext]_<<part, vars, rewriteVars, expandVars, analysisVars>>
=============================================================================
