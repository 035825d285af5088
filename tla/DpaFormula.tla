----------------------------- MODULE DpaFormula -----------------------------
(***************************************************************************)
(* dpa_formula.c: the formulas the automaton construction works on.        *)
(*                                                                         *)
(* A term is a syntax tree in negation normal form with X pushed to the    *)
(* atoms; the operands of a connective are a set, because hash consing     *)
(* sorts and merges them.  A class is a Boolean function of atoms, which   *)
(* are propositions and modal terms: a pair <<support, on>> where on holds *)
(* the subsets of the support that make it true.  A BDD is that function;  *)
(* variables are propositions first, then modal atoms, in an order left    *)
(* open (the code uses discovery order).  Memo tables are left out.        *)
(***************************************************************************)
EXTENDS Formula, FiniteSetsExt, SequencesExt

\* Boolean functions.

Essential(S, on) == {x \in S : \E A \in SUBSET (S \ {x}) :
                                   (A \in on) # ((A \cup {x}) \in on)}
OnSupport(support, on) == <<support, {A \cap support : A \in on}>>
\* S: the atoms, on: the subsets of S where the function holds.
Function(S, on) == OnSupport(Essential(S, on), on)

Zero == <<{}, {}>>
One == <<{}, {{}}>>
Constants == {Zero, One}
Support(f) == f[1]
Holds(f, A) == (A \cap f[1]) \in f[2]
Var(x) == <<{x}, {{x}}>>
NotF(f) == <<f[1], SUBSET f[1] \ f[2]>>

\* dpa_boolean.
HoldsBoth(conjunction, f, g, A) ==
    IF conjunction THEN Holds(f, A) /\ Holds(g, A) ELSE Holds(f, A) \/ Holds(g, A)
Boolean(conjunction, f, g) ==
    Function(f[1] \cup g[1],
             UNION {IF HoldsBoth(conjunction, f, g, A) THEN {A} ELSE {} :
                    A \in SUBSET (f[1] \cup g[1])})
AndF(f, g) == Boolean(TRUE, f, g)
OrF(f, g) == Boolean(FALSE, f, g)

\* map_class: every atom of f replaced by its class; by holds the pairs of an
\* atom and a class.
HoldingAtoms(by, A) == {p[1] : p \in {q \in by : Holds(q[2], A)}}
MapClass(f, by) ==
    LET atoms == UNION {p[2][1] : p \in by}
    IN  Function(atoms, UNION {IF HoldingAtoms(by, A) \in f[2] THEN {A} ELSE {} :
                               A \in SUBSET atoms})

Cofactor(f, x, value) ==
    MapClass(f, {<<y, IF y # x THEN Var(y) ELSE IF value THEN One ELSE Zero>> : y \in f[1]})
IteF(v, high, low) == OrF(AndF(v, high), AndF(NotF(v), low))

\* dpa_children: the topmost variable.
TopVar(f) == LET aps == {x \in f[1] : x[1] = "ap"}
             IN  CHOOSE x \in IF aps # {} THEN aps ELSE f[1] : TRUE

-----------------------------------------------------------------------------
\* Terms.

BinaryOps == {"U", "R", "W", "M"}

TermConst(t) == t \in {True, False}

\* term: one node, with the foldings it does.
Term(op, args) ==
    CASE op \in {"and", "or"} /\ Cardinality(args) = 1 -> CHOOSE a \in args : TRUE
      [] op = "and" /\ False \in args -> False
      [] op = "and" /\ True \in args -> CHOOSE a \in args \ {True} : TRUE
      [] op = "or" /\ True \in args -> True
      [] op = "or" /\ False \in args -> CHOOSE a \in args \ {False} : TRUE
      [] OTHER -> <<op, args>>
Unary(op, a) == IF op \in {"X", "F", "G"} /\ TermConst(a) THEN a ELSE <<op, a>>

RECURSIVE WrapNext(_, _)
WrapNext(t, next) == IF next = 0 THEN t ELSE WrapNext(Unary("X", t), next - 1)

DualOp(op) ==
    CASE op = "and" -> "or" [] op = "or" -> "and" [] op = "F" -> "G" [] op = "G" -> "F"
      [] op = "U" -> "R" [] op = "R" -> "U" [] op = "W" -> "M" [] op = "M" -> "W"
      [] OTHER -> op

\* transport, formula_impl: negation normal form, X carried to the atoms.
RECURSIVE Transport(_, _, _)
Transport(n, neg, next) ==
    LET k == Kind(n)
        l == n[2]
        r == n[3]
        T(f, ng) == Transport(f, ng, next)
    IN  CASE k \in {"true", "false"} -> IF (k = "true") # neg THEN True ELSE False
          [] k = "ap" -> WrapNext(IF neg THEN <<"not", n>> ELSE n, next)
          [] k = "not" -> T(l, ~neg)
          [] k = "X" -> Transport(l, neg, next + 1)
          [] k \in {"and", "or"} ->
               Term(IF neg THEN DualOp(k) ELSE k, {T(l, neg), T(r, neg)})
          [] k = "impl" -> Term(IF neg THEN "and" ELSE "or", {T(l, ~neg), T(r, neg)})
          [] k = "equiv" ->
               LET inner == IF neg THEN "and" ELSE "or"
               IN  Term(DualOp(inner), {Term(inner, {T(l, ~neg), T(r, neg)}),
                                        Term(inner, {T(l, neg), T(r, ~neg)})})
          [] k \in {"F", "G"} ->
               WrapNext(Unary(IF neg THEN DualOp(k) ELSE k, Transport(l, neg, 0)), next)
          [] k \in BinaryOps ->
               WrapNext(<<IF neg THEN DualOp(k) ELSE k, Transport(l, neg, 0),
                          Transport(r, neg, 0)>>, next)

\* Why a formula cannot be read: whichever is met first is reported.
RECURSIVE ReadFailures(_, _)
ReadFailures(n, names) ==
    CASE Kind(n) = "ap" -> IF n[2] \in names THEN {} ELSE {"invalid"}
      [] Kind(n) = "X!" -> {"unsupported"}
      [] OTHER -> UNION {ReadFailures(n[j], names) : j \in ChildrenAt(n)}

\* term_dual.
RECURSIVE TermDual(_)
TermDual(t) ==
    CASE t = True -> False
      [] t = False -> True
      [] t[1] = "ap" -> <<"not", t>>
      [] t[1] = "not" -> t[2]
      [] t[1] \in {"and", "or"} -> Term(DualOp(t[1]), {TermDual(u) : u \in t[2]})
      [] t[1] \in {"X", "F", "G"} -> Unary(DualOp(t[1]), TermDual(t[2]))
      [] OTHER -> <<DualOp(t[1]), TermDual(t[2]), TermDual(t[3])>>

\* materialize: a term as a class; what is below a modal operator stays as it is.
RECURSIVE Materialize(_)
Materialize(t) ==
    CASE t = True -> One
      [] t = False -> Zero
      [] t[1] = "not" -> NotF(Materialize(t[2]))
      [] t[1] \in {"and", "or"} ->
           LET u == CHOOSE u \in t[2] : TRUE
               v == CHOOSE v \in t[2] : v # u
           IN  Boolean(t[1] = "and", Materialize(u), Materialize(v))
      [] OTHER -> Var(t)

-----------------------------------------------------------------------------
\* Fragments of the safety-progress hierarchy, as sets of tags.

AllTags == {"finite", "safety", "cosafety", "pi2", "sigma2"}

\* What an operator makes of the tags of its operands.
Temporal(op, tags) ==
    CASE op \in {"F", "U", "M"} ->
           (tags \cap {"cosafety", "sigma2"}) \cup
           (IF "cosafety" \in tags THEN {"pi2"} ELSE {})
      [] op \in {"G", "R", "W"} ->
           (tags \cap {"safety", "pi2"}) \cup
           (IF "safety" \in tags THEN {"sigma2"} ELSE {})
      [] OTHER -> tags

RECURSIVE TermTags(_)
TermTags(t) ==
    CASE TermConst(t) \/ t[1] \in {"ap", "not"} -> AllTags
      [] t[1] \in {"and", "or"} ->
           {g \in AllTags : \A u \in t[2] : g \in TermTags(u)}
      [] t[1] \in BinaryOps -> Temporal(t[1], TermTags(t[2]) \cap TermTags(t[3]))
      [] OTHER -> Temporal(t[1], TermTags(t[2]))

\* tags_impl.  mode.unproved takes the tags of the syntax; otherwise those of
\* an atom's operands are read off their classes, where absorption may have
\* removed what was in the way.  Before the first row is requested (~mode.
\* started) only atoms that need it are looked at that closely.
RECURSIVE ClassTags(_, _), AtomTags(_, _)
AtomTags(x, mode) ==
    LET syntactic == TermTags(x)
        operand(k) == ClassTags(Materialize(x[k]), mode)
    IN  IF \/ x[1] = "ap" \/ mode.unproved
           \/ ~mode.started /\ syntactic \cap {"safety", "cosafety"} # {}
        THEN syntactic
        ELSE Temporal(x[1], IF x[1] \in BinaryOps THEN operand(2) \cap operand(3)
                                                   ELSE operand(2))
ClassTags(f, mode) == {g \in AllTags : \A x \in f[1] : g \in AtomTags(x, mode)}

\* dpa_has_tags.
HasTags(f, mask, mode) == ClassTags(f, mode) \cap mask # {}

\* flat_body.
FlatBody(f, eventual, mode) ==
    \A x \in f[1] :
        \/ "finite" \in AtomTags(x, mode)
        \/ /\ x[1] = IF eventual THEN "F" ELSE "G"
           /\ "finite" \in ClassTags(Materialize(x[2]), mode)

\* dpa_admitted.
Admitted(f, mode) ==
    IF mode.unproved THEN HasTags(f, {"pi2", "sigma2"}, mode)
    ELSE \/ HasTags(f, {"safety", "cosafety"}, mode)
         \/ \E x \in f[1] : /\ f = Var(x) /\ x[1] \in {"G", "F"}
                            /\ FlatBody(Materialize(x[2]), x[1] = "G", mode)

\* check_admission.
RECURSIVE CheckAdmission(_, _)
CheckAdmission(f, mode) ==
    \/ f \in Constants
    \/ Admitted(f, mode)
    \/ LET x == TopVar(f)
       IN  /\ Admitted(Var(x), mode)
           /\ CheckAdmission(Cofactor(f, x, FALSE), mode)
           /\ CheckAdmission(Cofactor(f, x, TRUE), mode)

-----------------------------------------------------------------------------
\* One letter.  In an unfolded class an atom F, G, U, R, W or M speaks about
\* the next position, and so does X.

\* unfold_term_care; unfold_atom_care.  (Cubes of current propositions only
\* keep intermediate results small.)
RECURSIVE UnfoldTerm(_)
UnfoldTerm(t) ==
    CASE t = True -> One
      [] t = False -> Zero
      [] t[1] = "not" -> NotF(UnfoldTerm(t[2]))
      [] t[1] \in {"and", "or"} ->
           LET u == CHOOSE u \in t[2] : TRUE
               v == CHOOSE v \in t[2] : v # u
           IN  Boolean(t[1] = "and", UnfoldTerm(u), UnfoldTerm(v))
      [] t[1] = "F" -> OrF(UnfoldTerm(t[2]), Var(t))
      [] t[1] = "G" -> AndF(UnfoldTerm(t[2]), Var(t))
      [] t[1] \in {"U", "W"} -> OrF(UnfoldTerm(t[3]), AndF(UnfoldTerm(t[2]), Var(t)))
      [] t[1] \in {"R", "M"} -> AndF(UnfoldTerm(t[3]), OrF(UnfoldTerm(t[2]), Var(t)))
      [] OTHER -> Var(t)

\* dpa_unfold.
Unfold(f) == MapClass(f, {<<x, UnfoldTerm(x)>> : x \in f[1]})

\* dpa_step_dag at one letter: propositions get their values, X is consumed.
StepClass(f, letter) ==
    MapClass(f, {<<x, CASE x[1] = "ap" -> IF x[2] \in letter THEN One ELSE Zero
                        [] x[1] = "X" -> Materialize(x[2])
                        [] OTHER -> Var(x)>> : x \in f[1]})

\* protected_term: the X subterms of a term.
RECURSIVE NextsIn(_)
NextsIn(t) ==
    CASE TermConst(t) \/ t[1] = "ap" -> {}
      [] t[1] \in {"and", "or"} -> UNION {NextsIn(u) : u \in t[2]}
      [] t[1] \in BinaryOps -> NextsIn(t[2]) \cup NextsIn(t[3])
      [] OTHER -> NextsIn(t[2]) \cup IF t[1] = "X" THEN {t} ELSE {}

\* protected_x: those below the modal atoms of a class.
Protected(f) ==
    UNION {IF x[1] \in {"F", "G"} THEN NextsIn(x[2])
           ELSE IF x[1] \in BinaryOps THEN NextsIn(x[2]) \cup NextsIn(x[3]) ELSE {} :
           x \in f[1]}

\* The atoms of Given are taken to hold.
Granted(f, Given) == MapClass(f, {<<x, IF x \in Given THEN One ELSE Var(x)>> : x \in f[1]})

FreeNexts(f) == {x \in f[1] : x[1] = "X"} \ Protected(f)
RECURSIVE DropNexts(_)
DropNexts(f) == IF FreeNexts(f) = {} THEN f ELSE DropNexts(Granted(f, FreeNexts(f)))

\* dpa_remainder: what must still happen, of the class f.
Waivable(f, mode) == {x \in f[1] : x[1] # "ap" /\ ~HasTags(Var(x), {"cosafety"}, mode)}
Due(f, mode) == Unfold(DropNexts(Granted(f, Waivable(f, mode))))
RECURSIVE Remainder(_, _)
Remainder(f, mode) ==
    LET due == Due(f, mode)
    IN  IF HasTags(due, {"finite"}, mode) /\ Unfold(f) # f
        THEN Remainder(Unfold(f), mode) ELSE due

\* dpa_dual: the class of the negated formula, over the dual atoms.
DualAtom(x) == IF x[1] = "ap" THEN x ELSE TermDual(x)
DualF(f) ==
    NotF(MapClass(f, {<<x, IF x[1] = "ap" THEN Var(x) ELSE NotF(Var(DualAtom(x)))>> :
                      x \in f[1]}))

-----------------------------------------------------------------------------
\* Components: the classes that get a monitor of their own, in a table that
\* only grows.  Acceptance is a class over their colours.

Colour(i) == Var(<<"colour", i>>)

\* component.
Component(f, table, buchi, mode) ==
    LET own == {i \in DOMAIN table : table[i] = f}
        dual == {i \in DOMAIN table : DualF(table[i]) = f}
        neg == "pi2" \notin ClassTags(f, mode)
        new == Colour(Len(table) + 1)
    IN  CASE own # {} -> [fn |-> Colour(Min(own)), table |-> table]
          [] own = {} /\ ~buchi /\ dual # {} ->
               [fn |-> NotF(Colour(Min(dual))), table |-> table]
          [] OTHER -> [fn |-> IF neg THEN NotF(new) ELSE new,
                       table |-> Append(table, IF neg THEN DualF(f) ELSE f)]

\* dpa_acceptance, for a class CheckAdmission has passed.
RECURSIVE Acceptance(_, _, _, _)
Acceptance(f, table, buchi, mode) ==
    CASE f \in Constants -> [fn |-> f, table |-> table]
      [] f \notin Constants /\ Admitted(f, mode) -> Component(f, table, buchi, mode)
      [] OTHER ->
           LET x == TopVar(f)
               v == Component(Var(x), table, buchi, mode)
               low == Acceptance(Cofactor(f, x, FALSE), v.table, buchi, mode)
               high == Acceptance(Cofactor(f, x, TRUE), low.table, buchi, mode)
           IN  [fn |-> IteF(v.fn, high.fn, low.fn), table |-> high.table]

\* factor_term: G over conjunctions and F over disjunctions, outside the
\* fragments one monitor covers.
RECURSIVE Factor(_)
Factor(t) ==
    IF TermConst(t) \/ TermTags(t) \cap {"safety", "cosafety"} # {} THEN t
    ELSE IF t[1] \in {"and", "or"} THEN Term(t[1], {Factor(u) : u \in t[2]})
    ELSE IF t[1] \in BinaryOps THEN <<t[1], Factor(t[2]), Factor(t[3])>>
    ELSE LET a == Factor(t[2])
         IN  IF <<t[1], a[1]>> \in {<<"G", "and">>, <<"F", "or">>}
             THEN Factor(Term(a[1], {Unary(t[1], u) : u \in a[2]}))
             ELSE Unary(t[1], a)

\* groupable.
RECURSIVE Groupable(_, _)
Groupable(t, mode) ==
    IF t[1] \in {"and", "or"} THEN \A u \in t[2] : Groupable(u, mode)
    ELSE CheckAdmission(Materialize(t), mode)

RECURSIVE Operands(_, _)
Operands(t, op) == IF t[1] = op THEN UNION {Operands(u, op) : u \in t[2]} ELSE {t}

\* syntax_acceptance and group_operands: the operands of a connective that
\* belong to one fragment share a monitor.
RECURSIVE SyntaxAcceptance(_, _, _)
SyntaxAcceptance(t, table, mode) ==
    LET f == Materialize(t)
        conj == t[1] = "and"
        unit == IF conj THEN One ELSE Zero
        operands == Operands(t, t[1])
        group(p) == CASE "finite" \in TermTags(p) -> "finite"
                      [] "safety" \in TermTags(p) -> "safety"
                      [] "cosafety" \in TermTags(p) -> "cosafety"
                      [] OTHER -> "rest"
        together(g) == FoldSet(LAMBDA p, acc : Boolean(conj, acc, Materialize(p)), unit,
                               {p \in operands : group(p) = g})
        rest == FoldSet(LAMBDA p, acc :
                          LET s == SyntaxAcceptance(p, acc.table, mode)
                          IN  [fn |-> Boolean(conj, acc.fn, s.fn), table |-> s.table],
                        [fn |-> unit, table |-> table],
                        {p \in operands : group(p) = "rest"})
        withCo == together("cosafety") # unit
        cosafety == IF withCo THEN Boolean(conj, together("cosafety"), together("finite"))
                    ELSE unit
        safety == IF withCo THEN together("safety")
                  ELSE Boolean(conj, together("safety"), together("finite"))
        co == Acceptance(cosafety, rest.table, FALSE, mode)
        safe == Acceptance(safety, co.table, FALSE, mode)
    IN  IF f \in Constants \/ Admitted(f, mode) \/ t[1] \notin {"and", "or"}
        THEN Acceptance(f, table, FALSE, mode)
        ELSE [fn |-> Boolean(conj, rest.fn, Boolean(conj, safe.fn, co.fn)),
              table |-> safe.table]

\* dpa_grouped_acceptance, for an admitted formula.
GroupedAcceptance(t, mode) ==
    LET factored == Factor(t)
    IN  IF Groupable(factored, mode) THEN SyntaxAcceptance(factored, <<>>, mode)
        ELSE Acceptance(Materialize(t), <<>>, FALSE, mode)

\* buchi_syntax: positive combinations of Pi2 components; an empty sequence
\* says it has none.
RECURSIVE BuchiSyntax(_, _, _)
BuchiSyntax(t, table, mode) ==
    LET f == Materialize(t)
        u == CHOOSE u \in t[2] : TRUE
        v == CHOOSE v \in t[2] : v # u
        l == BuchiSyntax(u, table, mode)[1]
        r == BuchiSyntax(v, l.table, mode)
    IN  CASE Admitted(f, mode) /\ HasTags(f, {"pi2"}, mode) ->
               <<Acceptance(f, table, TRUE, mode)>>
          [] ~(Admitted(f, mode) /\ HasTags(f, {"pi2"}, mode)) /\ t[1] \in {"and", "or"} ->
               IF BuchiSyntax(u, table, mode) = <<>> THEN <<>>
               ELSE IF r = <<>> THEN <<>>
               ELSE <<[fn |-> Boolean(t[1] = "and", l.fn, r[1].fn), table |-> r[1].table]>>
          [] OTHER -> <<>>
=============================================================================
