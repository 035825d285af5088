------------------------------ MODULE Formula ------------------------------
(***************************************************************************)
(* Syntax trees of include/tlsf/ast.h and what they mean.                  *)
(*                                                                         *)
(* A node is a tuple whose first element is its kind.  Names are           *)
(* sequences: <<"req">> is a scalar signal, a parameter or a variable, and *)
(* <<"req", 1>> is the name req_1 that element 1 of the bus req gets.      *)
(*                                                                         *)
(* The meaning is the reference the passes are compared with: a word is a  *)
(* sequence of letters (sets of names) that either stops (back = 0) or     *)
(* continues for ever at position back, and Sat(f, w) is the set of        *)
(* positions of w where f holds.                                           *)
(***************************************************************************)
EXTENDS Integers, Sequences, FiniteSets

Kind(n) == n[1]

UnaryKinds == {"not", "X", "X!", "F", "G"}
BinaryKinds == {"and", "or", "impl", "equiv", "U", "R", "W", "M"}
CoreKinds == {"true", "false", "ap"} \cup UnaryKinds \cup BinaryKinds

\* node_kind_is_temporal.
TemporalKinds == {"X", "X!", "F", "G", "U", "R", "W", "M"}

True == <<"true">>
False == <<"false">>
Ap(a) == <<"ap", a>>
Not(f) == <<"not", f>>
And(f, g) == <<"and", f, g>>
Or(f, g) == <<"or", f, g>>

\* The positions of a node's tuple that hold its child nodes, in the order
\* the code visits them.  Kinds outside the core are the high-level nodes that
\* expansion removes: integer and set expressions, comparisons, bus accesses,
\* reductions, indexed next, bounded temporal operators, guards and calls.
ChildrenAt(n) ==
    CASE Kind(n) \in UnaryKinds \cup BinaryKinds \cup
                    {"neg", "add", "sub", "mul", "div", "mod",
                     "eq", "ne", "lt", "le", "gt", "ge", "in", "match",
                     "size", "min", "max", "set", "enum",
                     "union", "inter", "diff", "ite"} -> 2..Len(n)
      [] Kind(n) \in {"bus", "next", "Grange", "Frange", "call", "range",
                      "forall", "exists", "sum", "product",
                      "bigunion", "biginter"} -> 3..Len(n)
      [] OTHER -> {}

\* The tree with Op applied to every child: map_children and the recursive
\* cases of the passes.  (The concatenation makes TLC build it once.)
MapChildren(n, Op(_)) ==
    <<>> \o [k \in 1..Len(n) |-> IF k \in ChildrenAt(n) THEN Op(n[k]) ELSE n[k]]

\* ast_node_count: a node outside the core counts one, whatever is below it.
RECURSIVE NodeCount(_)
NodeCount(n) ==
    CASE Kind(n) \in UnaryKinds -> 1 + NodeCount(n[2])
      [] Kind(n) \in BinaryKinds -> 1 + NodeCount(n[2]) + NodeCount(n[3])
      [] OTHER -> 1

-----------------------------------------------------------------------------
\* Words.

Positions(w) == DOMAIN w.letters

Following(w, i) == IF i < Len(w.letters) THEN i + 1 ELSE w.back

\* Positions whose next position exists and is in Z; or is missing or in Z.
StrongBefore(w, Z) == {i \in Positions(w) : Following(w, i) \in Z}
WeakBefore(w, Z) == {i \in Positions(w) : Following(w, i) \in Z \cup {0}}

\* Least solution of Z = B \cup (A \cap StrongBefore(Z)): A until B.
Until(w, A, B) ==
    LET RECURSIVE Grow(_)
        Grow(Z) == LET N == B \cup (A \cap StrongBefore(w, Z))
                   IN  IF N = Z THEN Z ELSE Grow(N)
    IN  Grow({})

\* Greatest solution of Z = B \cup (A \cap WeakBefore(Z)): A weak-until B.
WeakUntil(w, A, B) ==
    LET RECURSIVE Shrink(_)
        Shrink(Z) == LET N == B \cup (A \cap WeakBefore(w, Z))
                     IN  IF N = Z THEN Z ELSE Shrink(N)
    IN  Shrink(Positions(w))

RECURSIVE Sat(_, _)
Sat(f, w) ==
    CASE Kind(f) = "true" -> Positions(w)
      [] Kind(f) = "false" -> {}
      [] Kind(f) = "ap" -> {i \in Positions(w) : f[2] \in w.letters[i]}
      [] Kind(f) = "not" -> Positions(w) \ Sat(f[2], w)
      [] Kind(f) = "and" -> Sat(f[2], w) \cap Sat(f[3], w)
      [] Kind(f) = "or" -> Sat(f[2], w) \cup Sat(f[3], w)
      [] Kind(f) = "impl" -> (Positions(w) \ Sat(f[2], w)) \cup Sat(f[3], w)
      [] Kind(f) = "equiv" ->
           LET L == Sat(f[2], w)
               R == Sat(f[3], w)
           IN  {i \in Positions(w) : i \in L <=> i \in R}
      [] Kind(f) = "X" -> WeakBefore(w, Sat(f[2], w))
      [] Kind(f) = "X!" -> StrongBefore(w, Sat(f[2], w))
      [] Kind(f) = "F" -> Until(w, Positions(w), Sat(f[2], w))
      [] Kind(f) = "G" -> WeakUntil(w, Sat(f[2], w), {})
      [] Kind(f) = "U" -> Until(w, Sat(f[2], w), Sat(f[3], w))
      [] Kind(f) = "W" -> WeakUntil(w, Sat(f[2], w), Sat(f[3], w))
      [] Kind(f) = "R" ->
           LET R == Sat(f[3], w) IN WeakUntil(w, R, R \cap Sat(f[2], w))
      [] Kind(f) = "M" ->
           LET R == Sat(f[3], w) IN Until(w, R, R \cap Sat(f[2], w))

\* Whether every formula of a list holds from the first position on.
Accepts(fs, w) == \A k \in DOMAIN fs : 1 \in Sat(fs[k], w)

\* The words of at most n letters over the names N: the infinite ones and the
\* finite ones.
LassoWords(N, n) ==
    UNION {{[letters |-> l, back |-> b] : l \in [1..k -> SUBSET N], b \in 1..k} :
           k \in 1..n}
FiniteWords(N, n) ==
    UNION {{[letters |-> l, back |-> 0] : l \in [1..k -> SUBSET N]} : k \in 1..n}
=============================================================================
