------------------------------ MODULE Rewrite ------------------------------
(***************************************************************************)
(* Formula transformations on expanded trees: negation normal form         *)
(* (nnf.c), the local rules and the fixpoint driver of rewrite.c, and the  *)
(* decomposition along the G/X spine.  A set of flags stands for the bit   *)
(* mask; "finite" in it is RW_FINITE.                                      *)
(***************************************************************************)
EXTENDS Formula

CONSTANT RwCap   \* RW_FIXPOINT_CAP

Dual(k) ==
    CASE k = "and" -> "or" [] k = "or" -> "and"
      [] k = "G" -> "F" [] k = "F" -> "G"
      [] k = "U" -> "R" [] k = "R" -> "U"
      [] k = "W" -> "M" [] k = "M" -> "W"

\* A negated weak next stays weak on finite words as well.
DualNextWeak(k, finite) == "X"

\* The kind a next operator gets below an odd number of negations.  A weak
\* next stays weak on infinite words, where the two coincide.
DualNext(k, finite) == IF k = "X" /\ finite THEN "X!" ELSE "X"

\* to_nnf: pos says whether the formula is below an even number of negations.
RECURSIVE ToNnf(_, _, _)
ToNnf(n, pos, finite) ==
    LET Same(f) == ToNnf(f, pos, finite)
        Flip(f) == ToNnf(f, ~pos, finite)
        Plain(f) == ToNnf(f, TRUE, finite)
        Negated(f) == ToNnf(f, FALSE, finite)
        k == Kind(n)
    IN  CASE k \in {"true", "false"} ->
               IF pos THEN n ELSE IF k = "true" THEN False ELSE True
          [] k = "ap" -> IF pos THEN n ELSE Not(n)
          [] k = "not" -> Flip(n[2])
          [] k \in {"and", "or", "U", "R", "W", "M"} ->
               <<IF pos THEN k ELSE Dual(k), Same(n[2]), Same(n[3])>>
          [] k = "impl" ->
               <<IF pos THEN "or" ELSE "and", Flip(n[2]), Same(n[3])>>
          [] k = "equiv" ->
               IF pos
               THEN And(Or(Negated(n[2]), Plain(n[3])),
                        Or(Negated(n[3]), Plain(n[2])))
               ELSE Or(And(Plain(n[2]), Negated(n[3])),
                       And(Plain(n[3]), Negated(n[2])))
          [] k \in {"X", "X!"} ->
               <<IF pos THEN k ELSE DualNext(k, finite), Same(n[2])>>
          [] k \in {"G", "F"} -> <<IF pos THEN k ELSE Dual(k), Same(n[2])>>

\* simplify_weak_local: constant folding and redundancy removal at one node
\* whose children are already simplified.
SimplifyNot(x) ==
    CASE x = True -> False
      [] x = False -> True
      [] Kind(x) = "not" -> x[2]
      [] OTHER -> Not(x)

SimplifyUnary(k, x, finite) ==
    CASE k = "X" -> IF x = True \/ (~finite /\ x = False) THEN x ELSE <<k, x>>
      [] k = "X!" -> IF x = False THEN x ELSE <<k, x>>
      [] k \in {"F", "G"} ->
           IF x \in {True, False} \/ Kind(x) = k THEN x ELSE <<k, x>>

SimplifyBoolean(k, l, r) ==
    CASE k = "and" ->
           (CASE l = False \/ r = False -> False
              [] l = True -> r
              [] r = True \/ l = r -> l
              [] OTHER -> And(l, r))
      [] k = "or" ->
           (CASE l = True \/ r = True -> True
              [] l = False -> r
              [] r = False \/ l = r -> l
              [] OTHER -> Or(l, r))
      [] k = "impl" ->
           (CASE l = False \/ r = True -> True
              [] l = True -> r
              [] r = False -> Not(l)
              [] OTHER -> <<k, l, r>>)
      [] k = "equiv" ->
           (CASE l = True -> r
              [] r = True -> l
              [] l = False -> Not(r)
              [] r = False -> Not(l)
              [] l = r -> True
              [] OTHER -> <<k, l, r>>)

SimplifyTemporal(k, l, r) ==
    CASE k = "U" ->
           (CASE r \in {True, False} -> r
              [] l = False -> r
              [] l = True -> <<"F", r>>
              [] OTHER -> <<k, l, r>>)
      [] k = "R" ->
           (CASE r \in {True, False} -> r
              [] l = False -> <<"G", r>>
              [] l = True -> r
              [] OTHER -> <<k, l, r>>)
      [] k = "W" ->
           (CASE l = True \/ r = True -> True
              [] l = False -> r
              [] r = False -> <<"G", l>>
              [] OTHER -> <<k, l, r>>)
      [] k = "M" ->
           (CASE l = False \/ r = False -> False
              [] r = True -> <<"F", l>>
              [] l = True -> r
              [] OTHER -> <<k, l, r>>)

SimplifyWeak(n, finite) ==
    CASE Kind(n) = "not" -> SimplifyNot(n[2])
      [] Kind(n) \in {"X", "X!", "F", "G"} -> SimplifyUnary(Kind(n), n[2], finite)
      [] Kind(n) \in {"and", "or", "impl", "equiv"} ->
           SimplifyBoolean(Kind(n), n[2], n[3])
      [] Kind(n) \in {"U", "R", "W", "M"} -> SimplifyTemporal(Kind(n), n[2], n[3])
      [] OTHER -> n

-----------------------------------------------------------------------------
\* apply_local: at most one rule fires, in this order.

Replaced(n, flags) ==
    CASE Kind(n) = "W" /\ "no_weak_until" \in flags ->
           Or(<<"U", n[2], n[3]>>, <<"G", n[2]>>)
      [] Kind(n) = "R" /\ "no_release" \in flags ->
           <<"W", n[3], And(n[2], n[3])>>
      [] Kind(n) = "M" /\ "no_strong_release" \in flags ->
           <<"U", n[3], And(n[2], n[3])>>
      [] Kind(n) = "F" /\ "no_finally" \in flags -> <<"U", True, n[2]>>
      [] Kind(n) = "G" /\ "no_globally" \in flags -> <<"R", False, n[2]>>
      [] OTHER -> n

\* The connectives an operator distributes over.
DistributesOver(k) ==
    CASE k = "G" -> {"and"} [] k = "F" -> {"or"} [] k = "X" -> {"and", "or"}
      [] OTHER -> {}

Pushed(n, flags) ==
    IF \/ Kind(n) = "G" /\ "push_g" \in flags
       \/ Kind(n) = "F" /\ "push_f" \in flags
       \/ Kind(n) = "X" /\ "push_x" \in flags
    THEN IF Kind(n[2]) \in DistributesOver(Kind(n))
         THEN <<Kind(n[2]), <<Kind(n), n[2][2]>>, <<Kind(n), n[2][3]>>>>
         ELSE n
    ELSE n

Pulled(n, flags) ==
    IF Kind(n) \in {"and", "or"} /\ Kind(n[2]) = Kind(n[3])
    THEN LET k == Kind(n[2])
         IN  IF /\ Kind(n) \in DistributesOver(k)
                /\ \/ k = "G" /\ "pull_g" \in flags
                   \/ k = "F" /\ "pull_f" \in flags
                   \/ k = "X" /\ "pull_x" \in flags
             THEN <<k, <<Kind(n), n[2][2], n[3][2]>>>>
             ELSE n
    ELSE n

ApplyLocal(n, flags) ==
    LET a == Replaced(n, flags)
        b == Pushed(n, flags)
        c == Pulled(n, flags)
    IN  CASE a # n -> a
          [] b # n -> b
          [] c # n -> c
          [] "simplify" \in flags -> SimplifyWeak(n, "finite" \in flags)
          [] OTHER -> n

\* rw_pass: one bottom-up traversal.
RECURSIVE RwPass(_, _)
RwPass(n, flags) ==
    IF Kind(n) \in {"true", "false", "ap"} THEN n
    ELSE LET Below(c) == RwPass(c, flags)
         IN  ApplyLocal(MapChildren(n, Below), flags)

\* apply_rewrites: NNF first, then passes until one changes nothing or the
\* cap is reached.
RECURSIVE RwFixpoint(_, _, _)
RwFixpoint(n, flags, left) ==
    LET next == RwPass(n, flags)
    IN  IF left = 1 \/ next = n THEN next ELSE RwFixpoint(next, flags, left - 1)

ApplyRewrites(n, flags, cap) ==
    LET start == IF "nnf" \in flags THEN ToNnf(n, TRUE, "finite" \in flags) ELSE n
        local == flags \ {"nnf", "finite"}
    IN  IF local = {} THEN start ELSE RwFixpoint(start, flags \ {"nnf"}, cap)

\* decomp_append: split at top-level conjunctions and carry G, X and X[!]
\* over them along the spine only.
RECURSIVE Decompose(_)
Decompose(f) ==
    CASE Kind(f) = "and" -> Decompose(f[2]) \o Decompose(f[3])
      [] Kind(f) \in {"G", "X", "X!"} ->
           LET parts == Decompose(f[2])
           IN  [k \in DOMAIN parts |-> <<Kind(f), parts[k]>>]
      [] OTHER -> <<f>>
=============================================================================
