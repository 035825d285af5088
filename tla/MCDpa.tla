------------------------------- MODULE MCDpa -------------------------------
(***************************************************************************)
(* The deterministic automata and, by themselves, the interning tables     *)
(* their states live in.  A run takes one of the two; the other rests.     *)
(***************************************************************************)
EXTENDS DpaRun, DpaTable

-----------------------------------------------------------------------------
\* The automata.

a == Ap(<<"a">>)
b == Ap(<<"b">>)
X(f) == <<"X", f>>
F(f) == <<"F", f>>
G(f) == <<"G", f>>
U(f, g) == <<"U", f, g>>
Impl(f, g) == <<"impl", f, g>>

\* The proved fragment.
Plain == {
  True, a, X(X(a)), U(a, b), <<"W", a, b>>, <<"R", a, X(b)>>, <<"M", a, b>>,
  G(Impl(a, X(b))), F(And(a, X(b))), And(G(Or(a, X(a))), F(b)),
  G(F(a)), F(G(a)), Impl(G(F(a)), G(F(b))), G(Impl(a, F(b))), F(And(a, G(b))),
  And(Impl(G(F(a)), G(F(b))), G(Or(a, b))), <<"equiv", G(F(a)), F(G(b))>>,
  Or(And(G(F(a)), F(G(b))), U(a, b)), G(F(And(a, X(b)))), F(G(Or(a, X(b)))),
  G(And(F(a), Or(b, F(Not(a))))), Not(<<"equiv", G(a), F(b)>>),
  G(Or(a, And(a, F(b)))), And(X(G(a)), Or(F(b), G(F(Not(b)))))}

\* Formulas only allow_unproved admits.
General == {G(U(a, b)), F(<<"R", a, b>>), G(Or(X(U(a, b)), Not(b))),
            G(F(U(X(a), b))), And(G(U(a, b)), F(G(a))), <<"W", U(a, b), X(b)>>,
            <<"W", F(a), b>>, U(a, G(b)), <<"R", b, Impl(a, F(X(b)))>>}

Buchis == {G(F(a)), G(Impl(a, F(b))), And(G(F(a)), G(F(b))), Or(G(F(a)), G(F(b))),
           G(Or(a, X(b))), U(a, b), And(G(F(a)), Or(U(a, b), G(X(b)))), F(G(a)), False, True}

Job(call, f) == [call |-> call, root |-> f, other |-> True, temporal |-> TRUE,
                 unproved |-> FALSE, limit |-> 0, records |-> <<>>]

Rec(k, l, r, p) == [kind |-> k, left |-> l, right |-> r, ap |-> p]

Equal(f, g) == [Job("equal", f) EXCEPT !.other = g]

MCJobs ==
    {Job("expand", f) : f \in Plain}
    \cup {[Job("expand", f) EXCEPT !.unproved = TRUE] : f \in General \cup {G(F(a)), U(a, b)}}
    \cup {Job("parity", f) : f \in {G(Impl(a, F(b))), U(a, X(b))}}
    \cup {Job("expand", f) : f \in {G(U(a, b)), <<"X!", a>>, Ap(<<"c">>)}}
    \cup {[Job("expand", G(Impl(a, F(b)))) EXCEPT !.limit = 2]}
    \cup {Job("buchi", f) : f \in Buchis}
    \cup {[Job("buchi", f) EXCEPT !.unproved = TRUE] : f \in {G(U(a, b)), F(G(a))}}
    \cup {[Job("records", True) EXCEPT !.records = r] :
          r \in {<<Rec("ap", 0, 0, <<"a">>), Rec("F", 1, 0, 0), Rec("and", 1, 2, 0)>>,
                 <<Rec("ap", 0, 0, <<"a">>), Rec("F", 2, 0, 0)>>}}
    \cup {Equal(G(And(a, b)), And(G(a), G(b))), Equal(F(a), U(True, a)),
          Equal(G(F(a)), F(G(a))), Equal(Not(U(a, b)), <<"R", Not(a), Not(b)>>),
          Equal(<<"W", a, b>>, Or(U(a, b), G(a))), Equal(G(a), a),
          Equal(G(F(Or(a, b))), Or(G(F(a)), G(F(b)))),
          Equal(G(U(a, b)), G(F(b))), Equal(Or(a, b), Or(b, a)), Equal(X(G(a)), G(X(a))),
          [Equal(F(a), U(True, a)) EXCEPT !.temporal = FALSE]}

MCLetters == <<{}, {<<"a">>}, {<<"b">>}, {<<"a">>, <<"b">>}>>
MCNames == {<<"a">>, <<"b">>}
MCLassos == LassoWords(MCNames, 3)

-----------------------------------------------------------------------------
\* The tables: six keys on neighbouring and equal slots, some with equal tags.
MCKeys == 1..6
MCHome == [k \in MCKeys |-> CASE k = 1 -> 5 [] k = 2 -> 5 [] k = 3 -> 13
                               [] k = 4 -> 6 [] k = 5 -> 7 [] OTHER -> 2]
MCTag == [k \in MCKeys |-> IF k \in {1, 2, 6} THEN 0 ELSE k]

VARIABLE part

SomeJob == CHOOSE j \in Jobs : TRUE

PartInit ==
  /\ part \in {"automaton", "table"}
  /\ TableInit /\ adding = CHOOSE k \in Keys : TRUE
  /\ \/ part = "automaton" /\ Init
     \/ part = "table" /\ Called(SomeJob)

PartNext ==
  \/ part = "automaton" /\ Next /\ UNCHANGED <<part, tableVars>>
  \/ part = "table" /\ TableNext /\ UNCHANGED <<part, vars>>

PartSpec == PartInit /\ [][PartNext]_<<part, vars, tableVars>>
=============================================================================
