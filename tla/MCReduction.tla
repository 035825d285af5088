---------------------------- MODULE MCReduction -----------------------------
(* One input i and one output o, and automata for conjuncts of every class. *)
EXTENDS Gr1Reduction

MCLetters == SUBSET {"i", "o"}

\* An automaton from its table: step(s, l).
Dba(n, acc, Step(_, _)) ==
  [n |-> n, acc |-> acc, succ |-> [v \in (1..n) \X MCLetters |-> Step(v[1], v[2])]]

Always(x) == Dba(2, {1}, LAMBDA s, l : IF s = 1 /\ x \in l THEN 1 ELSE 2)
Recurs(x) == Dba(2, {2}, LAMBDA s, l : IF x \in l THEN 2 ELSE 1)
Eventually(x) == Dba(2, {2}, LAMBDA s, l : IF s = 2 \/ x \in l THEN 2 ELSE 1)
\* false U x, which denotes x: tagged a guarantee, and a safety language.
First(x) == Dba(3, {2}, LAMBDA s, l : IF s = 1 THEN IF x \in l THEN 2 ELSE 3 ELSE s)
\* G (i -> F o): waits in 2.
Response == Dba(2, {1}, LAMBDA s, l : IF "o" \in l THEN 1 ELSE IF "i" \in l THEN 2 ELSE s)
\* G o or F i: an obligation.
Either == Dba(3, {1, 2}, LAMBDA s, l : IF s = 2 \/ "i" \in l THEN 2
                                       ELSE IF s = 1 /\ "o" \in l THEN 1 ELSE 3)
\* A rejecting region of two states behind a transient non-accepting one.
Trap == Dba(4, {2}, LAMBDA s, l : IF s = 1 THEN IF "i" \in l THEN 2 ELSE 3
                                  ELSE IF s = 2 THEN 2 ELSE IF s = 3 THEN 4 ELSE 3)
Nothing == Dba(1, {}, LAMBDA s, l : 1)
Anything == Dba(1, {1}, LAMBDA s, l : 1)

C(assumption, name, dba, klass) ==
  [assumption |-> assumption, name |-> name, nodes |-> 3,
   depth |-> IF klass = "R" THEN 2 ELSE 1, dba |-> dba, klass |-> klass,
   admission |-> "default", flaw |-> FALSE]

Assumptions ==
  {<< >>, <<C(TRUE, "Gi", Always("i"), "S")>>, <<C(TRUE, "GFi", Recurs("i"), "R")>>,
   <<C(TRUE, "i", First("i"), "G"), C(TRUE, "GFi", Recurs("i"), "R")>>,
   <<C(TRUE, "Gi", Always("i"), "S"), C(TRUE, "trap", Trap, "O")>>,
   <<C(TRUE, "ff", Nothing, "R")>>}

Guarantees ==
  {<< >>, <<C(FALSE, "Go", Always("o"), "S"), C(FALSE, "GFo", Recurs("o"), "R")>>,
   <<C(FALSE, "resp", Response, "R"), C(FALSE, "either", Either, "O")>>,
   <<C(FALSE, "Fo", Eventually("o"), "G"), C(FALSE, "o", First("o"), "G")>>,
   <<C(FALSE, "tt", Anything, "R"), C(FALSE, "Go", Always("o"), "S")>>}

NoBudget == [maxConjuncts |-> 0, maxPredicted |-> 0, maxTotalStates |-> 0,
             maxTotalEdges |-> 0]

Request(semantics, conjuncts, limits, cap) ==
  [semantics |-> semantics, conjuncts |-> conjuncts, budget |-> limits,
   maxMonitorStates |-> cap, tighten |-> {}, occupied |-> FALSE,
   arguments |-> TRUE, snapshot |-> TRUE, mealy |-> TRUE, declared |-> TRUE]

Typical == <<C(TRUE, "Gi", Always("i"), "S"), C(FALSE, "Fo", Eventually("o"), "G")>>
Plain == Request("STRICT", Typical, NoBudget, 9)

MCRequests ==
  {Request(semantics, a \o g, NoBudget, 12) :
     semantics \in {"EXACT", "STRICT"}, a \in Assumptions, g \in Guarantees}
  \cup {[Request(semantics, Typical,
                 [NoBudget EXCEPT !.maxTotalStates = states, !.maxTotalEdges = edges],
                 cap) EXCEPT !.tighten = {1, 3}] :
          semantics \in {"STRICT"}, states \in {0, 4}, edges \in {0, 3, 5}, cap \in 1..5}
  \cup {[Plain EXCEPT !.occupied = TRUE], [Plain EXCEPT !.arguments = FALSE],
        [Plain EXCEPT !.snapshot = FALSE], [Plain EXCEPT !.mealy = FALSE],
        [Plain EXCEPT !.declared = FALSE],
        [Plain EXCEPT !.budget.maxConjuncts = 1],
        [Plain EXCEPT !.budget.maxPredicted = 11],
        [Plain EXCEPT !.budget.maxPredicted = 12],
        [Plain EXCEPT !.conjuncts[2].admission = "none"],
        [Plain EXCEPT !.conjuncts[2].admission = "general"],
        [Plain EXCEPT !.conjuncts[2].flaw = TRUE],
        Request("STRICT", <<C(FALSE, "tag", Recurs("o"), "S")>>, NoBudget, 9)}
=============================================================================
