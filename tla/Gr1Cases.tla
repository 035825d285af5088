------------------------------ MODULE Gr1Cases ------------------------------
(* Three states, one input of each side: small games of either side with    *)
(* policies and certificates, good ones and ones that fail each obligation. *)
EXTENDS Gr1Game

MCState == 0..2
MCVal == MCState \X (0..1) \X (0..1)
None == [none |-> TRUE]

Fixed(t) == [u \in 0..1 |-> [c \in 0..1 |-> t]]
ByC(a, b) == [u \in 0..1 |-> [c \in 0..1 |-> IF c = 1 THEN a ELSE b]]
ByU(a, b) == [u \in 0..1 |-> [c \in 0..1 |-> IF u = 1 THEN a ELSE b]]
Agree(a, b) == [u \in 0..1 |-> [c \in 0..1 |-> IF u = c THEN a ELSE b]]

Arena(t, goals, fairs, unsafe, known) ==
  [succ |-> [v \in MCVal |-> t[v[1] + 1][v[2]][v[3]]],
   bad |-> unsafe, goals |-> goals, fairs |-> fairs, reset |-> 0,
   resetKnown |-> known]

NoBad == {}
Disagree1 == {v \in MCVal : v[1] = 1 /\ v[2] # v[3]}

\* One goal, no assumption; one goal, reached only if the environment lets; the
\* same with an unsafe round; two goals; one goal and two assumptions.
Reach2 == Arena(<<ByC(1, 0), Agree(2, 0), Fixed(0)>>, <<{2}>>, << >>, NoBad, TRUE)
Wait2 == Arena(<<ByC(1, 0), ByU(2, 1), Fixed(0)>>, <<{2}>>, <<{0, 2}>>, NoBad, TRUE)
Careful == Arena(<<ByC(1, 0), ByU(2, 1), Fixed(0)>>, <<{2}>>, <<{0, 2}>>, Disagree1, TRUE)
Both02 == Arena(<<ByC(1, 2), ByC(2, 1), ByC(0, 2)>>, <<{1}, {2}>>, << >>, NoBad, TRUE)
TwoFair == Arena(<<ByU(1, 0), Agree(2, 1), ByU(2, 0)>>, <<{2}>>, <<{0}, {1}>>, NoBad, TRUE)

SystemGames == {Reach2, Wait2, Careful, Both02, TwoFair}

\* The environment can avoid a goal, needs two outer levels, waits for two
\* assumptions in turn, or wins by a bad round.
Avoid2 == Arena(<<ByU(1, 0), ByC(0, 1), Fixed(0)>>, <<{2}>>, << >>, NoBad, TRUE)
Lure == Arena(<<Fixed(2), ByU(1, 0), Fixed(1)>>, <<{2}>>, <<{1}>>, NoBad, TRUE)
Turns == Arena(<<ByU(1, 0), ByU(0, 1), Fixed(0)>>, <<{2}>>, <<{0}, {1}>>, NoBad, TRUE)
Trap == Arena(<<ByU(1, 2), ByC(2, 0), Fixed(0)>>, <<{2}>>, << >>,
              {v \in MCVal : v[1] = 1 /\ v[2] = 1}, TRUE)

EnvironmentGames == {Avoid2, Lure, Turns, Trap}

-----------------------------------------------------------------------------
\* What a move table plays: 0, 1, or the environment's u.
Move(t, s, u) == IF t[s + 1] = 2 THEN u ELSE t[s + 1]

Advance(m, n, met, how) ==
  CASE how = "right" -> Prescribed(m, n, met)
    [] how = "early" -> Prescribed(m, n, TRUE)
    [] how = "stuck" -> {}
    [] how = "late" -> IF m = {} THEN {} ELSE Prescribed(m, n, met)

\* zero, first and second: the tables of the all-zero and the one-hot modes.
SystemPolicy(g, zero, first, second, how) ==
  LET n == NumGoals(g)
      D == MCState \X (SUBSET (1..n)) \X (0..1)
      Table(m) == IF m = {} THEN zero ELSE IF m = {2} THEN second ELSE first
  IN  [none |-> FALSE,
       out |-> [d \in D |-> Move(Table(d[2]), d[1], d[3])],
       count |-> [d \in D |->
                    Advance(d[2], n, d[1] \in g.goals[Current(d[2])], how)]]

EnvironmentPolicy(g, first, second, how) ==
  LET n == NumFairs(g)
      D == MCState \X (SUBSET (1..n))
  IN  [none |-> FALSE,
       out |-> [d \in D |-> (IF d[2] = {2} THEN second ELSE first)[d[1] + 1]],
       count |-> [d \in D |->
                    Advance(d[2], n, d[1] \in Fair(g, Current(d[2])), how)]]

Tables == {<<a, b, 0>> : a \in {0, 1}, b \in 0..2}
SystemPolicies(g) ==
  {SystemPolicy(g, zero, first, second, how) :
     zero \in {<<1, 2, 0>>}, first \in Tables,
     second \in {<<0, 0, 1>>}, how \in {"right"}}
  \cup {SystemPolicy(g, zero, <<1, 2, 0>>, second, how) :
          zero \in {<<1, 2, 0>>, <<0, 2, 0>>}, second \in {<<0, 0, 1>>, <<0, 1, 0>>},
          how \in {"early", "stuck", "late"}}

EnvironmentPolicies(g) ==
  {EnvironmentPolicy(g, first, second, how) :
     first \in {<<a, b, 0>> : a, b \in {0, 1}}, second \in {<<1, 1, 0>>},
     how \in {"right", "stuck"}}

-----------------------------------------------------------------------------
Chains == {<<MCState>>, <<{1, 2}, MCState>>, <<{0}, {0, 1}, MCState>>,
           <<{1}, MCState>>, <<{2}, {1, 2}, MCState>>}

\* Every assumption's X is the whole level, or the first one's lacks a state.
Split(S, i, n, shared) ==
  IF i = 1 /\ n > 1 /\ ~shared THEN S \ {0} ELSE S

SystemCert(g, inv, chains, shared, goals) ==
  [none |-> FALSE, stateOnly |-> TRUE, inv |-> inv, goals |-> goals,
   y |-> chains,
   x |-> [ji \in (1..NumGoals(g)) \X (1..NumFairs(g)) |->
            [k \in 1..Len(chains[ji[1]]) |->
               Split(chains[ji[1]][k], ji[2], NumFairs(g), shared)]]]

SystemCerts(g) ==
  {SystemCert(g, inv, chains, shared, g.goals) :
     inv \in {MCState, {0, 1}}, shared \in (IF NumFairs(g) = 1 THEN {TRUE} ELSE BOOLEAN),
     chains \in IF NumGoals(g) = 1 THEN {<<c>> : c \in Chains}
                ELSE {<<c, d>> : c, d \in {<<MCState>>, <<{0}, MCState>>, <<{1}, MCState>>}}}

Plain(g) == SystemCert(g, MCState, [j \in 1..NumGoals(g) |-> <<MCState>>], TRUE, g.goals)

\* One certificate for each premise that can fail.
Flawed(g) ==
  {[Plain(g) EXCEPT !.stateOnly = FALSE], [Plain(g) EXCEPT !.goals[1] = {}],
   [Plain(g) EXCEPT !.inv = {1}],
   SystemCert(g, MCState, [j \in 1..NumGoals(g) |-> << >>], TRUE, g.goals),
   [Plain(g) EXCEPT !.y[1] = <<{0}>>],
   SystemCert(g, MCState, [j \in 1..NumGoals(g) |-> <<MCState, {1}>>], TRUE, g.goals),
   SystemCert(g, MCState, [j \in 1..NumGoals(g) |-> <<{0}>>], TRUE, g.goals)}

\* An outer level of one goal, given the inner ranks of the assumptions.
Level(g, ranks) ==
  LET Y == {s \in MCState : \A i \in 1..NumFairs(g) : s \in LastOf(ranks[i])}
  IN  [z |-> Y, y |-> <<Y>>,
       x |-> [ji \in {1} \X (1..NumFairs(g)) |-> ranks[ji[2]]]]

Ranks == {<<{0, 1}>>, <<{1}, {0, 1}>>, <<{0}, {0, 1}>>, <<{1, 2}, MCState>>}
LevelsOf(g) == {Level(g, [i \in 1..NumFairs(g) |-> IF i = 1 THEN r ELSE q]) :
                  r \in Ranks, q \in IF NumFairs(g) = 1 THEN {<<{0, 1}>>} ELSE Ranks}

EnvironmentCert(g, levels) ==
  [none |-> FALSE, stateOnly |-> TRUE, inv |-> LastOf(levels).z,
   goals |-> g.goals, fairs |-> g.fairs, levels |-> levels]

EnvironmentCerts(g) ==
  {EnvironmentCert(g, <<a>>) : a \in LevelsOf(g)}
  \cup {EnvironmentCert(g, <<a, b>>) : a \in {Level(g, [i \in 1..NumFairs(g) |-> <<{1, 2}>>])},
                                      b \in LevelsOf(g)}

FlawedEnvironment(g) ==
  LET ok == EnvironmentCert(g, <<Level(g, [i \in 1..NumFairs(g) |-> <<{0, 1}>>])>>)
  IN  {[ok EXCEPT !.stateOnly = FALSE], [ok EXCEPT !.goals = <<{0}>>],
       [ok EXCEPT !.fairs = <<{}, {}, {}>>], [ok EXCEPT !.inv = {0}],
       [ok EXCEPT !.levels = << >>], [ok EXCEPT !.levels[1].z = {0}],
       [ok EXCEPT !.levels[1].y = <<{0}>>],
       EnvironmentCert(g, <<Level(g, [i \in 1..NumFairs(g) |-> <<{2}, {0, 1}>>])>>),
       EnvironmentCert(g, <<Level(g, [i \in 1..NumFairs(g) |-> <<{1}>>])>>)}

-----------------------------------------------------------------------------
Request(game, environment, method, policy, cert, window, auto, readable) ==
  [game |-> game, environment |-> environment, method |-> method,
   policy |-> policy, cert |-> cert, window |-> window, auto |-> auto,
   readable |-> readable]

Usual(g) == SystemPolicy(g, <<1, 2, 0>>, <<1, 2, 0>>, <<0, 0, 1>>, "right")

SystemRequests(g) ==
  {Request(g, FALSE, "BOTH", p, c, FALSE, FALSE, TRUE) :
     p \in SystemPolicies(g), c \in SystemCerts(g)}
  \cup {Request(g, FALSE, "AUTO", p, c, FALSE, FALSE, TRUE) :
          p \in {Usual(g)}, c \in SystemCerts(g) \cup {None}}
  \cup {Request(g, FALSE, "CERTIFICATE", p, c, window, auto, TRUE) :
          p \in {Usual(g)}, c \in {Plain(g)} \cup Flawed(g), window, auto \in BOOLEAN}
  \cup {Request(g, FALSE, "CLOSED_LOOP", p, None, FALSE, FALSE, TRUE) :
          p \in SystemPolicies(g)}
  \cup {Request(g, FALSE, "REGION", None, c, FALSE, FALSE, TRUE) :
          c \in SystemCerts(g) \cup Flawed(g)}

EnvironmentRequests(g) ==
  {Request(g, TRUE, "BOTH", p, c, FALSE, FALSE, TRUE) :
     p \in EnvironmentPolicies(g), c \in EnvironmentCerts(g)}
  \cup {Request(g, TRUE, "AUTO", p, c, FALSE, FALSE, TRUE) :
          p \in {EnvironmentPolicy(g, <<1, 0, 0>>, <<1, 1, 0>>, "right")},
          c \in FlawedEnvironment(g)}
  \cup {Request(g, FALSE, "REGION", None, c, FALSE, FALSE, TRUE) : c \in SystemCerts(g)}
=============================================================================
