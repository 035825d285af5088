------------------------------- MODULE MCGr1 --------------------------------
(* Three states, one input of each side.  The games combine a move table    *)
(* per state with goals, assumptions and unsafe rounds, won and lost ones.  *)
EXTENDS Gr1Loop

MCState == 0..2

\* Where a round leads: fixed, chosen by the controller, by the environment, or
\* by whether they agree.
Fixed(t) == [u \in 0..1 |-> [c \in 0..1 |-> t]]
ByC(a, b) == [u \in 0..1 |-> [c \in 0..1 |-> IF c = 1 THEN a ELSE b]]
ByU(a, b) == [u \in 0..1 |-> [c \in 0..1 |-> IF u = 1 THEN a ELSE b]]
Agree(a, b) == [u \in 0..1 |-> [c \in 0..1 |-> IF u = c THEN a ELSE b]]

From0 == {ByC(0, 1), ByU(1, 2), ByC(1, 2), Agree(0, 2)}
From1 == {ByC(0, 2), ByU(0, 1), Fixed(2)}
From2 == {Fixed(0), ByU(2, 0)}

Goals == {<<{2}>>, <<{0}, {1}>>}
Fairs == {<< >>, <<{2}>>, <<{0}, {1}>>}

MCVal == MCState \X (0..1) \X (0..1)

Bads == {{}, {v \in MCVal : v[1] = 2 /\ v[2] = v[3]}}

Game(t0, t1, t2, goals, fairs, unsafe, known) ==
  [succ |-> [v \in MCVal |->
               (IF v[1] = 0 THEN t0 ELSE IF v[1] = 1 THEN t1 ELSE t2)[v[2]][v[3]]],
   bad |-> unsafe, goals |-> goals, fairs |-> fairs, reset |-> 0,
   resetKnown |-> known]

MCGames ==
  {Game(t0, t1, t2, goals, fairs, unsafe, TRUE) :
     t0 \in From0, t1 \in From1, t2 \in From2, goals \in Goals, fairs \in Fairs,
     unsafe \in Bads}
  \cup {Game(ByU(0, 1), Fixed(2), Fixed(0), <<{}, {1, 2}>>, fairs, {}, TRUE) :
          fairs \in Fairs}
  \* Lost, but only through a goal state: the dual needs two outer rounds.
  \cup {Game(Fixed(2), ByU(0, 1), Fixed(1), <<{2}>>, fairs, {}, TRUE) :
          fairs \in {<< >>, <<{1}>>}}
  \cup {Game(ByC(0, 1), Fixed(2), ByU(2, 0), goals, << >>, {}, FALSE) :
          goals \in {<<{1}>>, << >>}}

MCOptions ==
  {[staged |-> FALSE, exports |-> {}, strict |-> FALSE],
   [staged |-> TRUE, exports |-> {"certificate", "policy"}, strict |-> FALSE],
   [staged |-> TRUE, exports |-> {"policy"}, strict |-> TRUE]}
=============================================================================
