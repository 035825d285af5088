------------------------------ MODULE MCSafety ------------------------------
(* Two latches, one environment input, two controllable inputs; the games   *)
(* combine a few next functions and unsafe predicates, won and lost ones.   *)
EXTENDS SafetySolver

MCLatches == {"x", "y"}
MCInputs == {"u"}

X == {v \in Val : v[1]["x"]}
Y == {v \in Val : v[1]["y"]}
U == {v \in Val : v[2]["u"]}
C1 == {v \in Val : v[3][1]}
C2 == {v \in Val : v[3][2]}

\* u; c1; y /\ ~c2; ~x; x \/ (u /\ c2)
NextChoices == {U, C1, Y \ C2, Val \ X, X \cup (U \cap C2)}

\* x /\ y; y /\ c1; (u /\ c1 = c2); x /\ ~y /\ c2
BadChoices == {X \cap Y, Y \cap C1, (U \cap C1 \cap C2) \cup (U \ (C1 \cup C2)),
               (X \ Y) \cap C2}

MCGames ==
  [next : [MCLatches -> NextChoices], bad : BadChoices,
   reset : {[x |-> FALSE, y |-> FALSE], [x |-> TRUE, y |-> FALSE]},
   resetKnown : {TRUE}]
  \cup {[next |-> [x |-> U, y |-> C1], bad |-> X \cap Y,
         reset |-> [x |-> FALSE, y |-> FALSE], resetKnown |-> FALSE]}

FairLoopSpec == LoopSpec /\ WF_loopVars(Solve)
=============================================================================
