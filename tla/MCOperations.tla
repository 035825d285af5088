---------------------------- MODULE MCOperations -----------------------------
(***************************************************************************)
(* oxidd_common.c on two levels: the guarded operation layer over a node   *)
(* table, and the compilation of circuits written on what that layer       *)
(* promises.  A run takes one of them; the other machine rests.            *)
(***************************************************************************)
EXTENDS OxiddRun, BuildRoots

VARIABLE level   \* "operations" or "circuit"

\* A 200-node table, so that one percent of it is 2 nodes and both waits of
\* collect occur; operations need 1, 80 or 160 nodes.
MCNeeds == {1, 80, 160}

\* Two leaves and three gates.  The gates read leaves, constants and each
\* other, twice, complemented or with shared fanin; the roots repeat and
\* complement each other; some circuits are asked for an unknown variable.
MCCircuits ==
  [gates : {<<g1, g2, g3>> :
              g1 \in {<<2, 4>>, <<3, 4>>, <<5, 5>>, <<0, 4>>},
              g2 \in {<<6, 7>>, <<6, 2>>, <<7, 5>>, <<1, 7>>, <<2, 4>>},
              g3 \in {<<8, 6>>, <<9, 9>>, <<3, 9>>}},
   lits : {<<10, 8>>, <<11, 11>>, <<6>>, <<9, 6, 4>>, <<1, 8>>, <<12, 6>>},
   seeded : SUBSET {3, 4}]

LevelInit ==
  \/ /\ level = "operations"
     /\ Init
     /\ BuildInit /\ circuit = CHOOSE c \in Circuits : TRUE
     /\ ~buildGuard.failed
  \/ /\ level = "circuit"
     /\ BuildInit
     /\ Init /\ phase = CHOOSE p \in Phases : TRUE

LevelNext ==
  \/ level = "operations" /\ Next /\ UNCHANGED <<level, buildVars>>
  \/ level = "circuit" /\ BuildNext /\ UNCHANGED <<level, vars>>

LevelSpec == LevelInit /\ [][LevelNext]_<<level, vars, buildVars>>
=============================================================================
