----------------------------- MODULE SafetyGame -----------------------------
(***************************************************************************)
(* The safety games the solver is given, and what it means to win one.     *)
(* A game is an AIGER circuit read as in safety_oxidd.h: latches are the   *)
(* state, inputs named controllable_* are the controller's moves, the      *)
(* other inputs the environment's, and the objective output is the unsafe  *)
(* predicate.  The environment moves first: in state s it picks u, then    *)
(* the controller picks c, and the round is lost when (s,u,c) is bad.      *)
(***************************************************************************)
EXTENDS Naturals

CONSTANTS Latches,        \* names of the latches
          Uncontrollable, \* names of the environment's inputs
          NumC,           \* number of controllable inputs
          Games           \* the games to solve

State == [Latches -> BOOLEAN]
UMove == [Uncontrollable -> BOOLEAN]
CMove == [1..NumC -> BOOLEAN]
Val   == State \X UMove \X CMove   \* valuations <<s, u, c>>

\* next[j]: the valuations under which latch j becomes 1; resetKnown: every
\* reset value is 0 or 1 (AIGER also allows an uninitialised latch).
GameRecords == [next : [Latches -> SUBSET Val], bad : SUBSET Val,
                reset : State, resetKnown : BOOLEAN]

ASSUME GameConstants == NumC \in Nat /\ Games \subseteq GameRecords

\* The state after a round.
Successor(g, v) == [j \in Latches |-> v \in g.next[j]]

\* The states in which the controller can answer every u safely into X.
CPre(g, X) ==
  {s \in State : \A u \in UMove : \E c \in CMove :
     <<s, u, c>> \notin g.bad /\ Successor(g, <<s, u, c>>) \in X}

\* A set of states the controller can keep the game in, without a bad round.
Invariant(g, K) == K \subseteq CPre(g, K)

\* The controller wins from the reset state.  This is the reference: it says
\* nothing of fixpoints or of how a winning set is found.
Winnable(g) ==
  \E K \in SUBSET State : g.reset \in K /\ Invariant(g, K)
=============================================================================
