---------------------------- MODULE SafetyPromise ---------------------------
(***************************************************************************)
(* What solving a safety game promises (safety_oxidd.h): the verdict, if   *)
(* there is one, is the right one, giving up is never a verdict, and a     *)
(* controller that is handed out never plays a bad round.                  *)
(***************************************************************************)
EXTENDS SafetyGame

VARIABLES game, verdict, plant   \* plant: the state of the controlled game

vars == <<game, verdict, plant>>

Init == game \in Games /\ verdict = "none" /\ plant = game.reset

Decide ==
  /\ verdict = "none"
  /\ verdict' = IF Winnable(game) THEN "REALIZABLE" ELSE "UNREALIZABLE"
  /\ UNCHANGED <<game, plant>>

GiveUp ==
  /\ verdict = "none"
  /\ verdict' = "ERROR"
  /\ UNCHANGED <<game, plant>>

Round ==
  /\ verdict = "REALIZABLE"
  /\ \E u \in UMove, c \in CMove :
       /\ <<plant, u, c>> \notin game.bad
       /\ plant' = Successor(game, <<plant, u, c>>)
  /\ UNCHANGED <<game, verdict>>

Next == Decide \/ GiveUp \/ Round

Spec == Init /\ [][Next]_vars
=============================================================================
