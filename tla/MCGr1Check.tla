----------------------------- MODULE MCGr1Check -----------------------------
(* The checker on the cases of Gr1Cases, by every method.                    *)
EXTENDS Gr1Check, Gr1Cases

\* Requests that are refused or found invalid.
OddRequests ==
  {Request(Reach2, env, m, p, None, FALSE, TRUE, readable) :
     env \in BOOLEAN, m \in Methods, p \in {None, Usual(Reach2)}, readable \in {FALSE}}
  \cup {Request(Arena(<<Fixed(0), Fixed(0), Fixed(0)>>, goals, << >>, NoBad, FALSE),
                FALSE, "CLOSED_LOOP", Usual(Reach2), None, FALSE, TRUE, TRUE) :
          goals \in {<< >>, <<{0}>>}}

MCRequests ==
  UNION {SystemRequests(g) : g \in SystemGames}
  \cup UNION {EnvironmentRequests(g) : g \in EnvironmentGames}
  \cup OddRequests

MCGames == {r.game : r \in MCRequests}
=============================================================================
