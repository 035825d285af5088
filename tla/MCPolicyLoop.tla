---------------------------- MODULE MCPolicyLoop ----------------------------
(* The policies and certificates of Gr1Cases that fit their games.           *)
EXTENDS PolicyLoop, Gr1Cases

Candidate(g, env, policy, cert) ==
  [game |-> g, environment |-> env, policy |-> policy, cert |-> cert]

MCCandidates ==
  UNION {{Candidate(g, FALSE, p, c) : p \in SystemPolicies(g), c \in SystemCerts(g)} :
           g \in SystemGames}
  \cup UNION {{Candidate(g, TRUE, p, c) :
                 p \in EnvironmentPolicies(g), c \in EnvironmentCerts(g)} :
                g \in EnvironmentGames}

MCGames == SystemGames \cup EnvironmentGames
=============================================================================
