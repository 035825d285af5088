------------------------------ MODULE Gr1Check ------------------------------
(***************************************************************************)
(* tlsf_gr1_check (gr1_check.c): the independent checker of GR(1) policies *)
(* and certificates.  It validates the artifacts, compiles them, checks    *)
(* the certificate's one-step obligations or, of the closed loop of game   *)
(* and policy, that no reachable cycle defeats the policy, and reports a   *)
(* verdict.  Its limits may strike at any time, any BDD operation or       *)
(* allocation may fail, and a speculative first pass in another variable   *)
(* order is repeated in the usual one when it does not verify.             *)
(***************************************************************************)
EXTENDS Gr1Game

CONSTANTS StopKinds,   \* limits the caller may arm
          Requests     \* what the checker is asked

Methods == {"AUTO", "CERTIFICATE", "REGION", "CLOSED_LOOP", "BOTH"}

\* environment: the sidecars say so; readable: the artifacts parse and their
\* names and arities fit; window: the policy has 4096 to 262144 gates; auto: the
\* variable order is left to the checker.  A policy or certificate not given is
\* marked none.
ASSUME CheckConstants ==
  /\ StopKinds \subseteq {"DEADLINE", "CANCELLED"} /\ IsFiniteSet(State)
  /\ \A r \in Requests :
       /\ r.method \in Methods /\ r.game \in Games
       /\ {r.environment, r.readable, r.window, r.auto} \subseteq BOOLEAN
       /\ {r.policy.none, r.cert.none} \subseteq BOOLEAN
       /\ r.readable /\ NumGoals(r.game) > 0 =>
            /\ ~r.policy.none => IF r.environment THEN EnvironmentPolicyFits(r.game, r.policy)
                                                 ELSE SystemPolicyFits(r.game, r.policy)
            /\ ~r.cert.none => IF r.environment THEN EnvironmentCertFits(r.game, r.cert)
                                               ELSE SystemCertFits(r.game, r.cert)

VARIABLES req, pc,
          stopped,       \* the limit that has struck; limits stay struck
          legacy,        \* this is the repeated pass
          bddFailed,     \* Checker.bdd_failed
          failure,       \* Checker.failure.kind
          proof,         \* result of the certificate or of the region method
          closedLoop,    \* result of the closed-loop method
          mode,          \* counter mode being checked, 0 for all bits zero
          reach,         \* reachable states of the closed loop
          goal,          \* goal to miss, or assumption to avoid
          fi, z, newZ, y,            \* the Emerson-Lei fixpoint
          code,          \* exit code of gr1_check_run
          jsonFault,     \* why the result was not written
          json, status, verdict      \* TlsfGr1CheckResult

methods == <<bddFailed, failure, proof, closedLoop, mode>>
search == <<reach, goal, fi, z, newZ, y>>
output == <<jsonFault, json, status, verdict>>
vars == <<req, pc, stopped, legacy, methods, search, code, output>>

Game == req.game
NumCounters(r) == IF r.environment THEN NumFairs(r.game) ELSE NumGoals(r.game)

Init ==
  /\ req \in Requests /\ pc = "enter" /\ stopped = "NONE" /\ legacy = FALSE
  /\ bddFailed = FALSE /\ failure = "NONE"
  /\ proof = "SKIPPED" /\ closedLoop = "SKIPPED" /\ mode = 0
  /\ reach = {} /\ goal = 0 /\ fi = 0 /\ z = {} /\ newZ = {} /\ y = {}
  /\ code = "none" /\ jsonFault = "NONE"
  /\ json = FALSE /\ status = "none" /\ verdict = "UNKNOWN"

\* timed_out
TimedOut == stopped # "NONE"

\* The deadline passes, or the caller cancels.
Strike(kind) ==
  /\ pc # "done" /\ ~TimedOut
  /\ stopped' = kind
  /\ UNCHANGED <<req, pc, legacy, methods, search, code, output>>

-----------------------------------------------------------------------------
\* The zeroed result is returned as it is.
ClearOnly(kind) ==
  /\ status' = kind /\ verdict' = "VERIFIED" /\ json' = FALSE /\ pc' = "done"

\* tlsf_gr1_check_result_clear, which zeroes the result (VERIFIED is zero), and
\* check_failure.
CheckFailure(kind) ==
  /\ status' = kind /\ verdict' = "UNKNOWN" /\ json' = FALSE /\ pc' = "done"

\* A method that needs the certificate has one, and a policy is given exactly
\* where one is used.
ArgumentsFit ==
  /\ req.method \in {"CERTIFICATE", "BOTH", "REGION"} => ~req.cert.none
  /\ req.method = "REGION" <=> req.policy.none

\* Bad arguments or caps, an oversized artifact or no memory to copy one, or a
\* limit that struck before.
Refuse ==
  /\ pc = "enter"
  /\ \/ CheckFailure("BAD_ARGUMENT")
     \/ ArgumentsFit /\ CheckFailure("LIMIT")
     \/ ArgumentsFit /\ TimedOut /\ CheckFailure(stopped)
  /\ UNCHANGED <<req, stopped, legacy, methods, search, code, jsonFault>>

Enter ==
  /\ pc = "enter" /\ ArgumentsFit /\ ~TimedOut
  /\ pc' = "read"
  /\ UNCHANGED <<req, stopped, legacy, methods, search, code, output>>

-----------------------------------------------------------------------------
\* The game has goals and known resets, every rank has a level, and the sides
\* agree: the region method takes certificates of the system only.
WellFormed ==
  /\ req.readable /\ NumGoals(Game) > 0 /\ Game.resetKnown
  /\ req.method = "REGION" => ~req.environment
  /\ ~req.cert.none =>
       IF req.environment
         THEN EnvironmentRanked(req.cert) ELSE SystemRanked(Game, req.cert)

Read ==
  /\ pc = "read" /\ WellFormed
  /\ pc' = "compile"
  /\ UNCHANGED <<req, stopped, legacy, methods, search, code, output>>

\* Unreadable artifacts, or no memory to read them.
ReadFails ==
  /\ pc = "read"
  /\ code' \in {"INVALID", "ERROR"}
  /\ pc' = "result"
  /\ UNCHANGED <<req, stopped, legacy, methods, search, output>>

-----------------------------------------------------------------------------
\* The order is tried again and again.
AlwaysSpeculative ==
  req.method = "CERTIFICATE" /\ req.auto /\ req.window

\* speculative_input_first: the automatic order puts inputs first.
Speculative ==
  req.method = "CERTIFICATE" /\ req.auto /\ req.window /\ ~legacy

\* The second pass starts from nothing but the elapsed time.
Repeat ==
  /\ legacy' = TRUE /\ pc' = "read"
  /\ bddFailed' = FALSE /\ failure' = "NONE"
  /\ proof' = "SKIPPED" /\ mode' = 0
  /\ UNCHANGED <<closedLoop, code>>

RunsProof ==
  \/ req.method \in {"CERTIFICATE", "BOTH", "REGION"}
  \/ req.method = "AUTO" /\ ~req.cert.none

\* setup_bdds: variables, game, and the policy and certificate the method uses.
Compile ==
  /\ pc = "compile"
  /\ pc' = IF RunsProof THEN "shape" ELSE "loop"
  /\ UNCHANGED <<req, stopped, legacy, methods, search, code, output>>

\* The failures a compilation leaves: a node or host limit, a limit that struck,
\* or a plain allocation that is not recorded.
CompileFailures == {"NONE", "BDD", "HOST", stopped}

CompileFails ==
  /\ pc = "compile"
  /\ IF Speculative /\ ~TimedOut
       THEN Repeat
       ELSE /\ failure' \in CompileFailures
            /\ code' = "UNKNOWN" /\ pc' = "result"
            /\ UNCHANGED <<legacy, bddFailed, proof, closedLoop, mode>>
  /\ UNCHANGED <<req, stopped, search, output>>

-----------------------------------------------------------------------------
\* After the certificate: both methods when asked for, and the closed loop when
\* the automatic method's certificate proves nothing.
Concluded(result) ==
  /\ proof' = result
  /\ pc' = IF \/ req.method = "BOTH"
              \/ req.method = "AUTO" /\ result = "CERT_FAILED"
             THEN "loop" ELSE "decide"

Premise(stage) ==
  CASE stage = "shape"   -> IF req.environment THEN EnvironmentShape(Game, req.cert)
                                               ELSE SystemShape(Game, req.cert)
    [] stage = "bind"    -> /\ req.cert.goals = Game.goals
                            /\ req.environment => req.cert.fairs = Game.fairs
    [] stage = "initial" -> Game.reset \in req.cert.inv
    [] stage = "cover"   -> Covered(Game, req.cert)

AfterPremise(stage) ==
  CASE stage = "shape"   -> "bind"
    [] stage = "bind"    -> "initial"
    [] stage = "initial" -> IF req.environment THEN "modes" ELSE "cover"
    [] stage = "cover"   -> "modes"

PremiseStages == {"shape", "bind", "initial", "cover"}

PremiseHolds ==
  /\ pc \in PremiseStages /\ Premise(pc)
  /\ pc' = AfterPremise(pc)
  /\ UNCHANGED <<req, stopped, legacy, methods, search, code, output>>

\* The environment's shape and binding are compared to the end although an
\* operation has failed, and may still find a difference.
PremiseFails ==
  /\ pc \in PremiseStages /\ ~Premise(pc)
  /\ bddFailed' \in {bddFailed,
                     bddFailed \/ (req.environment /\ pc \in {"shape", "bind"})}
  /\ Concluded("CERT_FAILED")
  /\ UNCHANGED <<req, stopped, legacy, failure, closedLoop, mode, search, code,
                 output>>

\* An operation fails.  While binding the environment's certificate that is
\* only noted.
PremiseUnknown ==
  /\ pc \in PremiseStages
  /\ bddFailed' = TRUE
  /\ IF req.environment /\ pc = "bind"
       THEN pc' = AfterPremise(pc) /\ UNCHANGED proof
       ELSE Concluded("UNKNOWN")
  /\ UNCHANGED <<req, stopped, legacy, failure, closedLoop, mode, search, code,
                 output>>

ModeBits == IF mode = 0 THEN {} ELSE {mode}

\* The obligations of the mode being checked.
ModeHolds ==
  IF req.method = "REGION" THEN RegionMode(Game, req.cert, ModeBits)
  ELSE IF req.environment THEN EnvironmentMode(Game, req.policy, req.cert, ModeBits)
  ELSE SystemMode(Game, req.policy, req.cert, ModeBits)

\* A mode of the system's policy or of the region ends with a look at the
\* limits; the environment's does not.
ModePasses ==
  /\ pc = "modes" /\ ModeHolds
  /\ ~bddFailed /\ (TimedOut => req.environment)
  /\ mode' = mode + 1
  /\ IF mode < NumCounters(req) THEN UNCHANGED <<pc, proof>> ELSE Concluded("VERIFIED")
  /\ UNCHANGED <<req, stopped, legacy, bddFailed, failure, closedLoop, search,
                 code, output>>

ModeViolated ==
  /\ pc = "modes" /\ ~ModeHolds
  /\ Concluded("CERT_FAILED")
  /\ UNCHANGED <<req, stopped, legacy, bddFailed, failure, closedLoop, mode,
                 search, code, output>>

\* No memory, an operation that fails, a limit that struck, or an operation that
\* failed while binding.
ModeUnknown ==
  /\ pc = "modes"
  /\ failure' \in CompileFailures
  /\ bddFailed' \in {bddFailed, TRUE} /\ (failure' # "NONE" => bddFailed')
  /\ Concluded("UNKNOWN")
  /\ UNCHANGED <<req, stopped, legacy, closedLoop, mode, search, code, output>>

-----------------------------------------------------------------------------
\* The closed loop of game and policy, over states <<s, counter>>.

\* The rounds from q: the policy's move against every move of the other side.
Rounds(r, q) ==
  IF r.environment
    THEN {<<q[1], r.policy.out[q], c>> : c \in CMove}
    ELSE {<<q[1], u, r.policy.out[<<q[1], q[2], u>>]>> : u \in UMove}

Counted(r, q, v) ==
  IF r.environment THEN r.policy.count[q]
                   ELSE r.policy.count[<<q[1], q[2], v[2]>>]

\* Bad rounds of the environment's policy lead nowhere: it has won.
Successors(r, q) ==
  {<<r.game.succ[v], Counted(r, q, v)>> :
     v \in {w \in Rounds(r, q) : r.environment => w \notin r.game.bad}}

\* pre_exists and pre_exists_safe, of the reachable states.
Pre(Q) == {q \in reach : Successors(req, q) \cap Q # {}}

In(Q, S) == {q \in Q : q[1] \in S}

\* ensure_full_policy, then the initial state: the reset with no bit set.
StartLoop ==
  /\ pc = "loop" /\ ~bddFailed
  /\ reach' = {<<Game.reset, {}>>}
  /\ pc' = "reach"
  /\ UNCHANGED <<req, stopped, legacy, methods, goal, fi, z, newZ, y, code, output>>

\* The policy, so far compiled mode by mode, cannot be compiled as a whole; or an
\* operation or allocation fails or has failed before, or a limit has struck.
LoopUnknown ==
  /\ pc \in {"loop", "reach", "avoid", "y", "z"}
  /\ \/ /\ pc = "loop" /\ req.method = "AUTO" /\ RunsProof
        /\ failure' \in CompileFailures /\ bddFailed' = TRUE
     \/ bddFailed' \in {bddFailed, TRUE} /\ UNCHANGED failure
  /\ closedLoop' = "UNKNOWN" /\ pc' = "decide"
  /\ UNCHANGED <<req, stopped, legacy, proof, mode, search, code, output>>

LoopConcluded(result) ==
  closedLoop' = result /\ pc' = "decide" /\ UNCHANGED <<goal, fi, z, newZ, y>>

Polled == ~bddFailed /\ ~TimedOut

ReachMore ==
  /\ pc = "reach" /\ Polled
  /\ reach' = reach \cup UNION {Successors(req, q) : q \in reach}
  /\ reach' # reach
  /\ UNCHANGED <<req, pc, stopped, legacy, methods, goal, fi, z, newZ, y, code,
                 output>>

\* What the cycle looked for must meet infinitely often, and where it must stay.
Acceptance ==
  IF req.environment THEN Game.fairs \o Game.goals
                     ELSE [i \in 1..NumFairs(Game) |-> Fair(Game, i)]
Allowed(g) == IF req.environment THEN reach ELSE In(reach, State \ Game.goals[g])

\* The greatest fixpoint starts.
StartSearch(g) ==
  /\ goal' = g /\ z' = Allowed(g) /\ newZ' = Allowed(g) /\ y' = {} /\ fi' = 1
  /\ pc' = "y" /\ UNCHANGED closedLoop

Avoiding(k) == In(reach, State \ Game.fairs[k])

\* First, paths of the controller's on which an assumption never holds again.
StartAvoiding(k) ==
  IF k <= Len(Game.fairs)
    THEN /\ goal' = k /\ z' = Avoiding(k)
         /\ pc' = "avoid" /\ UNCHANGED <<fi, newZ, y, closedLoop>>
    ELSE StartSearch(1)

\* Everything reachable is known.
ReachDone ==
  /\ pc = "reach" /\ Polled
  /\ UNION {Successors(req, q) : q \in reach} \subseteq reach
  /\ IF req.environment THEN StartAvoiding(1)
     ELSE IF \E q \in reach : Rounds(req, q) \cap Game.bad # {} THEN LoopConcluded("REFUTED")
     ELSE StartSearch(1)
  /\ UNCHANGED <<req, stopped, legacy, bddFailed, failure, proof, mode, reach,
                 code, output>>

AvoidStep ==
  /\ pc = "avoid" /\ Polled
  /\ IF Avoiding(goal) \cap Pre(z) # z
       THEN z' = Avoiding(goal) \cap Pre(z) /\ UNCHANGED <<pc, goal, fi, newZ, y, closedLoop>>
     ELSE IF z # {} THEN LoopConcluded("REFUTED")
     ELSE StartAvoiding(goal + 1)
  /\ UNCHANGED <<req, stopped, legacy, bddFailed, failure, proof, mode, reach,
                 code, output>>

\* The next approximation of what reaches acceptance set fi, and Z again.
NextY == Allowed(goal) \cap (In(Pre(z), Acceptance[fi]) \cup Pre(y))

YStep ==
  /\ pc = "y" /\ Polled
  /\ IF NextY # y THEN y' = NextY /\ UNCHANGED <<pc, fi, newZ>>
     ELSE /\ newZ' = newZ \cap y
          /\ IF fi < Len(Acceptance) THEN fi' = fi + 1 /\ y' = {} /\ pc' = pc
                                     ELSE pc' = "z" /\ UNCHANGED <<fi, y>>
  /\ UNCHANGED <<req, stopped, legacy, methods, reach, goal, z, code, output>>

\* The last goal is not looked at.
ForgetsLastGoal ==
  /\ pc = "z" /\ Polled
  /\ IF newZ # z THEN z' = newZ /\ newZ' = Allowed(goal) /\ fi' = 1 /\ y' = {}
                        /\ pc' = "y" /\ UNCHANGED <<goal, closedLoop>>
     ELSE IF z # {} THEN LoopConcluded("REFUTED")
     ELSE IF req.environment \/ goal + 1 >= NumGoals(Game)
       THEN LoopConcluded("VERIFIED")
     ELSE StartSearch(goal + 1)
  /\ UNCHANGED <<req, stopped, legacy, bddFailed, failure, proof, mode, reach,
                 code, output>>

\* Z shrank; or it holds a fair cycle; or there is none, and the next goal of
\* the system's policy is looked at.
ZStep ==
  /\ pc = "z" /\ Polled
  /\ IF newZ # z THEN z' = newZ /\ newZ' = Allowed(goal) /\ fi' = 1 /\ y' = {}
                        /\ pc' = "y" /\ UNCHANGED <<goal, closedLoop>>
     ELSE IF z # {} THEN LoopConcluded("REFUTED")
     ELSE IF req.environment \/ goal = NumGoals(Game) THEN LoopConcluded("VERIFIED")
     ELSE StartSearch(goal + 1)
  /\ UNCHANGED <<req, stopped, legacy, bddFailed, failure, proof, mode, reach,
                 code, output>>

-----------------------------------------------------------------------------
ExitCode ==
  IF req.method = "REGION" THEN proof
  ELSE IF proof = "VERIFIED" /\ closedLoop = "REFUTED" THEN "INTERNAL"
  ELSE IF closedLoop = "REFUTED" THEN "REFUTED"
  ELSE IF "VERIFIED" \in {proof, closedLoop} THEN "VERIFIED"
  ELSE IF "UNKNOWN" \in {proof, closedLoop} THEN "UNKNOWN"
  ELSE proof

\* A speculative pass that did not verify is repeated while there is time.
Decide ==
  /\ pc = "decide"
  /\ IF Speculative /\ ~TimedOut /\ proof # "VERIFIED"
       THEN Repeat
       ELSE code' = ExitCode /\ pc' = "result" /\ UNCHANGED <<legacy, methods>>
  /\ UNCHANGED <<req, stopped, search, output>>

\* The result is written into memory, within the cap.
WriteResult ==
  /\ pc = "result"
  /\ \/ json' = TRUE /\ UNCHANGED <<code, jsonFault>>
     \/ /\ jsonFault' \in {"LIMIT", "HOST", "OTHER"}
        /\ code' = "ERROR" /\ UNCHANGED json
  /\ pc' = "return"
  /\ UNCHANGED <<req, stopped, legacy, methods, search, status, verdict>>

\* The first of these that applies: a limit seen by a compilation, one that
\* struck since, a resource failure without a verdict, an unwritten result.
Return ==
  /\ pc = "return"
  /\ IF failure \in {"DEADLINE", "CANCELLED"} THEN CheckFailure(failure)
     ELSE IF TimedOut THEN CheckFailure(stopped)
     ELSE IF code \in {"UNKNOWN", "ERROR"} /\ failure \in {"BDD", "HOST"}
       THEN CheckFailure("LIMIT")
     ELSE IF jsonFault \in {"LIMIT", "HOST"} THEN CheckFailure("LIMIT")
     ELSE IF code \in {"INTERNAL", "ERROR"} THEN CheckFailure("ERROR")
     ELSE /\ status' = "OK" /\ pc' = "done" /\ UNCHANGED json
          /\ verdict' = IF code = "VERIFIED" /\ req.method = "REGION"
                          THEN "REGION_VERIFIED" ELSE code
  /\ UNCHANGED <<req, stopped, legacy, methods, search, code, jsonFault>>

Step ==
  \/ Refuse \/ Enter \/ Read \/ ReadFails \/ Compile \/ CompileFails
  \/ PremiseHolds \/ PremiseFails \/ PremiseUnknown
  \/ ModePasses \/ ModeViolated \/ ModeUnknown
  \/ StartLoop \/ LoopUnknown \/ ReachMore \/ ReachDone \/ AvoidStep \/ YStep
  \/ ZStep \/ Decide \/ WriteResult \/ Return

Next == Step \/ \E kind \in StopKinds : Strike(kind)

Spec == Init /\ [][Next]_vars

\* The checker is one sequential function: it always takes its next step.
FairSpec == Spec /\ WF_vars(Step)

-----------------------------------------------------------------------------
Phases == {"enter", "read", "compile", "shape", "bind", "initial", "cover",
           "modes", "loop", "reach", "avoid", "y", "z", "decide", "result",
           "return", "done"}
Results == {"SKIPPED", "VERIFIED", "CERT_FAILED", "REFUTED", "UNKNOWN"}
LoopStates(r) == State \X SUBSET (1..NumCounters(r))

TypeOK ==
  /\ pc \in Phases
  /\ stopped \in {"NONE"} \cup StopKinds /\ failure \in {"NONE", "BDD", "HOST"} \cup StopKinds
  /\ legacy \in BOOLEAN /\ bddFailed \in BOOLEAN /\ json \in BOOLEAN
  /\ proof \in Results \ {"REFUTED"} /\ closedLoop \in Results \ {"CERT_FAILED"}
  /\ mode \in 0..(NumCounters(req) + 1)
  /\ {reach, z, newZ, y} \subseteq SUBSET LoopStates(req)
  /\ goal \in Nat /\ fi \in Nat
  /\ code \in Results \cup {"none", "INVALID", "ERROR", "INTERNAL"}
  /\ jsonFault \in {"NONE", "LIMIT", "HOST", "OTHER"}
  /\ status \in {"none", "OK", "BAD_ARGUMENT", "LIMIT", "ERROR"} \cup StopKinds
  /\ verdict \in Results \cup {"REGION_VERIFIED", "INVALID"}

\* "Non-OK status never carries a verified verdict or JSON artifact"
\* (gr1_check.h); and an OK one comes with its JSON, in time and without a
\* resource failure behind its UNKNOWN.  "Failed automatic input-first passes
\* retry in state-first order within the original deadline.  Forced orders
\* never retry with a different order": no verdict against a policy rests on
\* the speculative pass.
FailClosed ==
  /\ TypeOK
  /\ legacy => req.auto /\ req.window /\ req.method = "CERTIFICATE"
  /\ status = "OK" /\ verdict \in {"CERT_FAILED", "UNKNOWN"} => ~Speculative
  /\ pc = "done" =>
    IF status = "OK"
      THEN /\ json /\ ~TimedOut
           /\ verdict = "UNKNOWN" => failure = "NONE"
      ELSE verdict = "UNKNOWN" /\ ~json

\* Every check returns: the fixpoints converge and there is one repetition.
Terminates == <>(pc = "done")

-----------------------------------------------------------------------------
(***************************************************************************)
(* What the verdicts of gr1_check.c mean, defined without fixpoint         *)
(* iterations: a policy loses when its closed loop has a path to a bad     *)
(* round or to a cycle that breaks the game's condition; a game is won     *)
(* where the nested fixpoint of its least and greatest solutions says so.  *)
(***************************************************************************)
\* Where one step from S leads, inside Q.
OneStep(r, S, Q) == UNION {Successors(r, p) \cap Q : p \in S}

\* What a path of one step or more from q, inside Q, may reach.
ReachedFrom(r, q, Q) ==
  LET upTo[n \in 0..Cardinality(Q)] ==
        IF n = 0 THEN OneStep(r, {q}, Q)
        ELSE LET S == upTo[n - 1] IN S \cup OneStep(r, S, Q)
  IN  upTo[Cardinality(Q)]

InitialState(r) == <<r.game.reset, {}>>

Reachable(r) ==
  {InitialState(r)} \cup ReachedFrom(r, InitialState(r), LoopStates(r))

\* A cycle inside Q that meets every one of the sets.
CycleMeeting(r, Q, sets) ==
  \E q \in Q :
    LET from == ReachedFrom(r, q, Q) IN
      /\ q \in from
      /\ \A k \in 1..Len(sets) : \E p \in from :
           p[1] \in sets[k] /\ q \in ReachedFrom(r, p, Q)

\* The system's policy loses to a bad round, or to a fair cycle without a goal;
\* the environment's to a safe cycle that is unfair or meets every goal.
Loses(r) ==
  LET Q == Reachable(r) IN
    IF r.environment
      THEN \/ \E i \in 1..Len(r.game.fairs) :
                CycleMeeting(r, In(Q, State \ r.game.fairs[i]), << >>)
           \/ CycleMeeting(r, Q, r.game.fairs \o r.game.goals)
      ELSE \/ \E q \in Q : Rounds(r, q) \cap r.game.bad # {}
           \/ \E j \in 1..NumGoals(r.game) :
                CycleMeeting(r, In(Q, State \ r.game.goals[j]), r.game.fairs)

\* Where the system can stay while assumption i is false, or go on to Y or to
\* goal j inside Z: a greatest solution.
Holding(g, Z, Y, j, i) ==
  UNION {X \in SUBSET State :
           X \subseteq CPre(g, (Z \cap g.goals[j]) \cup Y \cup (X \ Fair(g, i)))}

\* The system's winning region: the greatest Z that lies, for each goal, in the
\* least Y closed under this.
Winning(g) ==
  UNION {Z \in SUBSET State :
    \A j \in 1..NumGoals(g), Y \in SUBSET State :
      (\A i \in 1..NumFairs(g) : Holding(g, Z, Y, j, i) \subseteq Y) => Z \subseteq Y}

\* "REFUTED is claimed only when the policy is genuinely losing" (gr1_check.c),
\* VERIFIED only when it wins, and REGION_VERIFIED only for a game the system
\* wins; whichever method, retry or fallback the verdict came from.  The two
\* methods never contradict each other: what the certificate proves the closed
\* loop does not refute, so that "certificate and closed-loop methods disagree"
\* is never printed.
VerdictSound ==
  /\ ~(proof = "VERIFIED" /\ closedLoop = "REFUTED")
  /\ pc = "done" =>
       /\ verdict = "VERIFIED" => ~Loses(req)
       /\ verdict = "REFUTED" => Loses(req)
       /\ verdict = "REGION_VERIFIED" => Game.reset \in Winning(Game)
=============================================================================
