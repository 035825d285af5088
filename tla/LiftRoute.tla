----------------------------- MODULE LiftRoute -----------------------------
(***************************************************************************)
(* Lifting as its callers see it (gr1_lift.cc): a target is prepared and   *)
(* sealed, then one of three calls works on it:                            *)
(*   "lift"  a system certificate, proved by region or by policy           *)
(*   "env"   an environment certificate                                    *)
(*   "both"  seeds decide which of the two lifts is tried; when it fails   *)
(*           the prepared game is solved directly                          *)
(* A job is [call, order, exact, deadline, noReal, noEnv, stats, calls,    *)
(* side, fam, opts]: side is who wins the target game, calls how often the *)
(* prepared target is worked on.                                           *)
(*                                                                         *)
(* Reduction, solver, checker and schema learning are external here: they  *)
(* give any result they can give, except that the checker accepts a        *)
(* certificate of the wrong side only for bytes that are not the sealed    *)
(* game.  `trusted` is what the target owns: its game bytes, the bytes of  *)
(* the reduced instance, the recorded hash and the seal of preparation;    *)
(* test hooks may change them at the places where they are hashed again.   *)
(***************************************************************************)
EXTENDS LiftWindow

CONSTANTS Jobs,
          Families      \* job.fam is one of their indices

\* The search for seeds of a call.
Search(j) ==
    CASE j.call = "both" -> DiscoverShared(Families[j.fam],
                                [j.opts EXCEPT !.noReal = j.noReal, !.noEnv = j.noEnv])
      [] j.call = "lift" -> Discover(Families[j.fam], j.opts)
      [] OTHER -> DiscoverEnv(Families[j.fam], j.opts)

Searches == [j \in Jobs |-> Search(j)]

VARIABLES job, pc, calls, late, cancelled,
          trusted,      \* [bytes, inst, hash, seal, exact]
          window,       \* of the seeds
          sides,        \* who wins the seeds solved so far
          cand,         \* [side, game, method, verdict], side "" when there is none
          exhausted,    \* one proof method ran out of its capacity
          failure,      \* the failure in flight
          status, fstatus,    \* what the call returned and the cause it reported
          event,        \* the last DECLINE or STOPPED of the observer
          route,
          proof,        \* what the result owns; game "" when it is empty
          checkedFor,   \* the proof the target remembers
          stat,         \* internal_checks of the statistics
          hard          \* causes, other than declines, met by the current attempt

vars == <<job, pc, calls, late, cancelled, trusted, window, sides, cand, exhausted,
          failure, status, fstatus, event, route, proof, checkedFor, stat, hard>>

time == <<late, cancelled>>
target == <<job, calls, trusted>>
search == <<window, sides>>
result == <<status, fstatus, event, route, proof, checkedFor>>

NoCand == [side |-> "", game |-> "", method |-> "", verdict |-> "unknown"]
Sealed == "g"
NoEvent == [kind |-> "none", cause |-> "ok"]

Init ==
    /\ job \in Jobs
    /\ pc = "prepare" /\ calls = 0
    /\ late = "none" /\ cancelled = FALSE
    /\ trusted = [bytes |-> "", inst |-> "", hash |-> "", seal |-> "", exact |-> TRUE]
    /\ window = NoWindow /\ sides = <<>>
    /\ cand = NoCand /\ exhausted = FALSE
    /\ failure = NoFailure
    /\ status = "ok" /\ fstatus = "ok" /\ event = NoEvent
    /\ route = "none" /\ proof = NoCand /\ checkedFor = NoCand
    /\ stat = 0 /\ hard = {}

-----------------------------------------------------------------------------
\* Time, and the hooks of the tests.

Phases == {"policy", "ucand", "uprobe", "usolve"}
Running == pc \notin {"ended", "idle"}

Mode == IF pc = "policy" THEN "policy"
        ELSE IF pc \in {"ucand", "uprobe", "usolve"} THEN "env" ELSE "call"

PhaseExpires ==
    /\ pc \in Phases /\ late = "none"
    /\ late' = "phase"
    /\ UNCHANGED <<job, pc, calls, cancelled, trusted, window, sides, cand, exhausted, failure,
                   result, stat, hard>>

DeadlinePasses ==
    /\ Running /\ job.deadline /\ late \in {"none", "phase"}
    /\ late' = IF late = "phase" THEN "both" ELSE "deadline"
    /\ UNCHANGED <<job, pc, calls, cancelled, trusted, window, sides, cand, exhausted, failure,
                   result, stat, hard>>

Cancel ==
    /\ Running /\ ~cancelled
    /\ cancelled' = TRUE
    /\ UNCHANGED <<job, pc, calls, late, trusted, window, sides, cand, exhausted, failure,
                   result, stat, hard>>

\* The bytes of the prepared game change, or they are swapped for another game
\* with its own hash.
Tamper ==
    /\ trusted.bytes = Sealed /\ pc \in {"start", "region", "policy", "rcheck", "ucand",
                                          "ucheck", "dcheck"}
    /\ \/ trusted' = [trusted EXCEPT !.bytes = "x"]
       \/ pc = "start" /\ trusted' = [trusted EXCEPT !.bytes = "x", !.inst = "x", !.hash = "x"]
    /\ UNCHANGED <<job, pc, calls, time, window, sides, cand, exhausted, failure, result, stat,
                   hard>>

\* A phase's allowance ends with the phase.
LeavePhase == late' = CASE late = "phase" -> "none" [] late = "both" -> "deadline" [] OTHER -> late

-----------------------------------------------------------------------------
\* Raising a failure of the library.  The seed routes of a combined call have a
\* handler of their own for these.

TryPcs == {"seeds", "solve", "pick", "rcand", "rcheck", "ucand", "ucheck"}

Hard(f) == IF IsApplicability(f.cause) THEN {} ELSE {f.cause}

Raise(f) ==
    /\ failure' = f
    /\ hard' = hard \cup Hard(f)
    /\ pc' = IF job.call = "both" /\ pc \in TryPcs THEN "caught" ELSE "failed"
    /\ LeavePhase
    /\ UNCHANGED <<target, cancelled, search, cand, exhausted, result>>

\* Every poll may also find the process larger than its budget, or not measure it.
Memory == {Limit("budget-memory"), Failure("error", "error", "budget-memory")}

\* One of these failures, when the poll of the stage does not fail first.
Raised(stage, failures) ==
    LET polled == Polled(Mode, late, cancelled, stage)
    IN  /\ \E f \in IF polled # {} THEN polled ELSE failures \cup Memory : Raise(f)
        /\ UNCHANGED stat

Goes(stage) == Polled(Mode, late, cancelled, stage) = {}

\* What the host throws: memory that is not there, or any other exception that
\* is no failure of the library.  Every handler below invoke_lift is for failures
\* of the library, so an exception ends the call wherever it strikes.  A verified
\* environment lift has nothing left to allocate.
Exceptions == {Limit("allocation"), Failure("error", "error", "internal")}

Checking == {"rcheck", "ucheck", "dcheck", "region", "policy"}

Counted == stat' = IF job.stats THEN 1 ELSE stat

Throw ==
    /\ pc \notin {"start", "failed", "ended"}
    /\ pc = "publish" => job.call # "env"
    /\ \E f \in Exceptions : failure' = f /\ hard' = hard \cup Hard(f)
    /\ pc' = "failed" /\ LeavePhase
    /\ route' = IF pc = "direct" THEN "direct" ELSE route
    /\ UNCHANGED stat \/ (pc \in Checking /\ Counted)
    /\ UNCHANGED <<target, cancelled, search, cand, exhausted, status, fstatus, event, proof,
                   checkedFor>>

\* lower: expansion, reduction and provenance of one instance.
LowerFailures ==
    {Limit("expand"), Decline("applicability", "expand"), Decline("error", "expand_error"),
     Limit("reduce"), Decline("applicability", "reduce"), Decline("error", "reduce_error"),
     Decline("applicability", "provenance"), Decline("error", "provenance"),
     Decline("error", "target_binding")}

\* The calls and options of the interface; the sizes of a parameter below its
\* value reduce, or fail as lower does.
ASSUME JobsAssumption ==
    \A j \in Jobs :
        /\ j.call \in {"lift", "env", "both"} /\ j.order \in {"region", "policy"}
        /\ j.opts \in [sizes : Nat, arity : Nat, probes : Nat, confirm : BOOLEAN,
                       noReal : BOOLEAN, noEnv : BOOLEAN]
        /\ j.fam \in DOMAIN Families

ASSUME FamiliesAssumption ==
    \A f \in DOMAIN Families :
        /\ Len(Families[f].axes) \in Nat
        /\ DOMAIN Families[f].axes = 1..Len(Families[f].axes)
        /\ \A n \in DOMAIN Families[f].axes :
              LET axis == Families[f].axes[n]
              IN  /\ axis.value \in Nat
                  /\ \A k \in 1..(axis.value - 1) :
                        IsFailure(axis.probes[k]) => axis.probes[k] \in LowerFailures

-----------------------------------------------------------------------------
\* Preparation.

\* The second failure is reported whatever the first was.
JoinedLast(first, second) == second

\* The exact reduction, or the strict one after a decline; a cause that was no
\* decline survives a later one that is.
Joined(first, second) ==
    IF ~IsApplicability(first.cause) /\ IsApplicability(second.cause)
    THEN [second EXCEPT !.cause = first.cause] ELSE second

Prepared(exact) ==
    /\ trusted' = [bytes |-> Sealed, inst |-> Sealed, hash |-> Sealed, seal |-> Sealed,
                   exact |-> exact]
    /\ pc' = "start" /\ hard' = {}
    /\ UNCHANGED <<job, calls, time, search, cand, exhausted, failure, result>>

NoParameters == ~job.exact /\ Families[job.fam].axes = <<>>

Prepare ==
    /\ pc = "prepare"
    /\ UNCHANGED stat
    /\ \/ Raised("source", {Failure("invalid", "invalid", "source"), Decline("error", "parse")})
       \/ /\ Goes("source") /\ NoParameters
          /\ Raise(Decline("applicability", "parameters"))
       \/ /\ Goes("source") /\ ~NoParameters /\ Prepared(TRUE)
       \/ /\ Goes("source") /\ ~NoParameters
          /\ \E f \in LowerFailures :
                \/ (job.exact \/ f.status # "declined") /\ Raise(f)
                \/ ~job.exact /\ f.status = "declined" /\ Prepared(FALSE)
                \/ /\ ~job.exact /\ f.status = "declined"
                   /\ \E g \in LowerFailures :
                        /\ failure' = Joined(f, g)
                        /\ hard' = Hard(f) \cup Hard(g)
                        /\ pc' = "failed"
                        /\ UNCHANGED <<target, time, search, cand, exhausted, result>>

\* A call on the prepared target.  Only preparation empties the statistics.
Bound == /\ trusted.exact /\ trusted.hash = trusted.bytes /\ trusted.seal = trusted.bytes
         /\ trusted.inst = trusted.bytes

Begin ==
    /\ pc = "start"
    /\ window' = NoWindow /\ sides' = <<>>
    /\ cand' = NoCand /\ exhausted' = FALSE /\ proof' = NoCand /\ route' = "none"
    /\ calls' = calls + 1
    /\ IF job.call = "both" /\ ~Bound
       THEN /\ failure' \in {Decline("error", "target_binding")} \cup Exceptions
            /\ hard' = Hard(failure') /\ pc' = "failed"
       ELSE /\ failure' = NoFailure /\ hard' = {}
            /\ pc' = CASE job.call = "lift" -> "probe"
                       [] job.call = "env" -> "uprobe"
                       [] job.call = "both" /\ job.noReal /\ job.noEnv -> "direct"
                       [] OTHER -> "seeds"
    /\ event' = NoEvent
    /\ UNCHANGED <<job, time, trusted, status, fstatus, checkedFor, stat>>

-----------------------------------------------------------------------------
\* The observer of a combined call hears of every attempt that ends.
Emit(f) ==
    event' = [kind |-> IF IsApplicability(f.cause) THEN "DECLINE" ELSE "STOPPED",
              cause |-> DiagnosticStatus(f.cause)]

Valid == ValidWindow(Families[job.fam], window)

\* Seeds of a combined call.
Seeds ==
    /\ pc = "seeds"
    /\ \E found \in {Searches[job]} :
           \/ Raised("seed_window", {})
           \/ Goes("seed_window") /\ found.failure # NoFailure /\ Raise(found.failure) /\ UNCHANGED stat
           \/ /\ Goes("seed_window") /\ found.failure = NoFailure
              /\ hard' = {}
              /\ IF found.window = NoWindow
                 THEN /\ Emit(Decline("applicability", "seed_window"))
                      /\ pc' = "direct" /\ UNCHANGED window
                 ELSE window' = found.window /\ pc' = "solve" /\ UNCHANGED event
              /\ UNCHANGED <<target, time, sides, cand, exhausted, failure, status, fstatus, route,
                             proof, checkedFor, stat>>

Selected == Range1(window.real) \cup Range1(window.env)

\* solve_shared_seed: solver, certificate and an independent check.
SeedFailures ==
    {Decline(SolverFailureCause(k), "seed_solve") : k \in {"none", "bdd", "host", "artifact"}}
    \cup {Decline("error", "seed_metadata"), Decline("error", "seed_binding")}
    \cup {Decline(CheckFailureCause(s, v), "seed_check") :
            s \in {"ok", "limit", "error"}, v \in {"cert_failed", "unknown"}}
    \cup {Limit("seed_solve")}

\* A system lift's own seed must be won by the system.
OwnSeedFailures ==
    {Limit("seed_solve"), Decline("applicability", "seed_solve"), Decline("error", "seed_error"),
     Decline("error", "seed_metadata")}

\* An environment lift's own seed must be won by the environment.
EnvSeedFailures ==
    {Limit("seed_solve"), Decline("error", "seed_error"), Decline("error", "seed_metadata"),
     Decline("applicability", "seed_check")}
    \cup {Decline(CheckFailureCause(s, v), "seed_check") :
            s \in {"ok", "limit", "error"}, v \in {"cert_failed", "unknown"}}

SolveSeed ==
    /\ pc = "solve"
    /\ \/ Raised("seed_solve", SeedFailures)
       \/ /\ Goes("seed_solve")
          /\ \E side \in {"system", "environment"} :
                /\ sides' = Append(sides, side)
                /\ pc' = IF Len(sides) + 1 < Cardinality(Selected) THEN "solve" ELSE "pick"
          /\ UNCHANGED <<target, time, window, cand, exhausted, failure, result, stat, hard>>

\* The seeds choose the route; mixed seeds and a missing window decline.
Pick ==
    /\ pc = "pick"
    /\ \/ /\ Range1(sides) = {"system"} /\ window.real # <<>>
          /\ pc' = "rcand" /\ route' = "real" /\ UNCHANGED event
       \/ /\ Range1(sides) = {"environment"} /\ ~job.noEnv /\ window.env # <<>>
          /\ pc' = "ucand" /\ route' = "env" /\ UNCHANGED event
       \/ /\ ~(Range1(sides) = {"system"} /\ window.real # <<>>)
          /\ ~(Range1(sides) = {"environment"} /\ ~job.noEnv /\ window.env # <<>>)
          /\ Emit(Decline("applicability", "seed_polarity"))
          /\ pc' = "direct" /\ UNCHANGED route
    /\ UNCHANGED <<target, time, search, cand, exhausted, failure, status, fstatus, proof,
                   checkedFor, stat, hard>>

\* What schema learning, instantiation and export may raise.
LearnFailures(stage) ==
    {Decline("applicability", stage), Decline("error", stage), Limit(stage)}

Candidate(side, method) ==
    [side |-> side, game |-> trusted.bytes, method |-> method, verdict |-> "unknown"]

\* run(candidate_only) on the shared window.  A candidate that checked the
\* target itself is refused: the statistics say whether it did.
SystemCandidate ==
    /\ pc = "rcand"
    /\ \/ Raised("candidate", IF Valid THEN LearnFailures("candidate")
                              ELSE {Decline("error", "seed_window")})
       \/ /\ Goes("candidate") /\ job.stats /\ stat > 0
          /\ Raise(Decline("error", "candidate_integrity")) /\ UNCHANGED stat
       \/ /\ Goes("candidate") /\ ~(job.stats /\ stat > 0) /\ Valid
          /\ cand' = Candidate("system", "region")
          /\ pc' = "rcheck"
          /\ UNCHANGED <<target, time, search, exhausted, failure, result, stat, hard>>

\* env_run: the metadata of the target and of each seed must bind to the source
\* and the games, and their signals align; then schema, ranks and policy.  A
\* combined call has solved the seeds before, so that all of it follows them.
Unbound == Decline("error", "target_binding")

Unaligned == {Decline(c, "typed_alignment") : c \in {"applicability", "error", "resource"}}

EnvRunFailures ==
    (IF job.call = "both" THEN {Unbound} ELSE {}) \cup Unaligned \cup LearnFailures("schema")

GameChanged == trusted.hash # trusted.bytes \/ trusted.bytes # trusted.inst

\* An environment run starts by looking at the target it is given.
EnvRefused ==
    IF ~trusted.exact THEN <<Decline("applicability", "target_reduction")>>
    ELSE IF GameChanged THEN <<Unbound>>
    ELSE <<>>

Refuses == Goes("candidate") /\ EnvRefused # <<>> /\ Raise(EnvRefused[1]) /\ UNCHANGED stat

\* The run of an environment lift started before its seeds were solved.
Refusing == job.call = "both" /\ EnvRefused # <<>>

EnvCandidate ==
    /\ pc = "ucand"
    /\ \/ Raised("candidate", IF Refusing THEN {} ELSE EnvRunFailures)
       \/ Refusing /\ Refuses
       \/ /\ Goes("candidate") /\ ~Refusing
          /\ cand' = Candidate("environment", "certificate")
          /\ pc' = "ucheck" /\ LeavePhase
          /\ UNCHANGED <<target, cancelled, search, exhausted, failure, result, stat, hard>>

-----------------------------------------------------------------------------
\* Checking.

\* External: the independent checker on the trusted bytes.
CheckerOutcomes(mode) ==
    [status : {"limit", "error"} \cup (IF Passed(mode, late) THEN {"deadline"} ELSE {})
              \cup (IF cancelled THEN {"cancelled"} ELSE {}),
     verdict : {"unknown"}]
    \cup [status : {"ok"}, verdict : {"cert_failed", "unknown"}]
    \cup (IF cand.side = job.side \/ trusted.bytes # Sealed
          THEN {[status |-> "ok", verdict |-> "verified"]} ELSE {})

Verified(o) == o.status = "ok" /\ o.verdict = "verified"

\* The bytes are hashed again, and compared with the instance, before the check.
CheckedBytesAny == TRUE
CheckedBytes == ~GameChanged

\* both_check.
BothCheck(o) ==
    CASE Verified(o) -> NoFailure
      [] o.status = "deadline" -> Failure("deadline", "deadline", "target_check")
      [] OTHER -> Decline(CheckFailureCause(o.status, o.verdict), "target_check")

\* env_check.
EnvCheck(o) ==
    CASE Verified(o) -> NoFailure
      [] o.status \in {"deadline", "cancelled"} -> Failure(o.status, o.status, "target_check")
      [] o.status = "limit" -> Limit("target_check")
      [] OTHER -> Decline(CheckFailureCause(o.status, o.verdict), "checker_rejected")

Check(step, Judge(_)) ==
    /\ pc = step
    /\ \/ Raised("target_check", {})
       \/ /\ Goes("target_check") /\ ~CheckedBytes
          /\ Raise(Decline("error", "target_binding")) /\ UNCHANGED stat
       \/ /\ CheckedBytes     \* time may pass after the poll
          /\ Counted
          /\ \E o \in CheckerOutcomes("call") :
                IF Judge(o) # NoFailure THEN Raise(Judge(o))
                ELSE /\ cand' = [cand EXCEPT !.verdict = "verified"]
                     /\ pc' = "publish"
                     /\ UNCHANGED <<target, time, search, exhausted, failure, result, hard>>

SystemCheck == Check("rcheck", BothCheck)
EnvironmentCheck == Check("ucheck", EnvCheck)
DirectCheck == Check("dcheck", BothCheck)

-----------------------------------------------------------------------------
\* The handler of the seed routes: stops of the caller and a changed target end
\* the call, everything else ends this route only.

\* The handler also gives up on an exhausted limit.
RethrownLimits(f) == f.status \in {"deadline", "cancelled", "limit"} \/ f.stage = "target_binding"

Rethrown(f) == f.status \in {"deadline", "cancelled"} \/ f.stage = "target_binding"

Caught ==
    /\ pc = "caught"
    /\ IF Rethrown(failure)
       THEN pc' = "failed" /\ UNCHANGED <<failure, event, cand>>
       ELSE IF late \in {"deadline", "both"}
       THEN /\ failure' = Failure("deadline", "deadline", failure.stage)
            /\ pc' = "failed" /\ UNCHANGED <<event, cand>>
       ELSE /\ Emit(failure)
            /\ failure' = NoFailure /\ cand' = NoCand
            /\ pc' = "direct"
    /\ hard' = IF failure' # failure /\ pc' = "failed" THEN hard \cup {"deadline"} ELSE hard
    /\ UNCHANGED <<target, time, search, exhausted, status, fstatus, route, proof, checkedFor, stat>>

\* The direct route: one exact solve of the trusted bytes.
DirectFailures ==
    {Decline(SolverFailureCause(k), "direct_solve") : k \in {"none", "bdd", "host", "artifact"}}
    \cup {Limit("direct_solve")}

Direct ==
    /\ pc = "direct"
    /\ \/ /\ \E f \in LET p == Polled("call", late, cancelled, "direct_solve")
                      IN  IF p # {} THEN p ELSE DirectFailures \cup Memory :
                /\ failure' = f /\ hard' = Hard(f)
          /\ pc' = "failed" /\ route' = "direct"
          /\ UNCHANGED <<target, time, search, cand, exhausted, status, fstatus, event, proof,
                         checkedFor, stat>>
       \/ /\ Goes("direct_solve")
          /\ \E side \in {"system", "environment"} : cand' = Candidate(side, "certificate")
          /\ route' = "direct" /\ hard' = {}
          /\ pc' = "dcheck"
          /\ UNCHANGED <<target, time, search, exhausted, failure, status, fstatus, event, proof,
                         checkedFor, stat>>

-----------------------------------------------------------------------------
\* The system lift on its own.

Probe1 ==
    /\ pc = "probe"
    /\ \E found \in {Searches[job]} :
           \/ Raised("seed_window", {})
           \/ Goes("seed_window") /\ found.failure # NoFailure /\ Raise(found.failure) /\ UNCHANGED stat
           \/ /\ Goes("seed_window") /\ found.failure = NoFailure
              /\ window' = found.window /\ hard' = {} /\ pc' = "own"
              /\ UNCHANGED <<target, time, sides, cand, exhausted, failure, result, stat>>

SolveOwn ==
    /\ pc = "own"
    /\ \/ Raised("seed_solve", IF Valid THEN OwnSeedFailures ELSE {Decline("error", "seed_window")})
       \/ /\ Goes("seed_solve") /\ Valid
          /\ sides' = Append(sides, "system")
          /\ pc' = IF Len(sides) + 1 < Len(window.real) THEN "own" ELSE "learn"
          /\ UNCHANGED <<target, time, window, cand, exhausted, failure, result, stat, hard>>

Learn ==
    /\ pc = "learn"
    /\ \/ Raised("candidate", LearnFailures("candidate"))
       \/ /\ Goes("candidate")
          /\ cand' = Candidate("system", "none")
          /\ pc' = job.order
          /\ UNCHANGED <<target, time, search, exhausted, failure, result, stat, hard>>

\* prove: a method that runs out of capacity hands over to the other one, if
\* that was not tried yet; one that fails ends the lift.
Other(method) == IF method = "region" THEN "policy" ELSE "region"

RunsOut(st) ==      \* st: the status the exhausted method leaves behind
    IF ~exhausted
    THEN /\ exhausted' = TRUE /\ pc' = Other(pc) /\ LeavePhase
         /\ UNCHANGED <<target, cancelled, search, cand, failure, result, hard>>
    ELSE LET p == IF pc = "policy" THEN Polled("call", late, cancelled, "target_check") ELSE {}
         IN  \E f \in IF p # {} THEN p ELSE {Failure(st, FailureCause(st), "target_check")} : Raise(f)

Region ==
    /\ pc = "region"
    /\ \/ Raised("region_check", {})
       \/ /\ Goes("region_check") /\ ~CheckedBytes
          /\ Raise(Decline("error", "target_check")) /\ UNCHANGED stat
       \/ /\ CheckedBytes
          /\ Counted
          /\ \E o \in CheckerOutcomes("call") :
                CASE Verified(o) ->
                       /\ cand' = [cand EXCEPT !.method = "region", !.verdict = "verified"]
                       /\ pc' = "publish"
                       /\ UNCHANGED <<target, time, search, exhausted, failure, result, hard>>
                  [] o.status = "cancelled" -> Raise(Failure("cancelled", "cancelled", "region_check"))
                  [] o.status \in {"limit", "deadline"} -> RunsOut(o.status)
                  [] OTHER -> Raise(Decline(CheckFailureCause(o.status, o.verdict), "target_check"))

\* The policy is generated and checked under an allowance of its own; that it,
\* or the caller's deadline, strikes during the generation is a capacity
\* outcome too.
Policy ==
    /\ pc = "policy"
    /\ \/ \* the poll of the caller's configuration
          /\ \E f \in Polled("call", late, cancelled, "policy") \cup Memory : Raise(f)
          /\ UNCHANGED stat
       \/ /\ \E f \in Polled("policy", late, FALSE, "policy") \cup {Limit("policy")} :
                RunsOut(f.status)
          /\ UNCHANGED stat
       \/ /\ \E f \in {Decline("applicability", "policy"), Decline("error", "policy")} : Raise(f)
          /\ UNCHANGED stat
       \/ /\ Goes("policy") /\ ~CheckedBytes
          /\ Raise(Decline("error", "target_check")) /\ UNCHANGED stat
       \/ /\ CheckedBytes
          /\ Counted
          /\ \E o \in CheckerOutcomes("policy") :
                CASE Verified(o) ->
                       /\ cand' = [cand EXCEPT !.method = "certificate", !.verdict = "verified"]
                       /\ pc' = "publish" /\ LeavePhase
                       /\ UNCHANGED <<target, cancelled, search, exhausted, failure, result, hard>>
                  [] o.status = "cancelled" -> Raise(Failure("cancelled", "cancelled", "target_check"))
                  [] o.status \in {"limit", "deadline"} ->
                       RunsOut(IF o.status = "deadline" /\ late \in {"deadline", "both"}
                               THEN "deadline" ELSE "limit")
                  [] OTHER -> Raise(Decline(CheckFailureCause(o.status, o.verdict), "target_check"))

\* The environment lift on its own: its seeds are inside the allowance.
EnvProbe ==
    /\ pc = "uprobe"
    /\ \E found \in {Searches[job]} :
           \/ Raised("candidate", IF EnvRefused # <<>> THEN {}
                                  ELSE {Unbound} \cup (IF found.failure = NoFailure
                                                       THEN Unaligned ELSE {}))
           \/ Refuses
           \/ /\ Goes("seed_window") /\ EnvRefused = <<>> /\ found.failure # NoFailure
              /\ Raise(found.failure) /\ UNCHANGED stat
           \/ /\ Goes("seed_window") /\ EnvRefused = <<>> /\ found.failure = NoFailure
              /\ window' = found.window /\ hard' = {}
              /\ pc' = "usolve"
              /\ UNCHANGED <<target, time, sides, cand, exhausted, failure, result, stat>>

EnvSolve ==
    /\ pc = "usolve"
    /\ \/ Raised("seed_solve", EnvSeedFailures)
       \/ /\ Goes("seed_solve")
          /\ sides' = Append(sides, "environment")
          /\ pc' = IF Len(sides) + 1 < Len(window.env) THEN "usolve" ELSE "ucand"
          /\ UNCHANGED <<target, time, window, cand, exhausted, failure, result, stat, hard>>

-----------------------------------------------------------------------------
\* The end of a call.

\* Artifacts are copied into the result; the target remembers them, except those
\* of an environment lift, which are there already.
Publish ==
    /\ pc = "publish"
    /\ \/ job.call = "lift" /\ Raised("publish", {Limit("publish")})
       \/ job.call = "both" /\ Raise(Limit("publish")) /\ UNCHANGED stat
       \/ /\ job.call = "lift" => Goes("publish")
          /\ proof' = cand /\ checkedFor' = IF job.call = "env" THEN checkedFor ELSE cand
          /\ status' = "ok" /\ fstatus' = "ok"
          /\ pc' = "ended"
          /\ UNCHANGED <<target, time, search, cand, exhausted, failure, event, route, stat, hard>>

\* invoke_lift: the status is the failure's, the reported cause its own; the
\* result is emptied, or keeps what an environment run left in it.
Failed ==
    /\ pc = "failed"
    /\ status' = failure.status
    /\ fstatus' = DiagnosticStatus(failure.cause)
    /\ IF job.call = "both" /\ calls > 0 THEN Emit(failure) ELSE UNCHANGED event
    /\ proof' = IF job.call = "env" THEN cand ELSE NoCand
    /\ pc' = "ended"
    /\ UNCHANGED <<target, time, search, cand, exhausted, failure, route, checkedFor, stat, hard>>

\* The prepared target is used again.
Again ==
    /\ pc = "ended" /\ trusted.seal = Sealed /\ calls < job.calls
    /\ pc' = "start"
    /\ UNCHANGED <<job, calls, time, trusted, search, cand, exhausted, failure, result, stat, hard>>

Next ==
    \/ Prepare \/ Begin \/ Seeds \/ SolveSeed \/ Pick \/ SystemCandidate \/ EnvCandidate
    \/ SystemCheck \/ EnvironmentCheck \/ Caught \/ Direct \/ DirectCheck
    \/ Probe1 \/ SolveOwn \/ Learn \/ Region \/ Policy \/ EnvProbe \/ EnvSolve
    \/ Publish \/ Failed \/ Again \/ Throw
    \/ PhaseExpires \/ DeadlinePasses \/ Cancel \/ Tamper

Spec == Init /\ [][Next]_vars

-----------------------------------------------------------------------------
\* tlsf_gr1_lift_target_matches.
Matches ==
    /\ proof.game # "" /\ trusted.seal = trusted.hash /\ proof.game = trusted.bytes
    /\ proof = checkedFor /\ checkedFor.verdict # "unknown"

Swapped == trusted.hash # trusted.seal

\* A proof that the caller accepts is one of the sealed game, for the player who
\* wins it, whatever the hooks, the deadlines and the route did.  An environment
\* lift is not compared with the seal, so a rehashed game goes unnoticed there;
\* its result is never marked verified by a call that failed.
SealedProof ==
    pc = "ended" =>
        /\ status = "ok" /\ job.call # "env" /\ Matches =>
              proof.game = Sealed /\ proof.side = job.side /\ proof.verdict = "verified"
        /\ job.call = "env" /\ proof.verdict = "verified" =>
              status = "ok" /\ (Swapped \/ (proof.game = Sealed /\ proof.side = job.side))

\* Whose time is up is told apart: "deadline" and "cancelled" are returned only
\* when the caller's deadline passed or the caller cancelled; a decline is
\* reported, to the caller or to the observer, only when nothing but declines
\* happened in that attempt, and a stop only when something else did.
HonestStop ==
    /\ pc = "ended" =>
        /\ status = "deadline" => late \in {"deadline", "both"}
        /\ status = "cancelled" => cancelled
        /\ status # "ok" => (fstatus \in {"declined", "unsupported"}) = (hard = {})
    /\ pc = "direct" /\ event # NoEvent =>
        event.kind = IF hard = {} THEN "DECLINE" ELSE "STOPPED"

\* A combined call that fails has tried the direct solve, whatever failure of the
\* library its seed routes met: limits, declines, errors and allowances end their
\* route only.  The call ends before it for the caller's stop, for an exception of
\* the host, for a target that is not the sealed one or does not bind to its seeds,
\* or because a proof that passed the check could not be handed out.
FallbackReached ==
    pc = "ended" /\ job.call = "both" /\ calls > 0 /\ status # "ok" =>
        \/ route = "direct"
        \/ status \in {"deadline", "cancelled"} \/ failure \in Exceptions
        \/ trusted.bytes # Sealed \/ ~trusted.exact \/ (route = "env" /\ failure = Unbound)
        \/ cand.verdict = "verified"

=============================================================================
