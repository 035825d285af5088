--------------------------- MODULE LiftRouteProofs ---------------------------
(***************************************************************************)
(* What a lift returns can be believed, for every set of jobs and every    *)
(* family of instances: an accepted proof is one of the sealed game, a     *)
(* stop is told from a decline, and a failure that a seed route meets does *)
(* not end a combined call before its direct solve.                        *)
(*                                                                         *)
(* None of the three properties speaks of the middle of a call.  The       *)
(* inductive invariant says what the target may have become, what a        *)
(* failure on its way to the caller carries, and what a candidate that     *)
(* passed the check owes to the bytes that were checked.                   *)
(***************************************************************************)
EXTENDS LiftRoute, WellFoundedInduction, TLAPS

Causes == {"applicability", "unsupported", "resource", "deadline", "cancelled", "invalid", "error"}

Marks == {"", Sealed, "x"}

\* The records of the target and of a candidate.
Targets == [bytes : Marks, inst : Marks, hash : Marks, seal : Marks, exact : BOOLEAN]
Candidates == [side : {"", "system", "environment"}, game : Marks,
               method : {"", "none", "region", "certificate"}, verdict : {"unknown", "verified"}]

\* Which call is at which step.
SystemPcs == {"probe", "own", "learn", "region", "policy"}
EnvPcs == {"uprobe", "usolve"}
CombinedPcs == {"seeds", "solve", "pick", "rcand", "rcheck", "caught", "direct", "dcheck"}
Quiet == {"prepare", "publish", "ucand", "ucheck"} \cup SystemPcs \cup EnvPcs
         \cup (CombinedPcs \ {"caught", "direct"})

CallInv ==
  /\ job \in Jobs /\ calls \in Nat
  /\ late \in {"none", "phase", "deadline", "both"} /\ cancelled \in BOOLEAN
  /\ trusted \in Targets /\ cand \in Candidates
  /\ pc \in Quiet \cup {"caught", "direct", "failed", "ended", "start"}
  /\ pc \in SystemPcs => job.call = "lift"
  /\ pc \in EnvPcs => job.call = "env"
  /\ pc \in CombinedPcs => job.call = "both"
  /\ pc \in {"ucand", "ucheck"} => job.call # "lift"

\* The target is not there, as it was sealed, changed, or swapped for another.
TargetInv ==
  IF trusted.seal = Sealed
  THEN /\ pc # "prepare"
       /\ trusted.bytes \in {Sealed, "x"}
       /\ \/ trusted.inst = Sealed /\ trusted.hash = Sealed
          \/ trusted.bytes = "x" /\ trusted.inst = "x" /\ trusted.hash = "x"
  ELSE /\ trusted.seal = "" /\ trusted.bytes = "" /\ calls = 0
       /\ pc \in {"prepare", "failed", "ended"}

\* A failure on its way knows whose time is up, and is a decline when nothing
\* else was met.
FailureInv ==
  /\ pc \in {"failed", "caught"} =>
       /\ failure.status \in Statuses \ {"ok"} /\ failure.cause \in Causes
       /\ failure.status = "deadline" => late \in {"deadline", "both"}
       /\ failure.status = "cancelled" => cancelled
       /\ (hard = {}) <=> IsApplicability(failure.cause)
  /\ pc = "caught" /\ failure.stage = "target_binding" =>
       trusted.bytes # Sealed \/ (route = "env" /\ failure = Unbound)
  /\ pc \in Quiet => hard = {}

\* A candidate is of the bytes it was made from; only the check marks it, and
\* then the bytes are those that were hashed.
CandidateInv ==
  /\ cand.game = "x" => trusted.bytes = "x"
  /\ pc \in {"region", "policy", "rcheck", "ucheck", "dcheck", "publish"} => cand.game # ""
  /\ cand.verdict = "verified" =>
       pc \in {"publish", "ended", "start"} \/ (pc = "failed" /\ job.call # "env")
  /\ pc = "publish" =>
       /\ cand.verdict = "verified" /\ ~GameChanged
       /\ cand.side = job.side \/ trusted.bytes # Sealed

\* A combined call that is failing tried the direct solve or has an excuse.
FallbackInv ==
  /\ pc = "dcheck" => route = "direct"
  /\ pc = "ucand" /\ job.call = "both" => route = "env"
  /\ pc = "failed" /\ job.call = "both" /\ calls > 0 =>
       \/ route = "direct"
       \/ failure.status \in {"deadline", "cancelled"} \/ failure \in Exceptions
       \/ trusted.bytes # Sealed \/ ~trusted.exact \/ (route = "env" /\ failure = Unbound)
       \/ cand.verdict = "verified"

RouteInv ==
  /\ CallInv /\ TargetInv /\ FailureInv /\ CandidateInv /\ FallbackInv
  /\ SealedProof /\ HonestStop /\ FallbackReached

-----------------------------------------------------------------------------
\* Least and greatest elements.

\* Every non-empty set of naturals has a least element.
LEMMA LeastNatural ==
  ASSUME NEW T \in SUBSET Nat, T # {}
  PROVE  \E x \in T : \A y \in T : x <= y
<1> DEFINE R == {ss \in Nat \X Nat : ss[1] < ss[2]}
<1>1. IsWellFoundedOn(R, Nat)
  BY NatLessThanWellFounded, Zenon DEF OpToRel
<1>2. \A x, y \in Nat : ~(<<y, x>> \in R) => x <= y
  OBVIOUS
<1> HIDE DEF R
<1>3. \E x \in T : \A y \in T : ~(<<y, x>> \in R)
  BY <1>1, WFMin, Zenon
<1> QED
  BY <1>2, <1>3, Zenon

LEMMA MinIn ==
  ASSUME NEW T \in SUBSET Nat, T # {}
  PROVE  Min(T) \in T
BY LeastNatural, Zenon DEF Min

LEMMA MaxIn ==
  ASSUME NEW b \in Nat, NEW T \in SUBSET 0..b, T # {}
  PROVE  Max(T) \in T
<1> DEFINE U == {n \in Nat : b - n \in T}
<1>1. PICK t \in T : TRUE
  OBVIOUS
<1>2. U \in SUBSET Nat /\ U # {}
  <2>1. b - t \in Nat /\ b - (b - t) = t
    OBVIOUS
  <2> QED BY <2>1
<1>3. PICK n \in U : \A m \in U : n <= m
  <2> HIDE DEF U
  <2> QED BY <1>2, LeastNatural, Zenon
<1>4. b - n \in T /\ \A y \in T : b - n >= y
  <2>1. b - n \in T /\ n \in Nat
    OBVIOUS
  <2>2. ASSUME NEW y \in T PROVE b - n >= y
    <3>1. y \in 0..b /\ b - y \in Nat /\ b - (b - y) = y
      OBVIOUS
    <3>2. b - y \in U
      BY <3>1
    <3> QED BY <3>1, <3>2, <1>3, <2>1
  <2> QED BY <2>1, <2>2
<1>5. \E x \in T : \A y \in T : x >= y
  BY <1>4, Zenon
<1> QED BY <1>5, Zenon DEF Max

-----------------------------------------------------------------------------
\* What a search for seeds may fail with.

SearchFailure(f) ==
  /\ f.status \in {"declined", "limit"} /\ f.cause \in {"applicability", "resource", "error"}
  /\ f.stage # "target_binding"

\* <<>> or the cause of something that is no decline.
HardOnly(c) == c = <<>> \/ c \in {<<"resource">>, <<"error">>}

\* The parameter of a family with its instances.
AxisFact(axis) ==
  /\ axis.value \in Nat
  /\ \A k \in 1..(axis.value - 1) :
        IsFailure(axis.probes[k]) => axis.probes[k] \in LowerFailures

\* A size that fails is one that does not reduce or does not align.
LEMMA ProbeFailure ==
  ASSUME NEW whole, NEW axis, AxisFact(axis), NEW k \in 1..(axis.value - 1),
         IsFailure(Probe(whole, axis, k))
  PROVE  Probe(whole, axis, k) \in LowerFailures \cup {Decline("applicability", "axis")}
<1>1. CASE IsFailure(axis.probes[k])
  BY <1>1 DEF Probe, AxisFact
<1>2. CASE ~IsFailure(axis.probes[k])
  <2> DEFINE members == AxisMembers(whole, axis.probes[k])
  <2>1. Probe(whole, axis, k) = IF IsFailure(members) THEN members ELSE axis.probes[k]
    BY <1>2, Zenon DEF Probe, Aligned
  <2>2. IsFailure(members)
    BY <2>1, <1>2, Zenon
  <2>3. \A t, p : ~IsFailure([target |-> t, probe |-> p])
    BY DEF IsFailure
  <2>4. members = Decline("applicability", "axis")
        \/ \E t, p : members = [target |-> t, probe |-> p]
    BY Zenon DEF AxisMembers, AxisOf
  <2> HIDE DEF members
  <2>5. members = Decline("applicability", "axis")
    BY <2>2, <2>3, <2>4, Zenon
  <2> QED BY <2>1, <2>2, <2>5, Zenon
<1> QED BY <1>1, <1>2

LEMMA LowerCauses ==
  ASSUME NEW f \in LowerFailures \cup {Decline("applicability", "axis")}
  PROVE  /\ f.status \in {"declined", "limit"} /\ f.cause \in {"applicability", "resource", "error"}
         /\ f.status = "limit" => f.stage # "target_binding"
         /\ f # NoFailure /\ HardOnly(HardCause(f))
<1>1. /\ f.status \in {"declined", "limit"} /\ f.cause \in {"applicability", "resource", "error"}
      /\ f.status = "limit" => f.stage # "target_binding"
  BY DEF LowerFailures, Decline, Limit, Failure
<1>2. f # NoFailure
  <2>1. NoFailure.status = "ok"
    BY DEF NoFailure, Failure
  <2> QED BY <1>1, <2>1
<1>3. HardCause(f) = <<>> \/ (HardCause(f) = <<f.cause>> /\ f.cause # "applicability")
  <2>1. ~IsApplicability(f.cause) => f.cause # "applicability"
    BY DEF IsApplicability
  <2> QED BY <2>1, Zenon DEF HardCause
<1>4. HardOnly(HardCause(f))
  BY <1>1, <1>3, Zenon DEF HardOnly
<1> QED BY <1>1, <1>2, <1>4

LEMMA LastSizeBound ==
  ASSUME NEW axis, axis.value \in Nat, NEW opts, opts.sizes \in Nat
  PROVE  LastSize(axis, opts) \in Int /\ LastSize(axis, opts) <= axis.value - 1
<1> DEFINE a == axis.value - 1
           b == opts.sizes
<1>1. a \in Int /\ b \in Int
  OBVIOUS
<1> HIDE DEF a, b
<1>2. \E x \in {a, b} : \A y \in {a, b} : x <= y
  BY <1>1
<1>3. Min({a, b}) \in {a, b} /\ \A y \in {a, b} : Min({a, b}) <= y
  BY <1>2, Zenon DEF Min
<1>4. Min({a, b}) \in Int /\ Min({a, b}) <= a
  BY <1>1, <1>3
<1> QED BY <1>4 DEF LastSize, a, b

LEMMA ProbeStopFact ==
  ASSUME NEW whole, NEW axis, AxisFact(axis), NEW sizes \in SUBSET (1..(axis.value - 1)),
         NEW used, NEW opts
  PROVE  \/ ProbeStop(whole, axis, sizes, used, opts) = <<>>
         \/ \E f : SearchFailure(f) /\ ProbeStop(whole, axis, sizes, used, opts) = <<f>>
<1> DEFINE spent(k) == used + Cardinality({j \in sizes : j < k}) >= opts.probes
           late1 == {k \in sizes : spent(k)}
           fatal == {k \in Failing(whole, axis, sizes) : Fatal(Probe(whole, axis, k))}
           bad == late1 \cup fatal
           stop == ProbeStop(whole, axis, sizes, used, opts)
<1>1. stop = IF bad = {} THEN <<>>
             ELSE IF spent(Min(bad)) THEN <<Limit("seed_window")>>
             ELSE <<Probe(whole, axis, Min(bad))>>
  BY Zenon DEF ProbeStop
<1>2. \/ stop = <<>> \/ stop = <<Limit("seed_window")>>
      \/ bad # {} /\ ~spent(Min(bad)) /\ stop = <<Probe(whole, axis, Min(bad))>>
  BY <1>1, Zenon
<1>3. SearchFailure(Limit("seed_window"))
  BY DEF SearchFailure, Limit, Failure
<1>4. ASSUME bad # {}, ~spent(Min(bad))
      PROVE  SearchFailure(Probe(whole, axis, Min(bad)))
  <2>1. \A k \in fatal : k \in sizes /\ IsFailure(Probe(whole, axis, k))
                         /\ Fatal(Probe(whole, axis, k))
    BY Zenon DEF Failing
  <2>2. \A k \in late1 : k \in sizes /\ spent(k)
    BY Zenon
  <2> HIDE DEF fatal, late1, spent
  <2>3. bad \in SUBSET Nat
    <3>1. sizes \subseteq Nat
      BY DEF AxisFact
    <3>2. bad \subseteq sizes
      BY <2>1, <2>2, Zenon
    <3> QED BY <3>1, <3>2, Zenon
  <2> DEFINE m == Min(bad)
  <2>4. m \in bad
    <3> HIDE DEF bad
    <3> QED BY <2>3, <1>4, MinIn
  <2> HIDE DEF m
  <2>5. m \in fatal
    BY <2>4, <2>2, <1>4, Zenon DEF m
  <2>6. m \in 1..(axis.value - 1) /\ IsFailure(Probe(whole, axis, m))
        /\ Fatal(Probe(whole, axis, m))
    BY <2>1, <2>5, Zenon
  <2>7. Probe(whole, axis, m) \in LowerFailures \cup {Decline("applicability", "axis")}
    BY <2>6, ProbeFailure, Zenon
  <2> DEFINE p == Probe(whole, axis, m)
  <2> HIDE DEF p
  <2>8. /\ p.status \in {"declined", "limit"} /\ p.cause \in {"applicability", "resource", "error"}
        /\ p.status = "limit" => p.stage # "target_binding"
    BY <2>7, LowerCauses, Zenon DEF p
  <2>9. p.status \in {"deadline", "cancelled", "limit"}
    BY <2>6, Zenon DEF Fatal, p
  <2>10. SearchFailure(p)
    BY <2>8, <2>9 DEF SearchFailure
  <2> QED BY <2>10, Zenon DEF p, m
<1> HIDE DEF bad, spent, stop
<1>5. stop = <<>> \/ \E f : SearchFailure(f) /\ stop = <<f>>
  BY <1>2, <1>3, <1>4, Zenon
<1> QED BY <1>5, Zenon DEF stop

LEMMA NoteFact ==
  ASSUME NEW causes, NEW b \in Nat, DOMAIN causes \subseteq 0..b,
         \A n \in DOMAIN causes : HardOnly(causes[n])
  PROVE  HardOnly(Note(causes))
<1> DEFINE met == {n \in DOMAIN causes : causes[n] # <<>>}
<1>1. Note(causes) = IF met = {} THEN <<>> ELSE causes[Max(met)]
  BY Zenon DEF Note
<1>2. met \in SUBSET 0..b /\ met \subseteq DOMAIN causes
  OBVIOUS
<1> HIDE DEF met
<1>3. met # {} => Max(met) \in DOMAIN causes
  BY <1>2, MaxIn, Zenon
<1> QED BY <1>1, <1>3, Zenon DEF HardOnly

\* The parameter is not typed: a decline or an error of the alignment.
TypedOutcomes == {NoFailure, Decline("error", "typed_alignment"),
                  Decline("applicability", "typed_alignment")}

LEMMA TypedAxisFact ==
  ASSUME NEW i, NEW axis
  PROVE  TypedAxis(i, axis) \in TypedOutcomes
BY Zenon DEF TypedAxis, TypedOutcomes

LEMMA TypedCause ==
  ASSUME NEW f \in TypedOutcomes
  PROVE  HardOnly(HardCause(f))
<1>1. f = NoFailure \/ f.cause \in {"error", "applicability"}
  BY DEF TypedOutcomes, Decline, Failure
<1>2. CASE f = NoFailure
  BY <1>2, Zenon DEF HardCause, HardOnly
<1>3. CASE f.cause = "error"
  BY <1>3, Zenon DEF HardCause, HardOnly
<1>4. CASE f.cause = "applicability"
  <2>1. IsApplicability(f.cause)
    BY <1>4 DEF IsApplicability
  <2> QED BY <2>1, Zenon DEF HardCause, HardOnly
<1> QED BY <1>1, <1>2, <1>3, <1>4

LEMMA TypedFailureFact ==
  ASSUME NEW whole, NEW axis
  PROVE  HardOnly(HardCause(TypedFailure(whole, axis)))
<1>1. TypedFailure(whole, axis) \in TypedOutcomes
  <2>1. NoFailure \in TypedOutcomes
    BY Zenon DEF TypedOutcomes
  <2> QED BY <2>1, TypedAxisFact, Zenon DEF TypedFailure
<1> QED BY <1>1, TypedCause

LEMMA ProbeCauseFact ==
  ASSUME NEW whole, NEW axis, AxisFact(axis), NEW opts, opts.sizes \in Nat
  PROVE  HardOnly(ProbeCause(whole, axis, opts))
<1> DEFINE failing == Failing(whole, axis, 1..LastSize(axis, opts))
           causes == [k \in failing |-> HardCause(Probe(whole, axis, k))]
<1>1. \A k \in failing : /\ k \in 1..(axis.value - 1) /\ IsFailure(Probe(whole, axis, k))
                         /\ k \in 0..axis.value
  <2>1. axis.value \in Nat /\ LastSize(axis, opts) \in Int /\ LastSize(axis, opts) <= axis.value - 1
    BY LastSizeBound DEF AxisFact
  <2>2. \A k \in failing : k \in 1..LastSize(axis, opts) /\ IsFailure(Probe(whole, axis, k))
    BY Zenon DEF Failing
  <2> HIDE DEF failing
  <2> QED BY <2>1, <2>2
<1> HIDE DEF failing
<1>2. \A k \in failing : HardOnly(causes[k])
  BY <1>1, ProbeFailure, LowerCauses, Zenon
<1>3. DOMAIN causes = failing /\ failing \subseteq 0..axis.value /\ axis.value \in Nat
  BY <1>1 DEF AxisFact
<1> HIDE DEF causes
<1>4. HardOnly(Note(causes))
  BY <1>2, <1>3, NoteFact
<1> QED BY <1>4, Zenon DEF ProbeCause, causes, failing

\* A family of a job.
FamilyFact(fam) ==
  /\ Len(fam.axes) \in Nat /\ DOMAIN fam.axes = 1..Len(fam.axes)
  /\ \A n \in DOMAIN fam.axes : AxisFact(fam.axes[n])

LEMMA NotedDecline ==
  ASSUME NEW c, HardOnly(c), c # <<>>
  PROVE  SearchFailure(Decline(c[1], "search_error"))
BY DEF HardOnly, SearchFailure, Decline, Failure

LEMMA DeclineSearchFact ==
  ASSUME NEW c, HardOnly(c)
  PROVE  SearchFailure(DeclineSearch(c).failure)
<1>1. SearchFailure(Decline("applicability", "seed_window"))
  BY DEF SearchFailure, Decline, Failure
<1> DEFINE f == IF c = <<>> THEN Decline("applicability", "seed_window")
                ELSE Decline(c[1], "search_error")
<1>2. SearchFailure(f)
  BY <1>1, NotedDecline, Zenon
<1> HIDE DEF f
<1>3. Outcome(NoWindow, f).failure = f
  BY DEF Outcome
<1> QED BY <1>2, <1>3, Zenon DEF DeclineSearch, f

\* A search finds a window or fails as above.
LEMMA DiscoverSharedFact ==
  ASSUME NEW fam, FamilyFact(fam), NEW opts, opts.sizes \in Nat
  PROVE  LET f == DiscoverShared(fam, opts).failure IN f = NoFailure \/ SearchFailure(f)
<1> DEFINE axes == DOMAIN fam.axes
           sizes == [n \in axes |-> 1..LastSize(fam.axes[n], opts)]
           stop == [n \in axes |->
                      ProbeStop(fam.target, fam.axes[n], sizes[n], Spent(sizes, n), opts)]
           real == [n \in axes |->
                      IF opts.noReal \/ TooWide(fam.target, Modes(fam.target), opts.arity) THEN <<>>
                      ELSE RealSizes(fam.target, fam.axes[n], opts, TRUE)]
           env == [n \in axes |->
                     IF opts.noEnv THEN <<>> ELSE EnvSizes(fam.target, fam.axes[n], opts)]
           typed(n) == IF ~opts.noEnv /\ EnvEligible(fam.target, fam.axes[n], opts)
                       THEN HardCause(TypedFailure(fam.target, fam.axes[n])) ELSE <<>>
           causes == [n \in axes |->
                        IF typed(n) # <<>> THEN typed(n)
                        ELSE ProbeCause(fam.target, fam.axes[n], opts)]
           noted == Note(causes)
           ends == {n \in axes : /\ fam.axes[n].value > 1
                                 /\ stop[n] # <<>> \/ real[n] # <<>> \/ env[n] # <<>>}
           last == Min(ends)
           outcome == DiscoverShared(fam, opts)
           nothing == IF noted = <<>> THEN NoFailure ELSE Decline(noted[1], "search_error")
<1>1. outcome =
        IF ends = {} THEN Outcome(NoWindow, nothing)
        ELSE IF stop[last] # <<>> THEN Outcome(NoWindow, stop[last][1])
        ELSE Outcome(Window(last, real[last], env[last]), NoFailure)
  BY Zenon DEF DiscoverShared
<1>2. \A w, f : Outcome(w, f).failure = f
  BY DEF Outcome
<1>3. \A n \in axes : HardOnly(causes[n])
  <2>1. HardOnly(<<>>)
    BY DEF HardOnly
  <2>2. ASSUME NEW n \in axes PROVE HardOnly(typed(n))
    BY <2>1, TypedFailureFact, Zenon
  <2>3. ASSUME NEW n \in axes PROVE HardOnly(ProbeCause(fam.target, fam.axes[n], opts))
    BY ProbeCauseFact, Zenon DEF FamilyFact
  <2> HIDE DEF typed
  <2> QED BY <2>2, <2>3, Zenon
<1>4. HardOnly(noted)
  <2>1. DOMAIN causes \subseteq 0..Len(fam.axes) /\ Len(fam.axes) \in Nat /\ DOMAIN causes = axes
    BY DEF FamilyFact
  <2> HIDE DEF causes, axes
  <2> QED BY <2>1, <1>3, NoteFact
<1>5. nothing = NoFailure \/ SearchFailure(nothing)
  <2> HIDE DEF noted
  <2> QED BY <1>4, NotedDecline, Zenon
<1>6. \A n \in axes : stop[n] = <<>> \/ \E f : SearchFailure(f) /\ stop[n] = <<f>>
  <2> TAKE n \in axes
  <2>1. AxisFact(fam.axes[n])
    BY Zenon DEF FamilyFact
  <2>2. sizes[n] \in SUBSET (1..(fam.axes[n].value - 1))
    <3>1. /\ fam.axes[n].value \in Nat /\ LastSize(fam.axes[n], opts) \in Int
          /\ LastSize(fam.axes[n], opts) <= fam.axes[n].value - 1
      BY <2>1, LastSizeBound DEF AxisFact
    <3> QED BY <3>1
  <2>3. stop[n] = ProbeStop(fam.target, fam.axes[n], sizes[n], Spent(sizes, n), opts)
    BY Zenon
  <2> DEFINE axis == fam.axes[n]
             tried == sizes[n]
             used == Spent(sizes, n)
  <2> HIDE DEF stop, sizes, axis, tried, used
  <2>4. AxisFact(axis) /\ tried \in SUBSET (1..(axis.value - 1))
    BY <2>1, <2>2, Zenon DEF axis, tried
  <2>5. \/ ProbeStop(fam.target, axis, tried, used, opts) = <<>>
        \/ \E f : SearchFailure(f) /\ ProbeStop(fam.target, axis, tried, used, opts) = <<f>>
    BY <2>4, ProbeStopFact
  <2>6. stop[n] = ProbeStop(fam.target, axis, tried, used, opts)
    BY <2>3, Zenon DEF axis, tried, used
  <2> QED BY <2>5, <2>6, Zenon
<1>7. ends # {} => last \in axes
  <2>1. ends \subseteq axes /\ axes \subseteq Nat
    <3>1. axes \subseteq Nat
      BY DEF FamilyFact
    <3> HIDE DEF axes, stop, real, env
    <3>2. ends \subseteq axes
      OBVIOUS
    <3> QED BY <3>1, <3>2
  <2> HIDE DEF ends, axes
  <2>2. ends # {} => last \in ends
    BY <2>1, MinIn
  <2> QED BY <2>1, <2>2, Zenon
<1> HIDE DEF axes, sizes, stop, real, env, causes, noted, ends, last, outcome, nothing
<1>8. outcome.failure = NoFailure \/ SearchFailure(outcome.failure)
  <2>1. CASE ends = {}
    BY <2>1, <1>1, <1>2, <1>5, Zenon
  <2>2. CASE ends # {} /\ stop[last] # <<>>
    <3>1. PICK f : SearchFailure(f) /\ stop[last] = <<f>>
      BY <2>2, <1>6, <1>7, Zenon
    <3>2. stop[last][1] = f
      BY <3>1
    <3> QED BY <2>2, <3>1, <3>2, <1>1, <1>2, Zenon
  <2>3. CASE ends # {} /\ stop[last] = <<>>
    BY <2>3, <1>1, <1>2, Zenon
  <2> QED BY <2>1, <2>2, <2>3, Zenon
<1> QED BY <1>8, Zenon DEF outcome

LEMMA DiscoverFact ==
  ASSUME NEW fam, FamilyFact(fam), NEW opts, opts.sizes \in Nat
  PROVE  LET f == Discover(fam, opts).failure IN f = NoFailure \/ SearchFailure(f)
<1> DEFINE axes == DOMAIN fam.axes
           sizes == [n \in axes |-> 1..LastSize(fam.axes[n], opts)]
           stop == [n \in axes |->
                      ProbeStop(fam.target, fam.axes[n], sizes[n], Spent(sizes, n), opts)]
           wide == TooWide(fam.target, Modes(fam.target), opts.arity)
           real == [n \in axes |-> RealSizes(fam.target, fam.axes[n], opts, FALSE)]
           ends == {n \in axes : stop[n] # <<>> \/ wide \/ real[n] # <<>>}
           last == Min(ends)
           causes == [n \in axes |-> ProbeCause(fam.target, fam.axes[n], opts)]
           outcome == Discover(fam, opts)
<1>1. outcome =
        IF axes = {} THEN Outcome(NoWindow, Decline("applicability", "parameters"))
        ELSE IF ends = {} THEN DeclineSearch(Note(causes))
        ELSE IF stop[last] # <<>> THEN Outcome(NoWindow, stop[last][1])
        ELSE IF wide THEN Outcome(NoWindow, Decline("applicability", "bus_schema"))
        ELSE Outcome(Window(last, real[last], <<>>), NoFailure)
  BY Zenon DEF Discover
<1>2. \A w, f : Outcome(w, f).failure = f
  BY DEF Outcome
<1>3. /\ SearchFailure(Decline("applicability", "parameters"))
      /\ SearchFailure(Decline("applicability", "bus_schema"))
  BY DEF SearchFailure, Decline, Failure
<1>4. SearchFailure(DeclineSearch(Note(causes)).failure)
  <2>1. \A n \in axes : HardOnly(causes[n])
    BY ProbeCauseFact, Zenon DEF FamilyFact
  <2>2. DOMAIN causes \subseteq 0..Len(fam.axes) /\ Len(fam.axes) \in Nat /\ DOMAIN causes = axes
    BY DEF FamilyFact
  <2> HIDE DEF causes, axes
  <2>3. HardOnly(Note(causes))
    BY <2>1, <2>2, NoteFact
  <2> QED BY <2>3, DeclineSearchFact
<1>6. \A n \in axes : stop[n] = <<>> \/ \E f : SearchFailure(f) /\ stop[n] = <<f>>
  <2> TAKE n \in axes
  <2>1. AxisFact(fam.axes[n])
    BY Zenon DEF FamilyFact
  <2>2. sizes[n] \in SUBSET (1..(fam.axes[n].value - 1))
    <3>1. /\ fam.axes[n].value \in Nat /\ LastSize(fam.axes[n], opts) \in Int
          /\ LastSize(fam.axes[n], opts) <= fam.axes[n].value - 1
      BY <2>1, LastSizeBound DEF AxisFact
    <3> QED BY <3>1
  <2>3. stop[n] = ProbeStop(fam.target, fam.axes[n], sizes[n], Spent(sizes, n), opts)
    BY Zenon
  <2> DEFINE axis == fam.axes[n]
             tried == sizes[n]
             used == Spent(sizes, n)
  <2> HIDE DEF stop, sizes, axis, tried, used
  <2>4. AxisFact(axis) /\ tried \in SUBSET (1..(axis.value - 1))
    BY <2>1, <2>2, Zenon DEF axis, tried
  <2>5. \/ ProbeStop(fam.target, axis, tried, used, opts) = <<>>
        \/ \E f : SearchFailure(f) /\ ProbeStop(fam.target, axis, tried, used, opts) = <<f>>
    BY <2>4, ProbeStopFact
  <2>6. stop[n] = ProbeStop(fam.target, axis, tried, used, opts)
    BY <2>3, Zenon DEF axis, tried, used
  <2> QED BY <2>5, <2>6, Zenon
<1>7. ends # {} => last \in axes
  <2>1. ends \subseteq axes /\ axes \subseteq Nat
    <3>1. axes \subseteq Nat
      BY DEF FamilyFact
    <3> HIDE DEF axes, stop, real, wide
    <3>2. ends \subseteq axes
      OBVIOUS
    <3> QED BY <3>1, <3>2
  <2> HIDE DEF ends, axes
  <2>2. ends # {} => last \in ends
    BY <2>1, MinIn
  <2> QED BY <2>1, <2>2, Zenon
<1> HIDE DEF axes, sizes, stop, wide, real, causes, ends, last, outcome
<1>8. outcome.failure = NoFailure \/ SearchFailure(outcome.failure)
  <2>1. CASE axes = {}
    BY <2>1, <1>1, <1>2, <1>3, Zenon
  <2>2. CASE axes # {} /\ ends = {}
    BY <2>2, <1>1, <1>4, Zenon
  <2>3. CASE axes # {} /\ ends # {} /\ stop[last] # <<>>
    <3>1. PICK f : SearchFailure(f) /\ stop[last] = <<f>>
      BY <2>3, <1>6, <1>7, Zenon
    <3>2. stop[last][1] = f
      BY <3>1
    <3> QED BY <2>3, <3>1, <3>2, <1>1, <1>2, Zenon
  <2>4. CASE axes # {} /\ ends # {} /\ stop[last] = <<>>
    BY <2>4, <1>1, <1>2, <1>3, Zenon
  <2> QED BY <2>1, <2>2, <2>3, <2>4, Zenon
<1> QED BY <1>8, Zenon DEF outcome

\* The three sizes of an environment window, as far as they are reached.
LEMMA EnvReachedFact ==
  ASSUME NEW whole, NEW axis, axis.value \in Nat
  PROVE  /\ EnvReached(whole, axis) \in SUBSET (1..(axis.value - 1))
         /\ EnvBad(whole, axis) # {} => Min(EnvBad(whole, axis)) \in Three
<1> DEFINE bad == EnvBad(whole, axis)
<1>1. bad \subseteq Three
  <2>1. bad = {k \in Three : EnvFailure(whole, axis, k) # NoFailure}
    BY Zenon DEF EnvBad
  <2> QED BY <2>1, Zenon
<1> HIDE DEF bad
<1>2. bad \in SUBSET Nat
  BY <1>1 DEF Three
<1>3. bad # {} => Min(bad) \in bad
  BY <1>2, MinIn
<1>4. bad # {} => Min(bad) \in Three
  BY <1>1, <1>3
<1>5. EnvReached(whole, axis) = IF ~EnvProbed(whole, axis) THEN {}
                                 ELSE IF bad = {} THEN Three ELSE 3..Min(bad)
  BY Zenon DEF EnvReached, bad
<1>6. EnvProbed(whole, axis) => axis.value > 5
  BY DEF EnvProbed
<1>7. EnvReached(whole, axis) \in SUBSET (1..(axis.value - 1))
  <2> DEFINE least == Min(bad)
  <2> HIDE DEF least
  <2>1. EnvReached(whole, axis) = {} \/ EnvReached(whole, axis) = Three
        \/ (bad # {} /\ EnvReached(whole, axis) = 3..least)
    BY <1>5, Zenon DEF least
  <2>2. EnvReached(whole, axis) = {} \/ axis.value > 5
    BY <1>5, <1>6, Zenon
  <2>3. bad # {} => least \in {3, 4, 5}
    BY <1>4 DEF Three, least
  <2> QED BY <2>1, <2>2, <2>3 DEF Three
<1> QED BY <1>4, <1>7, Zenon DEF bad

LEMMA EnvFailureFact ==
  ASSUME NEW whole, NEW axis, AxisFact(axis), axis.value > 5, NEW k \in Three
  PROVE  HardOnly(HardCause(EnvFailure(whole, axis, k)))
<1> DEFINE p == axis.probes[k]
           q == Probe(whole, axis, k)
<1>1. k \in 1..(axis.value - 1)
  BY DEF Three, AxisFact
<1>2. IsFailure(q) => HardOnly(HardCause(q))
  BY <1>1, ProbeFailure, LowerCauses, Zenon
<1>3. IsFailure(p) => p = q
  BY Zenon DEF Probe
<1>4. \/ IsFailure(p) /\ EnvFailure(whole, axis, k) = p
      \/ EnvFailure(whole, axis, k) = TypedAxis(p, axis.name)
      \/ IsFailure(q) /\ EnvFailure(whole, axis, k) = q
      \/ EnvFailure(whole, axis, k) = NoFailure
      \/ EnvFailure(whole, axis, k) = Decline("applicability", "seed_window")
  BY Zenon DEF EnvFailure
<1>5. HardOnly(HardCause(NoFailure))
  BY Zenon DEF HardCause, HardOnly
<1>6. HardOnly(HardCause(TypedAxis(p, axis.name)))
  BY TypedAxisFact, TypedCause, Zenon
<1>7. HardOnly(HardCause(Decline("applicability", "seed_window")))
  <2>1. IsApplicability(Decline("applicability", "seed_window").cause)
    BY DEF IsApplicability, Decline, Failure
  <2> QED BY <2>1, Zenon DEF HardCause, HardOnly
<1> HIDE DEF p, q
<1> QED BY <1>2, <1>3, <1>4, <1>5, <1>6, <1>7, Zenon

LEMMA DiscoverEnvFact ==
  ASSUME NEW fam, FamilyFact(fam), NEW opts
  PROVE  LET f == DiscoverEnv(fam, opts).failure IN f = NoFailure \/ SearchFailure(f)
<1> DEFINE axes == DOMAIN fam.axes
           sizes == [n \in axes |-> EnvReached(fam.target, fam.axes[n])]
           stop == [n \in axes |->
                      ProbeStop(fam.target, fam.axes[n], sizes[n], Spent(sizes, n), opts)]
           ends == {n \in axes : /\ EnvProbed(fam.target, fam.axes[n])
                                 /\ stop[n] # <<>> \/ EnvBad(fam.target, fam.axes[n]) = {}}
           last == Min(ends)
           causes == [n \in axes |-> EnvCause(fam.target, fam.axes[n])]
           outcome == DiscoverEnv(fam, opts)
<1>1. outcome =
        IF ends = {} THEN DeclineSearch(Note(causes))
        ELSE IF stop[last] # <<>> THEN Outcome(NoWindow, stop[last][1])
        ELSE Outcome(Window(last, <<>>, <<3, 4, 5>>), NoFailure)
  BY Zenon DEF DiscoverEnv
<1>2. \A w, f : Outcome(w, f).failure = f
  BY DEF Outcome
<1>3. \A n \in axes : AxisFact(fam.axes[n])
  BY Zenon DEF FamilyFact
<1>4. ASSUME ends = {} PROVE SearchFailure(DeclineSearch(Note(causes)).failure)
  <2>1. ASSUME NEW n \in axes PROVE HardOnly(causes[n])
    <3> DEFINE whole == fam.target
               axis == fam.axes[n]
    <3>1. causes[n] = EnvCause(whole, axis)
      BY Zenon
    <3>2. EnvProbed(whole, axis) => EnvBad(whole, axis) # {}
      BY <1>4, Zenon
    <3>3. AxisFact(axis) /\ axis.value \in Nat
      BY <1>3, Zenon DEF AxisFact
    <3> HIDE DEF whole, axis, causes
    <3>4. CASE axis.value <= 5
      BY <3>4, <3>1, Zenon DEF EnvCause, HardOnly
    <3>5. CASE ~(axis.value <= 5) /\ ~EnvProbed(whole, axis)
      <4>1. causes[n] = HardCause(TypedAxis(whole, axis.name))
        BY <3>5, <3>1, Zenon DEF EnvCause
      <4> QED BY <4>1, TypedAxisFact, TypedCause, Zenon
    <3>6. CASE ~(axis.value <= 5) /\ EnvProbed(whole, axis)
      <4>1. causes[n] = HardCause(EnvFailure(whole, axis, Min(EnvBad(whole, axis))))
        BY <3>6, <3>1, Zenon DEF EnvCause
      <4>2. Min(EnvBad(whole, axis)) \in Three
        BY <3>2, <3>3, <3>6, EnvReachedFact, Zenon
      <4>3. axis.value > 5
        BY <3>3, <3>6
      <4> QED BY <4>1, <4>2, <4>3, <3>3, EnvFailureFact, Zenon
    <3> QED BY <3>4, <3>5, <3>6
  <2>2. DOMAIN causes \subseteq 0..Len(fam.axes) /\ Len(fam.axes) \in Nat /\ DOMAIN causes = axes
    BY DEF FamilyFact
  <2> HIDE DEF causes, axes
  <2>3. HardOnly(Note(causes))
    BY <2>1, <2>2, NoteFact
  <2> QED BY <2>3, DeclineSearchFact
<1>6. \A n \in axes : stop[n] = <<>> \/ \E f : SearchFailure(f) /\ stop[n] = <<f>>
  <2> TAKE n \in axes
  <2>1. AxisFact(fam.axes[n])
    BY <1>3, Zenon
  <2>2. sizes[n] \in SUBSET (1..(fam.axes[n].value - 1))
    BY <2>1, EnvReachedFact, Zenon DEF AxisFact
  <2>3. stop[n] = ProbeStop(fam.target, fam.axes[n], sizes[n], Spent(sizes, n), opts)
    BY Zenon
  <2> DEFINE axis == fam.axes[n]
             tried == sizes[n]
             used == Spent(sizes, n)
  <2> HIDE DEF stop, sizes, axis, tried, used
  <2>4. AxisFact(axis) /\ tried \in SUBSET (1..(axis.value - 1))
    BY <2>1, <2>2, Zenon DEF axis, tried
  <2>5. \/ ProbeStop(fam.target, axis, tried, used, opts) = <<>>
        \/ \E f : SearchFailure(f) /\ ProbeStop(fam.target, axis, tried, used, opts) = <<f>>
    BY <2>4, ProbeStopFact
  <2>6. stop[n] = ProbeStop(fam.target, axis, tried, used, opts)
    BY <2>3, Zenon DEF axis, tried, used
  <2> QED BY <2>5, <2>6, Zenon
<1>7. ends # {} => last \in axes
  <2>1. ends \subseteq axes /\ axes \subseteq Nat
    <3>1. axes \subseteq Nat
      BY DEF FamilyFact
    <3> HIDE DEF axes, stop
    <3>2. ends \subseteq axes
      OBVIOUS
    <3> QED BY <3>1, <3>2
  <2> HIDE DEF ends, axes
  <2>2. ends # {} => last \in ends
    BY <2>1, MinIn
  <2> QED BY <2>1, <2>2, Zenon
<1> HIDE DEF axes, sizes, stop, causes, ends, last, outcome
<1>8. outcome.failure = NoFailure \/ SearchFailure(outcome.failure)
  <2>1. CASE ends = {}
    BY <2>1, <1>1, <1>4, Zenon
  <2>2. CASE ends # {} /\ stop[last] # <<>>
    <3>1. PICK f : SearchFailure(f) /\ stop[last] = <<f>>
      BY <2>2, <1>6, <1>7, Zenon
    <3>2. stop[last][1] = f
      BY <3>1
    <3> QED BY <2>2, <3>1, <3>2, <1>1, <1>2, Zenon
  <2>3. CASE ends # {} /\ stop[last] = <<>>
    BY <2>3, <1>1, <1>2, Zenon
  <2> QED BY <2>1, <2>2, <2>3, Zenon
<1> QED BY <1>8, Zenon DEF outcome

\* The search of a job.
LEMMA SearchFact ==
  ASSUME NEW j \in Jobs
  PROVE  LET f == Searches[j].failure IN f = NoFailure \/ SearchFailure(f)
<1> DEFINE fam == Families[j.fam]
           shared == [j.opts EXCEPT !.noReal = j.noReal, !.noEnv = j.noEnv]
<1>1. FamilyFact(fam)
  BY JobsAssumption, FamiliesAssumption, Zenon DEF FamilyFact, AxisFact
<1>2. j.opts.sizes \in Nat /\ shared.sizes \in Nat
  BY JobsAssumption
<1>3. Searches[j] = Search(j)
  BY Zenon DEF Searches
<1>4. j.call \in {"lift", "env", "both"}
  BY JobsAssumption
<1>5. \/ Search(j) = DiscoverShared(fam, shared) \/ Search(j) = Discover(fam, j.opts)
      \/ Search(j) = DiscoverEnv(fam, j.opts)
  BY <1>4, Zenon DEF Search
<1> HIDE DEF fam, shared
<1> QED BY <1>1, <1>2, <1>3, <1>5, DiscoverSharedFact, DiscoverFact, DiscoverEnvFact, Zenon

-----------------------------------------------------------------------------
\* Failures that a step may raise.

\* Nobody's time is up.
Plain(f) ==
  /\ f.status \in Statuses \ {"ok", "deadline", "cancelled"} /\ f.cause \in Causes
  /\ f.stage # "target_binding"

\* The caller's time is up, or the caller cancelled, when the failure says so.
Timely(f) ==
  /\ f.status \in Statuses \ {"ok"} /\ f.cause \in Causes
  /\ f.status = "deadline" => late \in {"deadline", "both"}
  /\ f.status = "cancelled" => cancelled

LEMMA PlainIsTimely == \A f : Plain(f) => Timely(f)
BY DEF Plain, Timely

LEMMA UnboundTimely == Timely(Unbound)
BY DEF Timely, Unbound, Decline, Failure, Statuses, Causes

LEMMA SearchIsPlain == \A f : SearchFailure(f) => Plain(f)
BY DEF Plain, SearchFailure, Statuses, Causes

LEMMA PlainDecline ==
  ASSUME NEW cause \in Causes, NEW stage, stage # "target_binding"
  PROVE  Plain(Decline(cause, stage))
BY DEF Plain, Decline, Failure, Statuses

LEMMA PlainLimit ==
  ASSUME NEW stage, stage # "target_binding"
  PROVE  Plain(Limit(stage))
BY DEF Plain, Limit, Failure, Statuses, Causes

LEMMA PlainMemory ==
  ASSUME NEW f \in Memory \cup Exceptions
  PROVE  Plain(f)
BY DEF Plain, Memory, Exceptions, Limit, Failure, Statuses, Causes

LEMMA PlainLearn ==
  ASSUME NEW stage, stage # "target_binding", NEW f \in LearnFailures(stage)
  PROVE  Plain(f)
BY PlainLimit, PlainDecline DEF LearnFailures, Causes

LEMMA CheckCauses ==
  ASSUME NEW s \in {"ok", "limit", "error"}, NEW v \in {"cert_failed", "unknown"}
  PROVE  CheckFailureCause(s, v) \in Causes
BY DEF CheckFailureCause, Causes

LEMMA SolverCauses ==
  ASSUME NEW k \in {"none", "bdd", "host", "artifact"}
  PROVE  SolverFailureCause(k) \in Causes
BY DEF SolverFailureCause, Causes

LEMMA PlainSeeds ==
  ASSUME NEW f, f \in SeedFailures \cup OwnSeedFailures \cup EnvSeedFailures
                      \cup Unaligned \cup (EnvRunFailures \ {Unbound}) \cup DirectFailures
  PROVE  Plain(f)
<1>1. \A s \in {"ok", "limit", "error"}, v \in {"cert_failed", "unknown"} :
         Plain(Decline(CheckFailureCause(s, v), "seed_check"))
  BY CheckCauses, PlainDecline
<1>2. \A k \in {"none", "bdd", "host", "artifact"} :
         Plain(Decline(SolverFailureCause(k), "seed_solve"))
         /\ Plain(Decline(SolverFailureCause(k), "direct_solve"))
  BY SolverCauses, PlainDecline
<1>3. Plain(Limit("seed_solve")) /\ Plain(Limit("direct_solve"))
  BY PlainLimit
<1>4. /\ Plain(Decline("error", "seed_metadata")) /\ Plain(Decline("error", "seed_binding"))
      /\ Plain(Decline("applicability", "seed_solve")) /\ Plain(Decline("error", "seed_error"))
      /\ Plain(Decline("applicability", "seed_check")) /\ Plain(Limit("seed_solve"))
      /\ \A c \in {"applicability", "error", "resource"} : Plain(Decline(c, "typed_alignment"))
  BY PlainDecline, PlainLimit DEF Causes
<1>5. \A g \in LearnFailures("schema") : Plain(g)
  BY PlainLearn
<1>6. f \in SeedFailures => Plain(f)
  BY <1>1, <1>2, <1>3, <1>4 DEF SeedFailures
<1>7. f \in OwnSeedFailures => Plain(f)
  BY <1>3, <1>4, Zenon DEF OwnSeedFailures
<1>8. f \in EnvSeedFailures => Plain(f)
  BY <1>1, <1>3, <1>4 DEF EnvSeedFailures
<1>9. f \in Unaligned \cup (EnvRunFailures \ {Unbound}) => Plain(f)
  BY <1>4, <1>5 DEF EnvRunFailures, Unaligned
<1>10. f \in DirectFailures => Plain(f)
  BY <1>2, <1>3, Zenon DEF DirectFailures
<1> QED BY <1>6, <1>7, <1>8, <1>9, <1>10, Zenon

\* A poll blames the caller only when it is the caller's time that is up.
LEMMA PollFact ==
  ASSUME NEW mode \in {"call", "policy", "env"},
         late \in {"none", "phase", "deadline", "both"}, NEW stage, stage # "target_binding",
         NEW f \in Polled(mode, late, cancelled, stage)
  PROVE  Timely(f) /\ f.stage # "target_binding"
<1>1. CASE cancelled
  BY <1>1 DEF Polled, Failure, Timely, Statuses, Causes
<1>2. CASE ~cancelled
  <2>1. Passed(mode, late) /\ f = DeadlineFailure(mode, late, stage)
    BY <1>2 DEF Polled
  <2> QED BY <2>1 DEF DeadlineFailure, Passed, Failure, Limit, Timely, Statuses, Causes
<1> QED BY <1>1, <1>2

-----------------------------------------------------------------------------
\* Steps that end in the middle of a call.

LEMMA Middle ==
  ASSUME pc' \notin {"ended", "direct"}
  PROVE  SealedProof' /\ HonestStop' /\ FallbackReached'
BY DEF SealedProof, HonestStop, FallbackReached

LEMMA HardFact ==
  ASSUME NEW f
  PROVE  (Hard(f) = {}) <=> IsApplicability(f.cause)
BY DEF Hard

\* Raising a failure of the caller, or one that the step may have.
LEMMA RaiseKeeps ==
  ASSUME RouteInv, NEW f, Raise(f), Timely(f), pc \in Quiet,
         pc = "publish" => job.call # "env",
         f.stage = "target_binding" => trusted.bytes # Sealed \/ (pc \in {"ucand", "uprobe"} /\ f = Unbound)
  PROVE  RouteInv'
<1> USE DEF RouteInv
<1>1. /\ failure' = f /\ pc' = (IF job.call = "both" /\ pc \in TryPcs THEN "caught" ELSE "failed")
      /\ UNCHANGED <<job, calls, trusted, cancelled, cand, status, fstatus, event, route, proof,
                     checkedFor>>
      /\ late' \in {"none", "phase", "deadline", "both"}
      /\ late \in {"deadline", "both"} => late' \in {"deadline", "both"}
  BY DEF Raise, LeavePhase, target, search, result, CallInv
<1>2. hard' = Hard(f)
  BY DEF Raise, FailureInv
<1>3. CallInv'
  BY <1>1 DEF CallInv, Quiet, SystemPcs, EnvPcs, CombinedPcs
<1>4. TargetInv'
  BY <1>1 DEF TargetInv, TryPcs
<1>5. FailureInv'
  <2>1. (hard' = {}) <=> IsApplicability(f.cause)
    BY <1>2, HardFact
  <2>2. pc' \notin Quiet
    BY <1>1 DEF Quiet, SystemPcs, EnvPcs, CombinedPcs
  <2>3. pc' = "caught" => pc # "uprobe" /\ (pc = "ucand" => route' = "env")
    BY <1>1 DEF FallbackInv, TryPcs
  <2> QED BY <1>1, <2>1, <2>2, <2>3 DEF FailureInv, Timely
<1>6. CandidateInv'
  BY <1>1 DEF CandidateInv, GameChanged, TryPcs, Quiet, SystemPcs, EnvPcs, CombinedPcs
<1>7. FallbackInv'
  <2>1. ASSUME pc' = "failed", job.call = "both", calls > 0
        PROVE  pc \in {"publish", "dcheck"}
    <3>1. pc # "prepare"
      <4>1. calls # 0
        BY <2>1
      <4> QED BY <4>1, Zenon DEF TargetInv
    <3>2. pc \notin TryPcs
      BY <2>1, <1>1
    <3>3. pc \notin SystemPcs \cup EnvPcs
      BY <2>1 DEF CallInv
    <3> QED BY <3>1, <3>2, <3>3 DEF Quiet, CombinedPcs, TryPcs
  <2>2. (pc = "dcheck" => route = "direct") /\ (pc = "publish" => cand.verdict = "verified")
    BY DEF FallbackInv, CandidateInv
  <2> QED BY <1>1, <2>1, <2>2 DEF FallbackInv
<1>8. pc' \notin {"ended", "direct"}
  BY <1>1
<1> QED BY <1>3, <1>4, <1>5, <1>6, <1>7, <1>8, Middle

LEMMA RaisedKeeps ==
  ASSUME RouteInv, NEW stage, stage # "target_binding", NEW failures,
         \A f \in failures : Plain(f) \/ (pc \in {"ucand", "uprobe"} /\ f = Unbound),
         Raised(stage, failures), pc \in Quiet, pc = "publish" => job.call # "env"
  PROVE  RouteInv'
<1> DEFINE polled == Polled(Mode, late, cancelled, stage)
<1>1. PICK f \in (IF polled # {} THEN polled ELSE failures \cup Memory) : Raise(f)
  BY Zenon DEF Raised
<1>2. Mode \in {"call", "policy", "env"} /\ late \in {"none", "phase", "deadline", "both"}
  BY DEF Mode, RouteInv, CallInv
<1>3. ASSUME f \in polled PROVE Timely(f) /\ f.stage # "target_binding"
  BY <1>2, <1>3, PollFact, Zenon
<1>4. ASSUME Plain(f) PROVE Timely(f) /\ f.stage # "target_binding"
  BY <1>4, PlainIsTimely, Zenon DEF Plain
<1>5. ASSUME f = Unbound PROVE Timely(f)
  BY <1>5, UnboundTimely
<1> HIDE DEF polled
<1>6. f \in Memory => Plain(f)
  BY PlainMemory
<1>7. f \in polled \/ Plain(f) \/ (pc \in {"ucand", "uprobe"} /\ f = Unbound)
  BY <1>1, <1>6, Zenon
<1>8. Timely(f) /\ (f.stage = "target_binding" => pc \in {"ucand", "uprobe"} /\ f = Unbound)
  BY <1>3, <1>4, <1>5, <1>7, Zenon
<1> QED BY <1>1, <1>8, RaiseKeeps, Zenon

\* A prepared target has bytes.
LEMMA PreparedBytes ==
  ASSUME RouteInv, pc \notin {"prepare", "failed", "ended"}
  PROVE  trusted.seal = Sealed /\ trusted.bytes # ""
BY DEF RouteInv, TargetInv, Sealed

\* A step from one step of a call to the next.
LEMMA QuietKeeps ==
  ASSUME RouteInv, pc \in (Quiet \cup {"start", "direct"}) \ {"publish", "prepare"},
         pc' \in Quiet \ {"publish", "prepare"}, UNCHANGED <<job, trusted, cancelled>>,
         calls' \in Nat, late' \in {"none", "phase", "deadline", "both"}, hard' = {},
         cand' \in Candidates, cand'.verdict # "verified",
         cand'.game = "x" => trusted.bytes = "x",
         pc' \in {"region", "policy", "rcheck", "ucheck", "dcheck"} => cand'.game # "",
         pc' = "dcheck" => route' = "direct",
         pc' = "ucand" /\ job.call = "both" => route' = "env",
         pc' \in SystemPcs => job.call = "lift", pc' \in EnvPcs => job.call = "env",
         pc' \in CombinedPcs => job.call = "both",
         pc' \in {"ucand", "ucheck"} => job.call # "lift"
  PROVE  RouteInv'
<1>1. pc' \notin {"caught", "direct", "failed", "ended", "start"}
  BY DEF Quiet, SystemPcs, EnvPcs, CombinedPcs
<1>2. CallInv'
  BY <1>1 DEF RouteInv, CallInv
<1>3. pc \notin {"prepare", "failed", "ended"}
  BY DEF Quiet, SystemPcs, EnvPcs, CombinedPcs
<1>4. TargetInv'
  BY <1>3, PreparedBytes DEF RouteInv, TargetInv
<1>5. FailureInv'
  BY <1>1 DEF FailureInv
<1>6. CandidateInv'
  BY <1>1 DEF CandidateInv
<1>7. FallbackInv'
  BY <1>1 DEF FallbackInv
<1> QED BY <1>1, <1>2, <1>4, <1>5, <1>6, <1>7, Middle DEF RouteInv

\* A candidate passes the check.
LEMMA MarkKeeps ==
  ASSUME RouteInv, pc \in {"region", "policy", "rcheck", "ucheck", "dcheck"}, pc' = "publish",
         ~GameChanged, cand.side = job.side \/ trusted.bytes # Sealed,
         cand' \in Candidates, cand'.verdict = "verified", cand'.side = cand.side,
         cand'.game = cand.game, UNCHANGED <<job, calls, trusted, cancelled, hard>>,
         late' \in {"none", "phase", "deadline", "both"}
  PROVE  RouteInv'
<1>1. CallInv'
  BY DEF RouteInv, CallInv, Quiet, SystemPcs, EnvPcs, CombinedPcs
<1>2. TargetInv'
  BY PreparedBytes DEF RouteInv, TargetInv
<1>3. FailureInv'
  BY DEF RouteInv, FailureInv, Quiet, SystemPcs, EnvPcs, CombinedPcs
<1>4. CandidateInv'
  BY DEF RouteInv, CandidateInv, GameChanged
<1>5. FallbackInv'
  BY DEF FallbackInv
<1> QED BY <1>1, <1>2, <1>3, <1>4, <1>5, Middle DEF RouteInv

\* The pcs of the steps of a call, one by one.
LEMMA QuietPcs ==
  /\ Quiet = {"prepare", "publish", "ucand", "ucheck", "probe", "own", "learn", "region", "policy",
              "uprobe", "usolve", "seeds", "solve", "pick", "rcand", "rcheck", "dcheck"}
  /\ TryPcs \subseteq Quiet
BY DEF Quiet, SystemPcs, EnvPcs, CombinedPcs, TryPcs

\* A candidate of the target's bytes.
LEMMA CandidateFact ==
  ASSUME RouteInv, pc \notin {"prepare", "failed", "ended"},
         NEW side \in {"system", "environment"}, NEW method \in {"none", "region", "certificate"}
  PROVE  /\ Candidate(side, method) \in Candidates
         /\ Candidate(side, method).verdict = "unknown"
         /\ Candidate(side, method).game = trusted.bytes /\ trusted.bytes # ""
<1>1. trusted.bytes \in Marks
  BY DEF RouteInv, CallInv, Targets
<1> QED BY <1>1, PreparedBytes DEF Candidate, Candidates

-----------------------------------------------------------------------------
\* Preparation and the beginning of a call.

LEMMA LowerTimely ==
  ASSUME NEW f \in LowerFailures
  PROVE  /\ f.status \in {"declined", "limit"} /\ f.cause \in Causes /\ Timely(f)
         /\ f = Failure(f.status, f.cause, f.stage)
<1>1. f = Failure(f.status, f.cause, f.stage)
  BY DEF LowerFailures, Decline, Limit, Failure
<1> QED BY <1>1, LowerCauses DEF Timely, Statuses, Causes

LEMMA JoinedFact ==
  ASSUME NEW f \in LowerFailures, NEW g \in LowerFailures
  PROVE  /\ Timely(Joined(f, g))
         /\ (Hard(f) \cup Hard(g) = {}) <=> IsApplicability(Joined(f, g).cause)
<1> DEFINE j == Joined(f, g)
<1>1. j.status = g.status
      /\ j.cause = IF ~IsApplicability(f.cause) /\ IsApplicability(g.cause)
                   THEN f.cause ELSE g.cause
  BY LowerTimely DEF Joined, Failure
<1> HIDE DEF j
<1>2. Timely(j)
  BY <1>1, LowerTimely DEF Timely, Statuses
<1>3. (Hard(f) \cup Hard(g) = {}) <=> IsApplicability(j.cause)
  BY <1>1, HardFact
<1> QED BY <1>2, <1>3 DEF j

LEMMA PreparedKeeps ==
  ASSUME RouteInv, pc = "prepare", NEW exact \in BOOLEAN, Prepared(exact)
  PROVE  RouteInv'
<1> USE DEF RouteInv
<1>1. /\ trusted' = [bytes |-> Sealed, inst |-> Sealed, hash |-> Sealed, seal |-> Sealed,
                     exact |-> exact]
      /\ pc' = "start" /\ hard' = {} /\ UNCHANGED <<job, calls, late, cancelled, cand>>
  BY DEF Prepared, time, search, result
<1>2. CallInv'
  BY <1>1 DEF CallInv, Targets, Marks, Quiet, SystemPcs, EnvPcs, CombinedPcs
<1>3. TargetInv'
  BY <1>1 DEF TargetInv
<1>4. FailureInv'
  BY <1>1, QuietPcs DEF FailureInv
<1>5. trusted.bytes = ""
  BY DEF TargetInv
<1>6. CandidateInv'
  BY <1>1, <1>5 DEF CandidateInv
<1>7. FallbackInv'
  BY <1>1 DEF FallbackInv
<1>8. pc' \notin {"ended", "direct"}
  BY <1>1
<1> QED BY <1>2, <1>3, <1>4, <1>6, <1>7, <1>8, Middle

\* The exact and the strict reduction both fail.
LEMMA JoinedKeeps ==
  ASSUME RouteInv, pc = "prepare", NEW f \in LowerFailures, NEW g \in LowerFailures,
         failure' = Joined(f, g), hard' = Hard(f) \cup Hard(g), pc' = "failed",
         UNCHANGED <<target, time, search, cand, exhausted, result>>
  PROVE  RouteInv'
<1> USE DEF RouteInv
<1>1. UNCHANGED <<job, calls, trusted, late, cancelled, cand>>
  BY DEF target, time
<1>2. CallInv'
  BY <1>1 DEF CallInv, SystemPcs, EnvPcs, CombinedPcs
<1>3. TargetInv' /\ calls = 0
  BY <1>1 DEF TargetInv
<1>4. FailureInv'
  BY <1>1, JoinedFact, QuietPcs DEF FailureInv, Timely
<1>5. CandidateInv'
  BY <1>1 DEF CandidateInv
<1>6. FallbackInv'
  BY <1>1, <1>3 DEF FallbackInv
<1> QED BY <1>2, <1>3, <1>4, <1>5, <1>6, Middle

LEMMA PrepareKeeps == RouteInv /\ Prepare => RouteInv'
<1> SUFFICES ASSUME RouteInv, Prepare PROVE RouteInv'
  OBVIOUS
<1>1. pc = "prepare" /\ pc \in Quiet
  BY QuietPcs DEF Prepare
<1>2. ASSUME Raised("source", {Failure("invalid", "invalid", "source"), Decline("error", "parse")})
      PROVE  RouteInv'
  <2>1. \A f \in {Failure("invalid", "invalid", "source"), Decline("error", "parse")} : Plain(f)
    BY DEF Plain, Failure, Decline, Statuses, Causes
  <2> QED BY <1>1, <1>2, <2>1, RaisedKeeps, Zenon
<1>3. ASSUME Raise(Decline("applicability", "parameters")) PROVE RouteInv'
  <2>1. Plain(Decline("applicability", "parameters"))
    BY PlainDecline DEF Causes
  <2>2. Timely(Decline("applicability", "parameters"))
        /\ Decline("applicability", "parameters").stage # "target_binding"
    BY <2>1, PlainIsTimely DEF Plain
  <2> QED BY <1>1, <1>3, <2>2, RaiseKeeps, Zenon
<1>4. ASSUME NEW f \in LowerFailures, Raise(f) PROVE RouteInv'
  <2>1. trusted.bytes # Sealed
    BY <1>1 DEF RouteInv, TargetInv, Sealed
  <2> QED BY <1>1, <1>4, <2>1, LowerTimely, RaiseKeeps, Zenon
<1>5. ASSUME NEW exact \in BOOLEAN, Prepared(exact) PROVE RouteInv'
  BY <1>1, <1>5, PreparedKeeps
<1>6. ASSUME NEW f \in LowerFailures, NEW g \in LowerFailures,
             failure' = Joined(f, g), hard' = Hard(f) \cup Hard(g), pc' = "failed",
             UNCHANGED <<target, time, search, cand, exhausted, result>>
      PROVE  RouteInv'
  BY <1>1, <1>6, JoinedKeeps
<1> QED BY <1>2, <1>3, <1>4, <1>5, <1>6, Zenon DEF Prepare

LEMMA BeginKeeps == RouteInv /\ Begin => RouteInv'
<1> SUFFICES ASSUME RouteInv, Begin PROVE RouteInv'
  OBVIOUS
<1>1. /\ pc = "start" /\ cand' = NoCand /\ calls' = calls + 1 /\ event' = NoEvent
      /\ UNCHANGED <<job, late, cancelled, trusted>>
  BY DEF Begin, time
<1>2. /\ calls' \in Nat /\ late' \in {"none", "phase", "deadline", "both"}
      /\ cand' \in Candidates /\ cand'.verdict = "unknown" /\ cand'.game = ""
      /\ job.call \in {"lift", "env", "both"}
  <2>1. job \in Jobs /\ calls' \in Nat /\ late' \in {"none", "phase", "deadline", "both"}
    BY <1>1 DEF RouteInv, CallInv
  <2>2. cand' \in Candidates /\ cand'.verdict = "unknown" /\ cand'.game = ""
    BY <1>1 DEF Candidates, NoCand, Marks
  <2> QED BY <2>1, <2>2, JobsAssumption
<1>3. CASE job.call = "both" /\ ~Bound
  <2>1. /\ failure' \in {Decline("error", "target_binding")} \cup Exceptions
        /\ hard' = Hard(failure') /\ pc' = "failed"
    BY <1>3 DEF Begin
  <2>2. CallInv'
    BY <1>1, <1>2, <2>1 DEF RouteInv, CallInv, SystemPcs, EnvPcs, CombinedPcs
  <2>3. TargetInv'
    BY <1>1, <2>1, PreparedBytes DEF RouteInv, TargetInv
  <2>4. FailureInv'
    <3>1. /\ failure'.status \in Statuses \ {"ok", "deadline", "cancelled"}
          /\ failure'.cause \in Causes /\ ~IsApplicability(failure'.cause)
      BY <2>1 DEF Exceptions, Limit, Decline, Failure, IsApplicability, Statuses, Causes
    <3>2. hard' # {}
      BY <2>1, <3>1, HardFact
    <3> QED BY <2>1, <3>1, <3>2, QuietPcs DEF FailureInv
  <2>5. CandidateInv'
    BY <1>1, <1>2, <2>1 DEF CandidateInv
  <2>6. trusted.bytes # Sealed \/ ~trusted.exact
    BY <1>1, <1>3, PreparedBytes DEF Bound, RouteInv, TargetInv
  <2>7. FallbackInv'
    BY <1>1, <2>1, <2>6 DEF FallbackInv
  <2> QED BY <2>1, <2>2, <2>3, <2>4, <2>5, <2>7, Middle DEF RouteInv
<1>4. CASE ~(job.call = "both" /\ ~Bound)
  <2>1. /\ hard' = {}
        /\ pc' = CASE job.call = "lift" -> "probe"
                   [] job.call = "env" -> "uprobe"
                   [] job.call = "both" /\ job.noReal /\ job.noEnv -> "direct"
                   [] OTHER -> "seeds"
    BY <1>4 DEF Begin
  <2>2. \/ pc' = "probe" /\ job.call = "lift"
        \/ pc' = "uprobe" /\ job.call = "env"
        \/ pc' \in {"direct", "seeds"} /\ job.call = "both"
    <3>1. CASE job.call = "lift"
      BY <2>1, <3>1, Zenon
    <3>2. CASE job.call = "env"
      BY <2>1, <3>2, Zenon
    <3>3. CASE job.call = "both"
      <4>1. pc' = "direct" \/ pc' = "seeds"
        BY <2>1, <3>3, Zenon
      <4> QED BY <3>3, <4>1, Zenon
    <3> QED BY <1>2, <3>1, <3>2, <3>3, Zenon
  <2>3. CASE pc' # "direct"
    <3>1. pc' \in {"probe", "uprobe", "seeds"}
      BY <2>2, <2>3
    <3>2. pc \in (Quiet \cup {"start", "direct"}) \ {"publish", "prepare"}
          /\ pc' \in Quiet \ {"publish", "prepare"}
      BY <1>1, <3>1, QuietPcs
    <3>3. /\ pc' \in SystemPcs => job.call = "lift" 
          /\ pc' \in EnvPcs => job.call = "env"
          /\ pc' \in CombinedPcs => job.call = "both"
          /\ pc' \notin {"ucand", "ucheck", "region", "policy", "rcheck", "dcheck"}
      BY <2>2, <3>1 DEF SystemPcs, EnvPcs, CombinedPcs
    <3> QED BY <1>1, <1>2, <2>1, <3>2, <3>3, QuietKeeps
  <2>4. CASE pc' = "direct"
    <3>1. CallInv'
      BY <1>1, <1>2, <2>2, <2>4 DEF RouteInv, CallInv, SystemPcs, EnvPcs
    <3>2. TargetInv'
      BY <1>1, <2>4, PreparedBytes DEF RouteInv, TargetInv
    <3>3. FailureInv'
      BY <2>1, <2>4, QuietPcs DEF FailureInv
    <3>4. CandidateInv'
      BY <1>1, <1>2, <2>4 DEF CandidateInv
    <3>5. FallbackInv'
      BY <2>4 DEF FallbackInv
    <3>6. SealedProof' /\ HonestStop' /\ FallbackReached'
      BY <1>1, <2>4 DEF SealedProof, HonestStop, FallbackReached
    <3> QED BY <3>1, <3>2, <3>3, <3>4, <3>5, <3>6 DEF RouteInv
  <2> QED BY <2>3, <2>4
<1> QED BY <1>3, <1>4

-----------------------------------------------------------------------------
\* Seeds and candidates.

\* The failure of a search is raised.
LEMMA FoundKeeps ==
  ASSUME RouteInv, pc \in Quiet \ {"publish"}, Searches[job].failure # NoFailure,
         Raise(Searches[job].failure)
  PROVE  RouteInv'
<1> DEFINE f == Searches[job].failure
<1>1. job \in Jobs
  BY DEF RouteInv, CallInv
<1>2. SearchFailure(f)
  BY <1>1, SearchFact, Zenon
<1> HIDE DEF f
<1>3. Timely(f) /\ f.stage # "target_binding"
  BY <1>2, SearchIsPlain, PlainIsTimely, Zenon DEF Plain
<1>4. Raise(f)
  BY Zenon DEF f
<1> QED BY <1>3, <1>4, RaiseKeeps, Zenon

\* A combined call leaves its seeds for the direct solve.
LEMMA DirectKeeps ==
  ASSUME RouteInv, pc \in {"seeds", "pick"}, pc' = "direct", hard' = {},
         Emit(Decline("applicability", "seed_window"))
           \/ Emit(Decline("applicability", "seed_polarity")),
         UNCHANGED <<job, calls, trusted, late, cancelled, cand>>
  PROVE  RouteInv'
<1> USE DEF RouteInv
<1>1. CallInv'
  BY DEF CallInv, SystemPcs, EnvPcs, CombinedPcs
<1>2. TargetInv'
  BY PreparedBytes DEF TargetInv
<1>3. FailureInv'
  BY QuietPcs DEF FailureInv
<1>4. CandidateInv'
  BY DEF CandidateInv
<1>5. FallbackInv'
  BY DEF FallbackInv
<1>6. event'.kind = "DECLINE"
  BY DEF Emit, Decline, Failure, IsApplicability
<1>7. SealedProof' /\ HonestStop' /\ FallbackReached'
  BY <1>6 DEF SealedProof, HonestStop, FallbackReached
<1> QED BY <1>1, <1>2, <1>3, <1>4, <1>5, <1>7

LEMMA SeedsKeeps == RouteInv /\ Seeds => RouteInv'
<1> SUFFICES ASSUME RouteInv, Seeds PROVE RouteInv'
  OBVIOUS
<1> DEFINE found == Searches[job]
<1>1. pc = "seeds" /\ job.call = "both" /\ cand.verdict # "verified"
  BY DEF Seeds, RouteInv, CallInv, CandidateInv, CombinedPcs
<1>2. ASSUME Raised("seed_window", {}) PROVE RouteInv'
  BY <1>1, <1>2, RaisedKeeps, QuietPcs
<1>3. ASSUME found.failure # NoFailure, Raise(found.failure) PROVE RouteInv'
  BY <1>1, <1>3, FoundKeeps, QuietPcs
<1>4. ASSUME hard' = {},
             \/ found.window = NoWindow /\ Emit(Decline("applicability", "seed_window"))
                /\ pc' = "direct"
             \/ found.window # NoWindow /\ pc' = "solve",
             UNCHANGED <<target, time, sides, cand, exhausted, failure, status, fstatus, route,
                         proof, checkedFor, stat>>
      PROVE  RouteInv'
  <2>1. UNCHANGED <<job, calls, trusted, late, cancelled, cand>>
    BY <1>4 DEF target, time
  <2>2. CASE pc' = "direct" /\ Emit(Decline("applicability", "seed_window"))
    BY <1>1, <1>4, <2>1, <2>2, DirectKeeps
  <2>3. CASE pc' = "solve"
    BY <1>1, <1>4, <2>1, <2>3, QuietKeeps, QuietPcs
       DEF RouteInv, CallInv, CandidateInv, SystemPcs, EnvPcs
  <2> QED BY <1>4, <2>2, <2>3
<1> QED
  <2> HIDE DEF found
  <2> QED BY <1>2, <1>3, <1>4, Zenon DEF Seeds, found

LEMMA SolveSeedKeeps == RouteInv /\ SolveSeed => RouteInv'
<1> SUFFICES ASSUME RouteInv, SolveSeed PROVE RouteInv'
  OBVIOUS
<1>1. pc = "solve" /\ job.call = "both" /\ cand.verdict # "verified" /\ hard = {}
  BY QuietPcs DEF SolveSeed, RouteInv, CallInv, CandidateInv, FailureInv, CombinedPcs
<1>2. ASSUME Raised("seed_solve", SeedFailures) PROVE RouteInv'
  BY <1>1, <1>2, RaisedKeeps, PlainSeeds, QuietPcs
<1>3. ASSUME pc' \in {"solve", "pick"},
             UNCHANGED <<target, time, window, cand, exhausted, failure, result, stat, hard>>
      PROVE  RouteInv'
  <2>1. UNCHANGED <<job, calls, trusted, late, cancelled, cand, hard>>
    BY <1>3 DEF target, time
  <2> QED BY <1>1, <1>3, <2>1, QuietKeeps, QuietPcs
             DEF RouteInv, CallInv, CandidateInv, SystemPcs, EnvPcs
<1>4. \/ Raised("seed_solve", SeedFailures)
      \/ /\ pc' \in {"solve", "pick"}
         /\ UNCHANGED <<target, time, window, cand, exhausted, failure, result, stat, hard>>
  <2>1. \A c : (IF c THEN "solve" ELSE "pick") \in {"solve", "pick"}
    OBVIOUS
  <2> QED BY <2>1, Zenon DEF SolveSeed
<1> QED BY <1>2, <1>3, <1>4, Zenon

LEMMA PickKeeps == RouteInv /\ Pick => RouteInv'
<1> SUFFICES ASSUME RouteInv, Pick PROVE RouteInv'
  OBVIOUS
<1>1. pc = "pick" /\ job.call = "both" /\ cand.verdict # "verified" /\ hard = {}
  BY QuietPcs DEF Pick, RouteInv, CallInv, CandidateInv, FailureInv, CombinedPcs
<1>2. UNCHANGED <<job, calls, trusted, late, cancelled, cand, hard>>
  BY DEF Pick, target, time
<1>3. CASE pc' \in {"rcand", "ucand"}
  <2>1. pc' = "ucand" => route' = "env"
    <3>1. "rcand" # "ucand" /\ "direct" # "ucand"
      OBVIOUS
    <3> QED BY <3>1, Zenon DEF Pick
  <2> QED BY <1>1, <1>2, <1>3, <2>1, QuietKeeps, QuietPcs
             DEF RouteInv, CallInv, CandidateInv, SystemPcs, EnvPcs
<1>4. CASE pc' = "direct" /\ Emit(Decline("applicability", "seed_polarity"))
  BY <1>1, <1>2, <1>4, DirectKeeps
<1>5. \/ pc' = "rcand" \/ pc' = "ucand"
      \/ pc' = "direct" /\ Emit(Decline("applicability", "seed_polarity"))
  BY Zenon DEF Pick
<1> QED BY <1>3, <1>4, <1>5

LEMMA SystemCandidateKeeps == RouteInv /\ SystemCandidate => RouteInv'
<1> SUFFICES ASSUME RouteInv, SystemCandidate PROVE RouteInv'
  OBVIOUS
<1> DEFINE failures == IF Valid THEN LearnFailures("candidate")
                       ELSE {Decline("error", "seed_window")}
<1>1. pc = "rcand" /\ job.call = "both" /\ hard = {} /\ pc \in Quiet
  BY QuietPcs DEF SystemCandidate, RouteInv, CallInv, FailureInv, CombinedPcs
<1>2. ASSUME Raised("candidate", failures) PROVE RouteInv'
  <2>1. Plain(Decline("error", "seed_window"))
    BY PlainDecline DEF Causes
  <2>2. \A f \in LearnFailures("candidate") : Plain(f)
    BY PlainLearn
  <2>3. \A f \in failures : Plain(f)
    BY <2>1, <2>2, Zenon
  <2> HIDE DEF failures
  <2> QED BY <1>1, <1>2, <2>3, RaisedKeeps, Zenon
<1>3. ASSUME Raise(Decline("error", "candidate_integrity")) PROVE RouteInv'
  <2>1. Plain(Decline("error", "candidate_integrity"))
    BY PlainDecline DEF Causes
  <2>2. Timely(Decline("error", "candidate_integrity"))
        /\ Decline("error", "candidate_integrity").stage # "target_binding"
    BY <2>1, PlainIsTimely DEF Plain
  <2> QED BY <1>1, <1>3, <2>2, RaiseKeeps, Zenon
<1>4. ASSUME cand' = Candidate("system", "region"), pc' = "rcheck",
             UNCHANGED <<target, time, search, exhausted, failure, result, stat, hard>>
      PROVE  RouteInv'
  <2>1. UNCHANGED <<job, calls, trusted, late, cancelled, hard>>
    BY <1>4 DEF target, time
  <2>2. /\ cand' \in Candidates /\ cand'.verdict = "unknown"
        /\ cand'.game = trusted.bytes /\ trusted.bytes # ""
    BY <1>1, <1>4, CandidateFact
  <2> QED BY <1>1, <1>4, <2>1, <2>2, QuietKeeps, QuietPcs DEF RouteInv, CallInv, SystemPcs, EnvPcs
<1> HIDE DEF failures
<1> QED BY <1>2, <1>3, <1>4, Zenon DEF SystemCandidate, failures

\* Leaving a phase keeps what the caller's deadline did.
LEMMA LeaveFact ==
  ASSUME LeavePhase, late \in {"none", "phase", "deadline", "both"}
  PROVE  late' \in {"none", "phase", "deadline", "both"}
BY DEF LeavePhase

\* A target that an environment run refuses is declined, or is not the sealed one.
LEMMA RefusesKeeps ==
  ASSUME RouteInv, Refuses, pc \in Quiet \ {"publish", "prepare"}
  PROVE  RouteInv'
<1> DEFINE f == EnvRefused[1]
<1>1. EnvRefused # <<>> /\ Raise(f)
  BY Zenon DEF Refuses
<1>2. \/ f = Decline("applicability", "target_reduction")
      \/ f = Decline("error", "target_binding") /\ GameChanged
  <2>1. \/ EnvRefused = <<Decline("applicability", "target_reduction")>>
        \/ EnvRefused = <<Decline("error", "target_binding")>> /\ GameChanged
    BY <1>1, Zenon DEF EnvRefused, Unbound
  <2> QED BY <2>1
<1> HIDE DEF f
<1>3. Timely(f) /\ (f.stage = "target_binding" => GameChanged)
  BY <1>2 DEF Timely, Decline, Failure, Statuses, Causes
<1>4. GameChanged => trusted.bytes # Sealed
  <2>1. trusted.seal = Sealed
    BY PreparedBytes, QuietPcs
  <2> QED BY <2>1 DEF GameChanged, RouteInv, TargetInv
<1> QED BY <1>1, <1>3, <1>4, RaiseKeeps, Zenon

LEMMA EnvCandidateKeeps == RouteInv /\ EnvCandidate => RouteInv'
<1> SUFFICES ASSUME RouteInv, EnvCandidate PROVE RouteInv'
  OBVIOUS
<1>1. pc = "ucand" /\ job.call # "lift" /\ hard = {} /\ pc \in Quiet
  BY QuietPcs DEF EnvCandidate, RouteInv, CallInv, FailureInv
<1>2. ASSUME Raised("candidate", IF Refusing THEN {} ELSE EnvRunFailures) PROVE RouteInv'
  <2> DEFINE failures == IF Refusing THEN {} ELSE EnvRunFailures
  <2>1. \A f \in EnvRunFailures : Plain(f) \/ f = Unbound
    BY PlainSeeds
  <2>2. \A f \in failures : Plain(f) \/ (pc \in {"ucand", "uprobe"} /\ f = Unbound)
    BY <1>1, <2>1, Zenon
  <2>3. Raised("candidate", failures)
    BY <1>2, Zenon
  <2> HIDE DEF failures
  <2> QED BY <1>1, <2>2, <2>3, RaisedKeeps, Zenon
<1>3. ASSUME Refuses PROVE RouteInv'
  BY <1>1, <1>3, RefusesKeeps
<1>4. ASSUME cand' = Candidate("environment", "certificate"), pc' = "ucheck", LeavePhase,
             UNCHANGED <<target, cancelled, search, exhausted, failure, result, stat, hard>>
      PROVE  RouteInv'
  <2>1. UNCHANGED <<job, calls, trusted, cancelled, hard>>
    BY <1>4 DEF target
  <2>2. /\ cand' \in Candidates /\ cand'.verdict = "unknown"
        /\ cand'.game = trusted.bytes /\ trusted.bytes # ""
    BY <1>1, <1>4, CandidateFact
  <2>3. late' \in {"none", "phase", "deadline", "both"} /\ calls \in Nat
    BY <1>4, LeaveFact DEF RouteInv, CallInv
  <2> QED BY <1>1, <1>4, <2>1, <2>2, <2>3, QuietKeeps, QuietPcs
             DEF SystemPcs, EnvPcs, CombinedPcs
<1> QED BY <1>2, <1>3, <1>4, Zenon DEF EnvCandidate

-----------------------------------------------------------------------------
\* Checks.

LEMMA OutcomeFact ==
  ASSUME NEW mode, NEW o \in CheckerOutcomes(mode)
  PROVE  /\ o.status \in {"ok", "limit", "error", "deadline", "cancelled"}
         /\ o.verdict \in {"unknown", "cert_failed", "verified"}
         /\ o.status = "deadline" => Passed(mode, late)
         /\ o.status = "cancelled" => cancelled
         /\ o.status # "ok" => o.verdict = "unknown"
         /\ Verified(o) => cand.side = job.side \/ trusted.bytes # Sealed
         /\ CheckFailureCause(o.status, o.verdict) \in Causes
<1> DEFINE stops == {"limit", "error"} \cup (IF Passed(mode, late) THEN {"deadline"} ELSE {})
                    \cup (IF cancelled THEN {"cancelled"} ELSE {})
           good == IF cand.side = job.side \/ trusted.bytes # Sealed
                   THEN {[status |-> "ok", verdict |-> "verified"]} ELSE {}
<1>1. o \in [status : stops, verdict : {"unknown"}]
            \cup [status : {"ok"}, verdict : {"cert_failed", "unknown"}] \cup good
  BY DEF CheckerOutcomes
<1>2. CASE o \in [status : stops, verdict : {"unknown"}]
  <2>1. o.status \in stops /\ o.verdict = "unknown"
    BY <1>2
  <2> QED BY <2>1 DEF CheckFailureCause, Causes, Verified
<1>3. CASE o \in [status : {"ok"}, verdict : {"cert_failed", "unknown"}]
  BY <1>3 DEF CheckFailureCause, Causes, Verified
<1>4. CASE o \in good
  <2>1. /\ cand.side = job.side \/ trusted.bytes # Sealed
        /\ o = [status |-> "ok", verdict |-> "verified"]
    BY <1>4
  <2> QED BY <2>1 DEF CheckFailureCause, Causes, Verified
<1> QED BY <1>1, <1>2, <1>3, <1>4

LEMMA CallPassed ==
  ASSUME Passed("call", late)
  PROVE  late \in {"deadline", "both"}
BY DEF Passed

\* What both checks make of an outcome.
LEMMA JudgeFact ==
  ASSUME NEW o \in CheckerOutcomes("call"), NEW f \in {BothCheck(o), EnvCheck(o)}
  PROVE  /\ f = NoFailure => Verified(o)
         /\ f # NoFailure => Timely(f) /\ f.stage # "target_binding"
<1>1. CASE Verified(o)
  BY <1>1 DEF BothCheck, EnvCheck, Verified
<1>2. CASE ~Verified(o)
  <2> DEFINE c == CheckFailureCause(o.status, o.verdict)
  <2>1. \/ f = Failure("deadline", "deadline", "target_check") /\ o.status = "deadline"
        \/ f = Failure("cancelled", "cancelled", "target_check") /\ o.status = "cancelled"
        \/ f = Limit("target_check")
        \/ f = Decline(c, "target_check")
        \/ f = Decline(c, "checker_rejected")
    BY <1>2 DEF BothCheck, EnvCheck
  <2>2. c \in Causes /\ (o.status = "deadline" => late \in {"deadline", "both"})
        /\ (o.status = "cancelled" => cancelled)
    BY OutcomeFact, CallPassed
  <2> HIDE DEF c
  <2>3. Timely(f) /\ f.stage \in {"target_check", "checker_rejected"}
    BY <2>1, <2>2 DEF Timely, Failure, Limit, Decline, Statuses, Causes
  <2>4. f # NoFailure
    <3>1. NoFailure.stage = ""
      BY DEF NoFailure, Failure
    <3> QED BY <2>3, <3>1
  <2> QED BY <2>3, <2>4
<1> QED BY <1>1, <1>2

\* The bytes of the target are not those that were hashed.
LEMMA ChangedKeeps ==
  ASSUME RouteInv, pc \in Quiet \ {"publish", "prepare"}, ~CheckedBytes,
         NEW f, f \in {Decline("error", "target_binding"), Decline("error", "target_check")}, Raise(f)
  PROVE  RouteInv'
<1>1. Timely(f)
  BY DEF Timely, Decline, Failure, Statuses, Causes
<1>2. trusted.bytes # Sealed
  <2>1. trusted.seal = Sealed
    BY PreparedBytes, QuietPcs
  <2> QED BY <2>1 DEF CheckedBytes, GameChanged, RouteInv, TargetInv
<1> QED BY <1>1, <1>2, RaiseKeeps

\* The checker's answer to a candidate of a combined or an environment call.
LEMMA AnswerKeeps ==
  ASSUME RouteInv, pc \in {"rcheck", "ucheck", "dcheck"}, CheckedBytes,
         NEW o \in CheckerOutcomes("call"), NEW f \in {BothCheck(o), EnvCheck(o)},
         IF f # NoFailure THEN Raise(f)
         ELSE /\ cand' = [cand EXCEPT !.verdict = "verified"]
              /\ pc' = "publish"
              /\ UNCHANGED <<target, time, search, exhausted, failure, result, hard>>
  PROVE  RouteInv'
<1>1. CASE f # NoFailure
  BY <1>1, JudgeFact, RaiseKeeps, QuietPcs
<1>2. CASE f = NoFailure
  <2>1. Verified(o) /\ (cand.side = job.side \/ trusted.bytes # Sealed)
    BY <1>2, JudgeFact, OutcomeFact
  <2>2. UNCHANGED <<job, calls, trusted, late, cancelled, hard>> /\ pc' = "publish"
        /\ cand' = [cand EXCEPT !.verdict = "verified"]
    BY <1>2 DEF target, time
  <2>3. cand' \in Candidates /\ cand'.verdict = "verified" /\ cand'.side = cand.side
        /\ cand'.game = cand.game
    BY <2>2 DEF RouteInv, CallInv, Candidates
  <2>4. late' \in {"none", "phase", "deadline", "both"}
    BY <2>2 DEF RouteInv, CallInv
  <2> QED BY <2>1, <2>2, <2>3, <2>4, MarkKeeps DEF CheckedBytes
<1> QED BY <1>1, <1>2

LEMMA ChecksKeep == RouteInv /\ (SystemCheck \/ EnvironmentCheck \/ DirectCheck) => RouteInv'
<1> SUFFICES ASSUME RouteInv, SystemCheck \/ EnvironmentCheck \/ DirectCheck PROVE RouteInv'
  OBVIOUS
<1>1. pc \in {"rcheck", "ucheck", "dcheck"}
  BY DEF SystemCheck, EnvironmentCheck, DirectCheck, Check
<1>2. ASSUME Raised("target_check", {}) PROVE RouteInv'
  BY <1>1, <1>2, RaisedKeeps, QuietPcs
<1>3. ASSUME ~CheckedBytes, Raise(Decline("error", "target_binding")) PROVE RouteInv'
  BY <1>1, <1>3, ChangedKeeps, QuietPcs
<1>4. ASSUME CheckedBytes, NEW o \in CheckerOutcomes("call"),
             NEW f \in {BothCheck(o), EnvCheck(o)},
             IF f # NoFailure THEN Raise(f)
             ELSE /\ cand' = [cand EXCEPT !.verdict = "verified"]
                  /\ pc' = "publish"
                  /\ UNCHANGED <<target, time, search, exhausted, failure, result, hard>>
      PROVE  RouteInv'
  BY <1>1, <1>4, AnswerKeeps
<1>5. CASE SystemCheck
  BY <1>2, <1>3, <1>4, <1>5, Zenon DEF SystemCheck, Check
<1>6. CASE EnvironmentCheck
  BY <1>2, <1>3, <1>4, <1>6, Zenon DEF EnvironmentCheck, Check
<1>7. CASE DirectCheck
  BY <1>2, <1>3, <1>4, <1>7, Zenon DEF DirectCheck, Check
<1> QED BY <1>5, <1>6, <1>7

-----------------------------------------------------------------------------
\* The handler of the seed routes, and the direct solve.

\* A failure is handed on to the caller.
LEMMA HandedOn ==
  ASSUME RouteInv, pc \in {"caught", "direct"}, pc' = "failed",
         UNCHANGED <<job, calls, trusted, late, cancelled, cand>>,
         Timely(failure'), (hard' = {}) <=> IsApplicability(failure'.cause),
         \/ route' = "direct"
         \/ failure'.status \in {"deadline", "cancelled"} \/ failure' \in Exceptions
         \/ trusted.bytes # Sealed \/ (route' = "env" /\ failure' = Unbound)
  PROVE  RouteInv'
<1> USE DEF RouteInv
<1>1. CallInv'
  BY DEF CallInv, SystemPcs, EnvPcs, CombinedPcs
<1>2. TargetInv'
  BY PreparedBytes DEF TargetInv
<1>3. FailureInv'
  BY QuietPcs DEF FailureInv, Timely
<1>4. CandidateInv'
  BY DEF CandidateInv
<1>5. FallbackInv'
  BY DEF FallbackInv
<1> QED BY <1>1, <1>2, <1>3, <1>4, <1>5, Middle

LEMMA CaughtKeeps == RouteInv /\ Caught => RouteInv'
<1> SUFFICES ASSUME RouteInv, Caught PROVE RouteInv'
  OBVIOUS
<1>1. /\ pc = "caught" /\ UNCHANGED <<job, calls, trusted, late, cancelled, route>>
      /\ hard' = IF failure' # failure /\ pc' = "failed" THEN hard \cup {"deadline"} ELSE hard
  BY DEF Caught, target, time
<1>2. /\ Timely(failure) /\ ((hard = {}) <=> IsApplicability(failure.cause))
      /\ failure.stage = "target_binding" =>
           trusted.bytes # Sealed \/ (route = "env" /\ failure = Unbound)
      /\ job.call = "both" /\ cand.verdict # "verified"
  <2>1. FailureInv /\ CandidateInv /\ CallInv
    BY DEF RouteInv
  <2> QED BY <1>1, <2>1 DEF FailureInv, Timely, CandidateInv, CallInv, CombinedPcs
<1>3. CASE Rethrown(failure)
  <2>1. pc' = "failed" /\ UNCHANGED <<failure, cand>>
    BY <1>3 DEF Caught
  <2>2. failure.status \in {"deadline", "cancelled"} \/ trusted.bytes # Sealed
        \/ (route = "env" /\ failure = Unbound)
    BY <1>2, <1>3 DEF Rethrown
  <2> QED BY <1>1, <1>2, <2>1, <2>2, HandedOn DEF Timely
<1>4. CASE ~Rethrown(failure) /\ late \in {"deadline", "both"}
  <2>1. pc' = "failed" /\ UNCHANGED cand
        /\ failure' = Failure("deadline", "deadline", failure.stage)
    BY <1>4 DEF Caught
  <2>2. failure'.status = "deadline" /\ failure'.cause = "deadline" /\ failure' # failure
    BY <1>4, <2>1 DEF Failure, Rethrown
  <2>3. hard' # {} /\ ~IsApplicability(failure'.cause)
    BY <1>1, <2>1, <2>2 DEF IsApplicability
  <2>4. Timely(failure')
    BY <1>4, <2>2 DEF Timely, Statuses, Causes
  <2> QED BY <1>1, <2>1, <2>2, <2>3, <2>4, HandedOn
<1>5. CASE ~Rethrown(failure) /\ late \notin {"deadline", "both"}
  <2>1. pc' = "direct" /\ Emit(failure) /\ cand' = NoCand
    BY <1>5 DEF Caught
  <2>2. hard' = hard /\ event'.kind = IF IsApplicability(failure.cause) THEN "DECLINE" ELSE "STOPPED"
    BY <1>1, <2>1 DEF Emit
  <2>3. /\ CallInv' /\ cand'.verdict = "unknown" /\ cand'.game = ""
    BY <1>1, <1>2, <2>1 DEF RouteInv, CallInv, NoCand, Candidates, Marks, SystemPcs, EnvPcs
  <2>4. TargetInv'
    BY <1>1, <2>1, PreparedBytes DEF RouteInv, TargetInv
  <2>5. FailureInv' /\ FallbackInv'
    BY <2>1, QuietPcs DEF FailureInv, FallbackInv
  <2>6. CandidateInv'
    BY <2>1, <2>3 DEF CandidateInv
  <2>7. SealedProof' /\ HonestStop' /\ FallbackReached'
    BY <1>2, <2>1, <2>2 DEF SealedProof, HonestStop, FallbackReached
  <2> QED BY <2>3, <2>4, <2>5, <2>6, <2>7 DEF RouteInv
<1> QED BY <1>3, <1>4, <1>5

LEMMA DirectStepKeeps == RouteInv /\ Direct => RouteInv'
<1> SUFFICES ASSUME RouteInv, Direct PROVE RouteInv'
  OBVIOUS
<1> DEFINE polled == Polled("call", late, cancelled, "direct_solve")
<1>1. pc = "direct" /\ job.call = "both" /\ late \in {"none", "phase", "deadline", "both"}
  BY DEF Direct, RouteInv, CallInv, CombinedPcs
<1>2. ASSUME NEW f \in (IF polled # {} THEN polled ELSE DirectFailures \cup Memory),
             failure' = f, hard' = Hard(f), pc' = "failed", route' = "direct",
             UNCHANGED <<target, time, search, cand, exhausted, status, fstatus, event, proof,
                         checkedFor, stat>>
      PROVE  RouteInv'
  <2>1. UNCHANGED <<job, calls, trusted, late, cancelled, cand>>
    BY <1>2 DEF target, time
  <2>2. ASSUME f \in polled PROVE Timely(f)
    BY <1>1, <2>2, PollFact
  <2>3. ASSUME f \in DirectFailures \cup Memory PROVE Timely(f)
    BY <2>3, PlainSeeds, PlainMemory, PlainIsTimely
  <2> HIDE DEF polled
  <2>4. Timely(failure')
    BY <1>2, <2>2, <2>3, Zenon
  <2>5. (hard' = {}) <=> IsApplicability(failure'.cause)
    BY <1>2, HardFact
  <2> QED BY <1>1, <1>2, <2>1, <2>4, <2>5, HandedOn
<1>3. ASSUME NEW side \in {"system", "environment"}, cand' = Candidate(side, "certificate"),
             route' = "direct", hard' = {}, pc' = "dcheck",
             UNCHANGED <<target, time, search, exhausted, failure, status, fstatus, event, proof,
                         checkedFor, stat>>
      PROVE  RouteInv'
  <2>1. UNCHANGED <<job, calls, trusted, late, cancelled>>
    BY <1>3 DEF target, time
  <2>2. /\ cand' \in Candidates /\ cand'.verdict = "unknown"
        /\ cand'.game = trusted.bytes /\ trusted.bytes # ""
    BY <1>1, <1>3, CandidateFact
  <2> QED BY <1>1, <1>3, <2>1, <2>2, QuietKeeps, QuietPcs DEF RouteInv, CallInv, SystemPcs, EnvPcs
<1> HIDE DEF polled
<1> QED BY <1>2, <1>3, Zenon DEF Direct, polled

-----------------------------------------------------------------------------
\* The system lift and the environment lift on their own.

\* A step of a search or of the seeds that goes on.
LEMMA SeedStepKeeps ==
  ASSUME RouteInv, pc \in {"probe", "own", "uprobe", "usolve"},
         pc \in {"probe", "own"} => pc' \in {"own", "learn"},
         pc \in {"uprobe", "usolve"} => pc' \in {"usolve", "ucand"}, hard' = {},
         UNCHANGED <<job, calls, trusted, late, cancelled, cand>>
  PROVE  RouteInv'
<1>1. /\ calls \in Nat /\ late \in {"none", "phase", "deadline", "both"} /\ cand \in Candidates
      /\ pc \in {"probe", "own"} => job.call = "lift"
      /\ pc \in {"uprobe", "usolve"} => job.call = "env"
      /\ cand.verdict # "verified" /\ (cand.game = "x" => trusted.bytes = "x")
  BY DEF RouteInv, CallInv, CandidateInv, SystemPcs, EnvPcs
<1>2. pc' \in {"own", "learn", "usolve", "ucand"}
  OBVIOUS
<1>3. /\ pc' \in SystemPcs => job.call = "lift"
      /\ pc' \in EnvPcs => job.call = "env"
      /\ pc' \notin CombinedPcs
      /\ pc' = "ucand" => job.call # "lift"
  BY <1>1 DEF SystemPcs, EnvPcs, CombinedPcs
<1> QED BY <1>1, <1>2, <1>3, QuietKeeps, QuietPcs

LEMMA ProbeKeeps == RouteInv /\ Probe1 => RouteInv'
<1> SUFFICES ASSUME RouteInv, Probe1 PROVE RouteInv'
  OBVIOUS
<1> DEFINE found == Searches[job]
<1>1. pc = "probe"
  BY DEF Probe1
<1>2. ASSUME Raised("seed_window", {}) PROVE RouteInv'
  BY <1>1, <1>2, RaisedKeeps, QuietPcs
<1>3. ASSUME found.failure # NoFailure, Raise(found.failure) PROVE RouteInv'
  BY <1>1, <1>3, FoundKeeps, QuietPcs
<1>4. ASSUME hard' = {}, pc' = "own",
             UNCHANGED <<target, time, sides, cand, exhausted, failure, result, stat>>
      PROVE  RouteInv'
  BY <1>1, <1>4, SeedStepKeeps DEF target, time
<1> HIDE DEF found
<1> QED BY <1>2, <1>3, <1>4, Zenon DEF Probe1, found

LEMMA SolveOwnKeeps == RouteInv /\ SolveOwn => RouteInv'
<1> SUFFICES ASSUME RouteInv, SolveOwn PROVE RouteInv'
  OBVIOUS
<1> DEFINE failures == IF Valid THEN OwnSeedFailures ELSE {Decline("error", "seed_window")}
<1>1. pc = "own" /\ hard = {}
  BY QuietPcs DEF SolveOwn, RouteInv, FailureInv
<1>2. ASSUME Raised("seed_solve", failures) PROVE RouteInv'
  <2>1. Plain(Decline("error", "seed_window"))
    BY PlainDecline DEF Causes
  <2>2. \A f \in OwnSeedFailures : Plain(f)
    BY PlainSeeds
  <2>3. \A f \in failures : Plain(f)
    BY <2>1, <2>2, Zenon
  <2> HIDE DEF failures
  <2> QED BY <1>1, <1>2, <2>3, RaisedKeeps, QuietPcs
<1>3. ASSUME pc' \in {"own", "learn"},
             UNCHANGED <<target, time, window, cand, exhausted, failure, result, stat, hard>>
      PROVE  RouteInv'
  BY <1>1, <1>3, SeedStepKeeps DEF target, time
<1>4. \/ Raised("seed_solve", failures)
      \/ /\ pc' \in {"own", "learn"}
         /\ UNCHANGED <<target, time, window, cand, exhausted, failure, result, stat, hard>>
  <2>1. \A c : (IF c THEN "own" ELSE "learn") \in {"own", "learn"}
    OBVIOUS
  <2> QED BY <2>1, Zenon DEF SolveOwn
<1> HIDE DEF failures
<1> QED BY <1>2, <1>3, <1>4, Zenon

LEMMA LearnKeeps == RouteInv /\ Learn => RouteInv'
<1> SUFFICES ASSUME RouteInv, Learn PROVE RouteInv'
  OBVIOUS
<1>1. /\ pc = "learn" /\ hard = {} /\ job.call = "lift" /\ calls \in Nat
      /\ late \in {"none", "phase", "deadline", "both"}
  BY QuietPcs DEF Learn, RouteInv, CallInv, FailureInv, SystemPcs
<1>2. ASSUME Raised("candidate", LearnFailures("candidate")) PROVE RouteInv'
  BY <1>1, <1>2, PlainLearn, RaisedKeeps, QuietPcs
<1>3. ASSUME cand' = Candidate("system", "none"), pc' = job.order,
             UNCHANGED <<target, time, search, exhausted, failure, result, stat, hard>>
      PROVE  RouteInv'
  <2>1. UNCHANGED <<job, calls, trusted, late, cancelled, hard>>
    BY <1>3 DEF target, time
  <2>2. /\ cand' \in Candidates /\ cand'.verdict = "unknown"
        /\ cand'.game = trusted.bytes /\ trusted.bytes # ""
    BY <1>1, <1>3, CandidateFact
  <2>3. pc' \in {"region", "policy"}
    BY <1>3, JobsAssumption DEF RouteInv, CallInv
  <2> QED BY <1>1, <2>1, <2>2, <2>3, QuietKeeps, QuietPcs DEF EnvPcs, CombinedPcs
<1> QED BY <1>2, <1>3, Zenon DEF Learn

\* A proof method runs out: the other one takes over, or the lift ends.
LEMMA RunsOutKeeps ==
  ASSUME RouteInv, pc \in {"region", "policy"}, NEW st \in {"limit", "deadline"},
         st = "deadline" => late \in {"deadline", "both"}, RunsOut(st)
  PROVE  RouteInv'
<1>1. /\ late \in {"none", "phase", "deadline", "both"} /\ hard = {} /\ job.call = "lift"
      /\ calls \in Nat /\ cand \in Candidates /\ cand.verdict # "verified" /\ cand.game # ""
      /\ cand.game = "x" => trusted.bytes = "x"
  BY QuietPcs DEF RouteInv, CallInv, FailureInv, CandidateInv, SystemPcs
<1>2. CASE ~exhausted
  <2>1. /\ pc' \in {"region", "policy"} /\ LeavePhase
        /\ UNCHANGED <<job, calls, trusted, cancelled, cand, hard>>
    BY <1>2 DEF RunsOut, Other, target
  <2>2. late' \in {"none", "phase", "deadline", "both"}
    BY <1>1, <2>1, LeaveFact
  <2> QED BY <1>1, <2>1, <2>2, QuietKeeps, QuietPcs DEF EnvPcs, CombinedPcs
<1>3. CASE exhausted
  <2> DEFINE p == IF pc = "policy" THEN Polled("call", late, cancelled, "target_check") ELSE {}
             g == Failure(st, FailureCause(st), "target_check")
  <2>1. PICK f \in (IF p # {} THEN p ELSE {g}) : Raise(f)
    BY <1>3, Zenon DEF RunsOut
  <2>2. ASSUME f \in p PROVE Timely(f) /\ f.stage # "target_binding"
    <3>1. f \in Polled("call", late, cancelled, "target_check")
      BY <2>2
    <3> QED BY <1>1, <3>1, PollFact
  <2>3. Timely(g) /\ g.stage # "target_binding"
    BY DEF Timely, Failure, FailureCause, Statuses, Causes
  <2> HIDE DEF p, g
  <2>4. Timely(f) /\ f.stage # "target_binding"
    BY <2>1, <2>2, <2>3, Zenon
  <2> QED BY <2>1, <2>4, RaiseKeeps, QuietPcs
<1> QED BY <1>2, <1>3

\* The candidate of a system lift is marked with the method that proved it.
LEMMA ProvedKeeps ==
  ASSUME RouteInv, pc \in {"region", "policy"}, CheckedBytes, NEW mode,
         NEW o \in CheckerOutcomes(mode), Verified(o),
         NEW method \in {"region", "certificate"},
         cand' = [cand EXCEPT !.method = method, !.verdict = "verified"], pc' = "publish",
         late' = late \/ LeavePhase, UNCHANGED <<job, calls, trusted, cancelled, hard>>
  PROVE  RouteInv'
<1>1. cand.side = job.side \/ trusted.bytes # Sealed
  BY OutcomeFact
<1>2. cand' \in Candidates /\ cand'.verdict = "verified" /\ cand'.side = cand.side
      /\ cand'.game = cand.game
  BY DEF RouteInv, CallInv, Candidates
<1>3. late' \in {"none", "phase", "deadline", "both"}
  BY LeaveFact DEF RouteInv, CallInv
<1> QED BY <1>1, <1>2, <1>3, MarkKeeps DEF CheckedBytes

\* A checker that rejects, or fails, ends the lift.
LEMMA RejectedKeeps ==
  ASSUME RouteInv, pc \in {"region", "policy"}, NEW mode, NEW o \in CheckerOutcomes(mode),
         Raise(Decline(CheckFailureCause(o.status, o.verdict), "target_check"))
  PROVE  RouteInv'
<1> DEFINE f == Decline(CheckFailureCause(o.status, o.verdict), "target_check")
<1>1. CheckFailureCause(o.status, o.verdict) \in Causes
  BY OutcomeFact
<1>2. Plain(f)
  BY <1>1, PlainDecline
<1> HIDE DEF f
<1>3. Timely(f) /\ f.stage # "target_binding" /\ Raise(f)
  BY <1>2, PlainIsTimely, Zenon DEF Plain, f
<1> QED BY <1>3, RaiseKeeps, QuietPcs

LEMMA StoppedKeeps ==
  ASSUME RouteInv, pc \in {"region", "policy"}, cancelled,
         NEW stage \in {"region_check", "target_check"},
         Raise(Failure("cancelled", "cancelled", stage))
  PROVE  RouteInv'
<1>1. Timely(Failure("cancelled", "cancelled", stage))
      /\ Failure("cancelled", "cancelled", stage).stage # "target_binding"
  BY DEF Timely, Failure, Statuses, Causes
<1> QED BY <1>1, RaiseKeeps, QuietPcs

LEMMA RegionKeeps == RouteInv /\ Region => RouteInv'
<1> SUFFICES ASSUME RouteInv, Region PROVE RouteInv'
  OBVIOUS
<1>1. pc = "region"
  BY DEF Region
<1>2. ASSUME Raised("region_check", {}) PROVE RouteInv'
  BY <1>1, <1>2, RaisedKeeps, QuietPcs
<1>3. ASSUME ~CheckedBytes, Raise(Decline("error", "target_check")) PROVE RouteInv'
  BY <1>1, <1>3, ChangedKeeps, QuietPcs
<1>4. ASSUME CheckedBytes, NEW o \in CheckerOutcomes("call"),
             CASE Verified(o) ->
                    /\ cand' = [cand EXCEPT !.method = "region", !.verdict = "verified"]
                    /\ pc' = "publish"
                    /\ UNCHANGED <<target, time, search, exhausted, failure, result, hard>>
               [] o.status = "cancelled" -> Raise(Failure("cancelled", "cancelled", "region_check"))
               [] o.status \in {"limit", "deadline"} -> RunsOut(o.status)
               [] OTHER -> Raise(Decline(CheckFailureCause(o.status, o.verdict), "target_check"))
      PROVE  RouteInv'
  <2>1. CASE Verified(o)
    <3>1. /\ cand' = [cand EXCEPT !.method = "region", !.verdict = "verified"] /\ pc' = "publish"
          /\ UNCHANGED <<target, time, search, exhausted, failure, result, hard>>
      <4>1. o.status = "ok"
        BY <2>1 DEF Verified
      <4> QED BY <1>4, <2>1, <4>1
    <3>2. UNCHANGED <<job, calls, trusted, late, cancelled, hard>>
      BY <3>1 DEF target, time
    <3> QED BY <1>1, <1>4, <2>1, <3>1, <3>2, ProvedKeeps
  <2>2. CASE o.status = "cancelled"
    <3>1. ~Verified(o) /\ o.status \notin {"limit", "deadline"}
      BY <2>2 DEF Verified
    <3>2. Raise(Failure("cancelled", "cancelled", "region_check"))
      BY <1>4, <2>2, <3>1, Zenon
    <3>3. cancelled
      BY <2>2, OutcomeFact
    <3> QED BY <1>1, <3>2, <3>3, StoppedKeeps
  <2>3. CASE o.status \in {"limit", "deadline"}
    <3>1. ~Verified(o) /\ o.status # "cancelled"
      BY <2>3 DEF Verified
    <3>2. RunsOut(o.status)
      BY <1>4, <2>3, <3>1, Zenon
    <3>3. o.status = "deadline" => late \in {"deadline", "both"}
      BY OutcomeFact, CallPassed
    <3> QED BY <1>1, <2>3, <3>2, <3>3, RunsOutKeeps
  <2>4. CASE ~Verified(o) /\ o.status # "cancelled" /\ o.status \notin {"limit", "deadline"}
    <3>1. Raise(Decline(CheckFailureCause(o.status, o.verdict), "target_check"))
      BY <1>4, <2>4, Zenon
    <3> QED BY <1>1, <3>1, RejectedKeeps
  <2> QED BY <2>1, <2>2, <2>3, <2>4
<1> QED BY <1>2, <1>3, <1>4, Zenon DEF Region

LEMMA PolicyKeeps == RouteInv /\ Policy => RouteInv'
<1> SUFFICES ASSUME RouteInv, Policy PROVE RouteInv'
  OBVIOUS
<1>1. pc = "policy" /\ late \in {"none", "phase", "deadline", "both"}
  BY DEF Policy, RouteInv, CallInv
<1>2. ASSUME NEW f \in Polled("call", late, cancelled, "policy") \cup Memory, Raise(f)
      PROVE  RouteInv'
  <2>1. Timely(f) /\ f.stage # "target_binding"
    <3>1. CASE f \in Polled("call", late, cancelled, "policy")
      BY <1>1, <3>1, PollFact
    <3>2. CASE f \in Memory
      BY <3>2, PlainMemory, PlainIsTimely DEF Plain
    <3> QED BY <1>2, <3>1, <3>2
  <2> QED BY <1>1, <1>2, <2>1, RaiseKeeps, QuietPcs
<1>3. ASSUME NEW f \in Polled("policy", late, FALSE, "policy") \cup {Limit("policy")},
             RunsOut(f.status)
      PROVE  RouteInv'
  <2>1. CASE f = Limit("policy")
    <3>1. f.status = "limit"
      BY <2>1 DEF Limit, Failure
    <3> QED BY <1>1, <1>3, <3>1, RunsOutKeeps
  <2>2. CASE f \in Polled("policy", late, FALSE, "policy")
    <3>1. f = DeadlineFailure("policy", late, "policy") /\ Passed("policy", late)
      BY <2>2 DEF Polled
    <3>2. f.status \in {"limit", "deadline"} /\ (f.status = "deadline" => late \in {"deadline", "both"})
      BY <1>1, <3>1 DEF DeadlineFailure, Passed, Limit, Failure
    <3> QED BY <1>1, <1>3, <3>2, RunsOutKeeps
  <2> QED BY <2>1, <2>2
<1>4. ASSUME NEW f \in {Decline("applicability", "policy"), Decline("error", "policy")}, Raise(f)
      PROVE  RouteInv'
  <2>1. Plain(f)
    BY PlainDecline DEF Causes
  <2>2. Timely(f) /\ f.stage # "target_binding"
    BY <2>1, PlainIsTimely DEF Plain
  <2> QED BY <1>1, <1>4, <2>2, RaiseKeeps, QuietPcs
<1>5. ASSUME ~CheckedBytes, Raise(Decline("error", "target_check")) PROVE RouteInv'
  BY <1>1, <1>5, ChangedKeeps, QuietPcs
<1>6. ASSUME CheckedBytes, NEW o \in CheckerOutcomes("policy"),
             CASE Verified(o) ->
                    /\ cand' = [cand EXCEPT !.method = "certificate", !.verdict = "verified"]
                    /\ pc' = "publish" /\ LeavePhase
                    /\ UNCHANGED <<target, cancelled, search, exhausted, failure, result, hard>>
               [] o.status = "cancelled" -> Raise(Failure("cancelled", "cancelled", "target_check"))
               [] o.status \in {"limit", "deadline"} ->
                    RunsOut(IF o.status = "deadline" /\ late \in {"deadline", "both"}
                            THEN "deadline" ELSE "limit")
               [] OTHER -> Raise(Decline(CheckFailureCause(o.status, o.verdict), "target_check"))
      PROVE  RouteInv'
  <2>1. CASE Verified(o)
    <3>1. /\ cand' = [cand EXCEPT !.method = "certificate", !.verdict = "verified"]
          /\ pc' = "publish" /\ LeavePhase
          /\ UNCHANGED <<target, cancelled, search, exhausted, failure, result, hard>>
      <4>1. o.status = "ok"
        BY <2>1 DEF Verified
      <4> QED BY <1>6, <2>1, <4>1
    <3>2. UNCHANGED <<job, calls, trusted, cancelled, hard>>
      BY <3>1 DEF target
    <3> QED BY <1>1, <1>6, <2>1, <3>1, <3>2, ProvedKeeps
  <2>2. CASE o.status = "cancelled"
    <3>1. ~Verified(o) /\ o.status \notin {"limit", "deadline"}
      BY <2>2 DEF Verified
    <3>2. Raise(Failure("cancelled", "cancelled", "target_check"))
      BY <1>6, <2>2, <3>1, Zenon
    <3>3. cancelled
      BY <2>2, OutcomeFact
    <3> QED BY <1>1, <3>2, <3>3, StoppedKeeps
  <2>3. CASE o.status \in {"limit", "deadline"}
    <3> DEFINE st == IF o.status = "deadline" /\ late \in {"deadline", "both"}
                     THEN "deadline" ELSE "limit"
    <3>1. ~Verified(o) /\ o.status # "cancelled"
      BY <2>3 DEF Verified
    <3>2. RunsOut(st)
      BY <1>6, <2>3, <3>1, Zenon
    <3>3. st \in {"limit", "deadline"} /\ (st = "deadline" => late \in {"deadline", "both"})
      OBVIOUS
    <3> HIDE DEF st
    <3> QED BY <1>1, <3>2, <3>3, RunsOutKeeps
  <2>4. CASE ~Verified(o) /\ o.status # "cancelled" /\ o.status \notin {"limit", "deadline"}
    <3>1. Raise(Decline(CheckFailureCause(o.status, o.verdict), "target_check"))
      BY <1>6, <2>4, Zenon
    <3> QED BY <1>1, <3>1, RejectedKeeps
  <2> QED BY <2>1, <2>2, <2>3, <2>4
<1> QED BY <1>2, <1>3, <1>4, <1>5, <1>6, Zenon DEF Policy

LEMMA EnvProbeKeeps == RouteInv /\ EnvProbe => RouteInv'
<1> SUFFICES ASSUME RouteInv, EnvProbe PROVE RouteInv'
  OBVIOUS
<1> DEFINE found == Searches[job]
<1>1. pc = "uprobe"
  BY DEF EnvProbe
<1> DEFINE failures == IF EnvRefused # <<>> THEN {}
                       ELSE {Unbound} \cup (IF found.failure = NoFailure THEN Unaligned ELSE {})
<1>2. ASSUME Raised("candidate", failures) PROVE RouteInv'
  <2>1. \A f \in Unaligned : Plain(f)
    BY PlainSeeds
  <2>2. \A f \in failures : Plain(f) \/ (pc \in {"ucand", "uprobe"} /\ f = Unbound)
    BY <1>1, <2>1
  <2> HIDE DEF failures
  <2> QED BY <1>1, <1>2, <2>2, RaisedKeeps, QuietPcs
<1>3. ASSUME Refuses PROVE RouteInv'
  BY <1>1, <1>3, RefusesKeeps, QuietPcs
<1>4. ASSUME found.failure # NoFailure, Raise(found.failure) PROVE RouteInv'
  BY <1>1, <1>4, FoundKeeps, QuietPcs
<1>5. ASSUME hard' = {}, pc' = "usolve",
             UNCHANGED <<target, time, sides, cand, exhausted, failure, result, stat>>
      PROVE  RouteInv'
  BY <1>1, <1>5, SeedStepKeeps DEF target, time
<1> HIDE DEF found, failures
<1> QED BY <1>2, <1>3, <1>4, <1>5, Zenon DEF EnvProbe, found, failures

LEMMA EnvSolveKeeps == RouteInv /\ EnvSolve => RouteInv'
<1> SUFFICES ASSUME RouteInv, EnvSolve PROVE RouteInv'
  OBVIOUS
<1>1. pc = "usolve" /\ hard = {}
  BY QuietPcs DEF EnvSolve, RouteInv, FailureInv
<1>2. ASSUME Raised("seed_solve", EnvSeedFailures) PROVE RouteInv'
  BY <1>1, <1>2, RaisedKeeps, PlainSeeds, QuietPcs
<1>3. ASSUME pc' \in {"usolve", "ucand"},
             UNCHANGED <<target, time, window, cand, exhausted, failure, result, stat, hard>>
      PROVE  RouteInv'
  BY <1>1, <1>3, SeedStepKeeps DEF target, time
<1>4. \/ Raised("seed_solve", EnvSeedFailures)
      \/ /\ pc' \in {"usolve", "ucand"}
         /\ UNCHANGED <<target, time, window, cand, exhausted, failure, result, stat, hard>>
  <2>1. \A c : (IF c THEN "usolve" ELSE "ucand") \in {"usolve", "ucand"}
    OBVIOUS
  <2> QED BY <2>1, Zenon DEF EnvSolve
<1> QED BY <1>2, <1>3, <1>4, Zenon

-----------------------------------------------------------------------------
\* The end of a call.

LEMMA PublishKeeps == RouteInv /\ Publish => RouteInv'
<1> SUFFICES ASSUME RouteInv, Publish PROVE RouteInv'
  OBVIOUS
<1>1. pc = "publish" /\ job.call \in {"lift", "env", "both"}
  BY JobsAssumption DEF Publish, RouteInv, CallInv
<1>2. ASSUME job.call = "lift", Raised("publish", {Limit("publish")}) PROVE RouteInv'
  <2>1. \A f \in {Limit("publish")} : Plain(f)
    BY PlainLimit
  <2> QED BY <1>1, <1>2, <2>1, RaisedKeeps, QuietPcs
<1>3. ASSUME job.call = "both", Raise(Limit("publish")) PROVE RouteInv'
  <2>1. Timely(Limit("publish")) /\ Limit("publish").stage # "target_binding"
    BY PlainLimit, PlainIsTimely DEF Plain
  <2> QED BY <1>1, <1>3, <2>1, RaiseKeeps, QuietPcs
<1>4. ASSUME proof' = cand, checkedFor' = (IF job.call = "env" THEN checkedFor ELSE cand),
             status' = "ok", fstatus' = "ok", pc' = "ended",
             UNCHANGED <<target, time, search, cand, exhausted, failure, event, route, stat, hard>>
      PROVE  RouteInv'
  <2>1. UNCHANGED <<job, calls, trusted, late, cancelled, cand>>
    BY <1>4 DEF target, time
  <2>2. CallInv' /\ FailureInv' /\ FallbackInv' /\ TargetInv'
    <3>1. CallInv'
      BY <1>4, <2>1 DEF RouteInv, CallInv, SystemPcs, EnvPcs, CombinedPcs
    <3>2. TargetInv'
      BY <1>1, <1>4, <2>1, PreparedBytes DEF RouteInv, TargetInv
    <3> QED BY <1>4, <3>1, <3>2, QuietPcs DEF FailureInv, FallbackInv
  <2>3. CandidateInv'
    BY <1>4, <2>1 DEF RouteInv, CandidateInv
  <2>4. /\ trusted.hash = trusted.bytes /\ trusted.bytes = trusted.inst
        /\ cand.verdict = "verified" /\ (cand.side = job.side \/ trusted.bytes # Sealed)
        /\ cand.game # "" /\ (cand.game = "x" => trusted.bytes = "x")
        /\ cand.game \in Marks /\ trusted.seal = Sealed
    BY <1>1, PreparedBytes DEF RouteInv, CallInv, CandidateInv, GameChanged, Candidates
  <2>5. SealedProof'
    <3>1. ASSUME Matches' PROVE proof'.game = Sealed /\ proof'.side = job.side
      BY <1>4, <2>1, <2>4, <3>1 DEF Matches
    <3>2. ASSUME trusted.hash = trusted.seal PROVE proof'.game = Sealed /\ proof'.side = job.side
      BY <1>4, <2>1, <2>4, <3>2 DEF Marks, Sealed
    <3> QED BY <1>4, <2>1, <2>4, <3>1, <3>2 DEF SealedProof, Swapped
  <2>6. HonestStop' /\ FallbackReached'
    BY <1>4 DEF HonestStop, FallbackReached
  <2> QED BY <2>2, <2>3, <2>5, <2>6 DEF RouteInv
<1> QED BY <1>2, <1>3, <1>4, Zenon DEF Publish

LEMMA FailedKeeps == RouteInv /\ Failed => RouteInv'
<1> SUFFICES ASSUME RouteInv, Failed PROVE RouteInv'
  OBVIOUS
<1>1. /\ pc = "failed" /\ pc' = "ended"
      /\ status' = failure.status /\ fstatus' = DiagnosticStatus(failure.cause)
      /\ proof' = (IF job.call = "env" THEN cand ELSE NoCand)
      /\ UNCHANGED <<job, calls, trusted, late, cancelled, cand, failure, route, hard>>
  BY DEF Failed, target, time
<1>2. /\ failure.status \in Statuses \ {"ok"} /\ failure.cause \in Causes
      /\ failure.status = "deadline" => late \in {"deadline", "both"}
      /\ failure.status = "cancelled" => cancelled
      /\ (hard = {}) <=> IsApplicability(failure.cause)
  BY <1>1 DEF RouteInv, FailureInv
<1>3. CallInv' /\ FailureInv' /\ FallbackInv' /\ TargetInv'
  <2>1. CallInv'
    BY <1>1 DEF RouteInv, CallInv, SystemPcs, EnvPcs, CombinedPcs
  <2>2. TargetInv'
    BY <1>1 DEF RouteInv, TargetInv
  <2> QED BY <1>1, <2>1, <2>2, QuietPcs DEF FailureInv, FallbackInv
<1>4. CandidateInv'
  BY <1>1 DEF RouteInv, CandidateInv
<1>5. SealedProof'
  <2>1. status' # "ok" /\ (job.call = "env" => proof'.verdict # "verified")
    BY <1>1, <1>2 DEF RouteInv, CandidateInv
  <2> QED BY <1>1, <2>1 DEF SealedProof
<1>6. HonestStop'
  <2>1. (fstatus' \in {"declined", "unsupported"}) <=> (hard' = {})
    BY <1>1, <1>2 DEF DiagnosticStatus, IsApplicability, Causes
  <2> QED BY <1>1, <1>2, <2>1 DEF HonestStop
<1>7. FallbackReached'
  BY <1>1 DEF RouteInv, FallbackInv, FallbackReached
<1> QED BY <1>3, <1>4, <1>5, <1>6, <1>7 DEF RouteInv

LEMMA AgainKeeps == RouteInv /\ Again => RouteInv'
<1> SUFFICES ASSUME RouteInv, Again PROVE RouteInv'
  OBVIOUS
<1>1. /\ pc = "ended" /\ pc' = "start" /\ trusted.seal = Sealed
      /\ UNCHANGED <<job, calls, trusted, late, cancelled, cand>>
  BY DEF Again, time
<1>2. CallInv'
  BY <1>1 DEF RouteInv, CallInv, SystemPcs, EnvPcs, CombinedPcs
<1>3. TargetInv' /\ CandidateInv'
  BY <1>1 DEF RouteInv, TargetInv, CandidateInv
<1>4. FailureInv' /\ FallbackInv'
  BY <1>1, QuietPcs DEF FailureInv, FallbackInv
<1> QED BY <1>1, <1>2, <1>3, <1>4, Middle DEF RouteInv

\* Time passes or the caller cancels.
LEMMA TimeKeeps ==
  ASSUME RouteInv, pc # "ended",
         UNCHANGED <<job, pc, calls, trusted, window, sides, cand, exhausted, failure, result, stat,
                     hard>>,
         late' \in {"none", "phase", "deadline", "both"}, cancelled' \in BOOLEAN,
         late \in {"deadline", "both"} => late' \in {"deadline", "both"},
         cancelled => cancelled'
  PROVE  RouteInv'
<1>1. UNCHANGED <<job, pc, calls, trusted, cand, failure, event, route, hard>>
  BY DEF result
<1>2. CallInv' /\ TargetInv' /\ FailureInv'
  BY <1>1 DEF RouteInv, CallInv, TargetInv, FailureInv
<1>3. CandidateInv' /\ FallbackInv'
  BY <1>1 DEF RouteInv, CandidateInv, FallbackInv, GameChanged
<1>4. SealedProof' /\ HonestStop' /\ FallbackReached'
  BY <1>1 DEF RouteInv, SealedProof, HonestStop, FallbackReached
<1> QED BY <1>2, <1>3, <1>4 DEF RouteInv

LEMMA ClockKeeps == RouteInv /\ (PhaseExpires \/ DeadlinePasses \/ Cancel) => RouteInv'
<1> SUFFICES ASSUME RouteInv, PhaseExpires \/ DeadlinePasses \/ Cancel PROVE RouteInv'
  OBVIOUS
<1>1. late \in {"none", "phase", "deadline", "both"} /\ cancelled \in BOOLEAN
  BY DEF RouteInv, CallInv
<1>2. CASE PhaseExpires
  BY <1>1, <1>2, TimeKeeps DEF PhaseExpires, Phases
<1>3. CASE DeadlinePasses
  BY <1>1, <1>3, TimeKeeps DEF DeadlinePasses, Running
<1>4. CASE Cancel
  BY <1>1, <1>4, TimeKeeps DEF Cancel, Running
<1> QED BY <1>2, <1>3, <1>4

LEMMA TamperKeeps == RouteInv /\ Tamper => RouteInv'
<1> SUFFICES ASSUME RouteInv, Tamper PROVE RouteInv'
  OBVIOUS
<1>1. /\ pc \in {"start", "region", "policy", "rcheck", "ucand", "ucheck", "dcheck"}
      /\ UNCHANGED <<job, pc, calls, late, cancelled, cand, failure, event, route, hard>>
  BY DEF Tamper, time, result
<1>2. /\ trusted' \in Targets /\ trusted'.seal = trusted.seal /\ trusted'.bytes = "x"
      /\ \/ trusted'.inst = trusted.inst /\ trusted'.hash = trusted.hash
         \/ trusted'.inst = "x" /\ trusted'.hash = "x"
  BY DEF Tamper, RouteInv, CallInv, Targets, Marks
<1>3. trusted.bytes = Sealed /\ trusted.seal = Sealed
  BY <1>1, PreparedBytes DEF Tamper
<1>4. CallInv' /\ TargetInv'
  <2>1. CallInv'
    BY <1>1, <1>2 DEF RouteInv, CallInv
  <2> QED BY <1>1, <1>2, <1>3, <2>1 DEF RouteInv, TargetInv, Sealed
<1>5. FailureInv' /\ FallbackInv'
  BY <1>1 DEF RouteInv, FailureInv, FallbackInv
<1>6. CandidateInv'
  BY <1>1, <1>2 DEF RouteInv, CandidateInv
<1>7. pc' \notin {"ended", "direct"}
  BY <1>1
<1> QED BY <1>4, <1>5, <1>6, <1>7, Middle DEF RouteInv

\* An exception of the host ends the call where it strikes.
LEMMA ThrowKeeps == RouteInv /\ Throw => RouteInv'
<1> SUFFICES ASSUME RouteInv, Throw PROVE RouteInv'
  OBVIOUS
<1> USE DEF RouteInv
<1>1. /\ pc \notin {"start", "failed", "ended"} /\ pc' = "failed"
      /\ pc = "publish" => job.call # "env"
      /\ failure' \in Exceptions /\ hard' = hard \cup Hard(failure')
      /\ UNCHANGED <<job, calls, trusted, cancelled, cand>>
      /\ late' \in {"none", "phase", "deadline", "both"}
  BY LeaveFact DEF Throw, target, CallInv
<1>2. CallInv'
  BY <1>1 DEF CallInv, SystemPcs, EnvPcs, CombinedPcs
<1>3. TargetInv'
  BY <1>1 DEF TargetInv
<1>4. FailureInv'
  <2>1. /\ failure'.status \in Statuses \ {"ok", "deadline", "cancelled"}
        /\ failure'.cause \in Causes /\ ~IsApplicability(failure'.cause)
    BY <1>1 DEF Exceptions, Limit, Failure, IsApplicability, Statuses, Causes
  <2>2. hard' # {}
    BY <1>1, <2>1, HardFact
  <2> QED BY <1>1, <2>1, <2>2, QuietPcs DEF FailureInv
<1>5. CandidateInv'
  BY <1>1 DEF CandidateInv
<1>6. FallbackInv'
  BY <1>1 DEF FallbackInv
<1>7. pc' \notin {"ended", "direct"}
  BY <1>1
<1> QED BY <1>2, <1>3, <1>4, <1>5, <1>6, <1>7, Middle

-----------------------------------------------------------------------------
LEMMA RouteInit == Init => RouteInv
<1> SUFFICES ASSUME Init PROVE RouteInv
  OBVIOUS
<1> USE DEF Init
<1>1. CallInv
  BY DEF CallInv, Targets, Candidates, Marks, NoCand, Quiet, SystemPcs, EnvPcs, CombinedPcs
<1>2. TargetInv /\ FailureInv /\ FallbackInv
  BY DEF TargetInv, FailureInv, FallbackInv, Sealed
<1>3. CandidateInv
  BY DEF CandidateInv, NoCand
<1>4. SealedProof /\ HonestStop /\ FallbackReached
  BY DEF SealedProof, HonestStop, FallbackReached
<1> QED BY <1>1, <1>2, <1>3, <1>4 DEF RouteInv

LEMMA RouteStep == RouteInv /\ [Next]_vars => RouteInv'
<1> SUFFICES ASSUME RouteInv, [Next]_vars PROVE RouteInv'
  OBVIOUS
<1>1. CASE Next
  BY <1>1, PrepareKeeps, BeginKeeps, SeedsKeeps, SolveSeedKeeps, PickKeeps, SystemCandidateKeeps,
     EnvCandidateKeeps, ChecksKeep, CaughtKeeps, DirectStepKeeps, ProbeKeeps, SolveOwnKeeps,
     LearnKeeps, RegionKeeps, PolicyKeeps, EnvProbeKeeps, EnvSolveKeeps, PublishKeeps,
     FailedKeeps, AgainKeeps, ThrowKeeps, ClockKeeps, TamperKeeps, Zenon DEF Next
<1>2. CASE UNCHANGED vars
  <2> USE <1>2 DEF vars
  <2>1. CallInv' /\ TargetInv' /\ FailureInv'
    BY DEF RouteInv, CallInv, TargetInv, FailureInv
  <2>2. CandidateInv' /\ FallbackInv'
    BY DEF RouteInv, CandidateInv, FallbackInv, GameChanged
  <2>3. SealedProof'
    BY DEF RouteInv, SealedProof, Matches, Swapped
  <2>4. HonestStop' /\ FallbackReached'
    BY DEF RouteInv, HonestStop, FallbackReached
  <2> QED BY <2>1, <2>2, <2>3, <2>4 DEF RouteInv
<1> QED BY <1>1, <1>2

LEMMA RouteInvHolds == Spec => []RouteInv
BY RouteInit, RouteStep, PTL DEF Spec

\* gr1_lift.cc: a proof that the caller accepts is one of the sealed game, for
\* the player who wins it, whatever job, deadline, cancellation, order of the
\* proof methods or test hook there was.
THEOREM AcceptedIsSealed == Spec => []SealedProof
<1>1. RouteInv => SealedProof
  BY DEF RouteInv
<1> QED BY <1>1, RouteInvHolds, PTL

\* gr1_shared.hh: every failure that reaches the caller or the observer names
\* whose time was up, and is a decline exactly when nothing but declines was
\* met.
THEOREM StopsAreHonest == Spec => []HonestStop
<1>1. RouteInv => HonestStop
  BY DEF RouteInv
<1> QED BY <1>1, RouteInvHolds, PTL

\* gr1_lift.cc: no failure of the library that a seed route meets, be it a limit,
\* a decline, an error or an allowance, ends a combined call before the direct
\* solve.  The handler is for failures only: an exception of the host passes it,
\* and so do the caller's stops and a target that changed or does not bind.  A
\* proof that passed the check but cannot be handed out ends the call too.
THEOREM DirectIsTried == Spec => []FallbackReached
<1>1. RouteInv => FallbackReached
  BY DEF RouteInv
<1> QED BY <1>1, RouteInvHolds, PTL
=============================================================================
