----------------------------- MODULE LiftWindow -----------------------------
(***************************************************************************)
(* The seeds of a lift (gr1_lift.cc, gr1_env_lift.cc): the source is       *)
(* reduced again with smaller values of one parameter, and a window of     *)
(* consecutive sizes is taken whose instances look like the target.        *)
(*                                                                         *)
(* An instance is what the provenance of a reduction says:                 *)
(*   decls      rows [id, dir, dims, role, width, index, complete, by]: by *)
(*              are the parameters its width is made of, when complete       *)
(*   conjuncts  rows [fid, nid, binders, bindings, refs]                   *)
(*   monitors   rows [fid, nid, side, role, cls, states, template, wide,   *)
(*              index, refs, sig]; sig is <<>> or <<function from          *)
(*              declarations to sets of counts>>                           *)
(*   encoding   of the latches                                             *)
(*   params     the parameters of the source                               *)
(* A ref is [decl, index, role]; an index is a sequence of coordinates.    *)
(* A family is [target, axes]; an axis is [name, value, probes], whose    *)
(* probes give each size an instance or the failure of its reduction.      *)
(***************************************************************************)
EXTENDS Integers, Sequences, FiniteSets, FiniteSetsExt, SequencesExt

-----------------------------------------------------------------------------
(***************************************************************************)
(* How lifting fails (gr1_shared.hh): a failure carries the status that    *)
(* decides what happens next and, separately, the cause that is reported.  *)
(*                                                                         *)
(* Time is reduced to the order in which the two deadlines of a call pass: *)
(* late is "none", "phase" (the running phase's allowance is used up),     *)
(* "deadline" (the caller's deadline passed first) or "both" (the          *)
(* allowance first, then the deadline).                                    *)
(***************************************************************************)
Statuses == {"ok", "unsupported", "declined", "limit", "deadline", "cancelled",
             "invalid", "error"}

Failure(status, cause, stage) == [status |-> status, cause |-> cause, stage |-> stage]
NoFailure == Failure("ok", "none", "")

Decline(cause, stage) == Failure("declined", cause, stage)
Limit(stage) == Failure("limit", "resource", stage)

IsApplicability(cause) == cause \in {"applicability", "unsupported"}

DiagnosticStatus(cause) ==
    CASE cause = "applicability" -> "declined"
      [] cause = "resource" -> "limit"
      [] OTHER -> cause

FailureCause(status) ==
    CASE status = "declined" -> "applicability"
      [] status = "limit" -> "resource"
      [] status = "ok" -> "error"
      [] OTHER -> status

\* What a checker's or a solver's outcome means.
CheckFailureCause(status, verdict) ==
    CASE status = "limit" -> "resource"
      [] status \in {"deadline", "cancelled"} -> status
      [] status = "ok" /\ verdict \in {"cert_failed", "refuted"} -> "applicability"
      [] OTHER -> "error"

SolverFailureCause(kind) ==
    CASE kind \in {"bdd", "host", "artifact"} -> "resource"
      [] kind \in {"deadline", "cancelled"} -> kind
      [] OTHER -> "error"

-----------------------------------------------------------------------------
\* The configuration a step runs under: mode is "call" (only the caller's
\* deadline), "policy" (the policy proof's allowance) or "env" (the
\* environment candidate's).

Passed(mode, late) == late \in {"deadline", "both"} \/ (mode # "call" /\ late = "phase")

\* Every expiry is the caller's.
DeadlineFailureBlunt(mode, late, stage) == Failure("deadline", "deadline", stage)

\* Config.deadline_failure: whose time is up.  An environment candidate asks
\* which of the two deadlines comes first, everyone else whether the caller's
\* has passed.
DeadlineFailure(mode, late, stage) ==
    CASE mode = "env" /\ late \in {"phase", "both"} -> Limit("candidate_allowance")
      [] mode = "policy" /\ late = "phase" -> Limit(stage)
      [] OTHER -> Failure("deadline", "deadline", stage)

\* Config.check: what a poll raises; an empty set lets the step go on.
Polled(mode, late, cancelled, stage) ==
    CASE cancelled -> {Failure("cancelled", "cancelled", stage)}
      [] ~cancelled /\ Passed(mode, late) -> {DeadlineFailure(mode, late, stage)}
      [] OTHER -> {}

-----------------------------------------------------------------------------
Range1(s) == {s[i] : i \in DOMAIN s}

IsFailure(x) == "status" \in DOMAIN x

-----------------------------------------------------------------------------
\* What two instances have in common.

DeclIds(i) == {r.id : r \in i.decls}
Group(i, id) == {r \in i.decls : r.id = id}
Coords(rows) == {Head(r.index) : r \in rows}

\* axis_members: the coordinates by which the instances differ, or why the
\* parameter does not index elements.
Changed(target, probe) ==
    {id \in DeclIds(target) : Cardinality(Group(target, id)) # Cardinality(Group(probe, id))}

AxisOf(target, probe, changed) ==
    LET tm == {Coords(Group(target, id)) : id \in changed}
        pm == {Coords(Group(probe, id)) : id \in changed}
    IN  IF \/ DeclIds(target) # DeclIds(probe) \/ changed = {}
           \/ \E r \in target.decls \cup probe.decls :
                 r.id \in changed /\ (r.role # "element" \/ r.dims # 1)
           \/ Cardinality(tm) > 1 \/ Cardinality(pm) > 1
        THEN Decline("applicability", "axis")
        ELSE [target |-> UNION tm, probe |-> UNION pm]

AxisMembers(target, probe) == AxisOf(target, probe, Changed(target, probe))

\* monitor_indices: the bound indices, or else those of the signals.
MonitorIndices(m) ==
    IF m.index # <<>> THEN m.index
    ELSE SetToSortSeq(UNION {Range1(r.index) : r \in {x \in m.refs : x.role = "element"}},
                      LAMBDA x, y : x < y)

\* symmetric_key: counts relative to the width of the declaration.
Normal(counts, width) ==
    IF counts = {} THEN <<"empty">>
    ELSE LET lo == Min(counts) hi == Max(counts)
             End(x) == IF x = width THEN -1 ELSE x
         IN  IF counts = lo..hi THEN <<"interval", lo, End(hi)>>
             ELSE <<"set", {End(x) : x \in counts}>>

SymmetricKey(m, i) ==
    IF m.sig = <<>> \/ ~(DOMAIN m.sig[1] \subseteq DeclIds(i)) THEN <<>>
    ELSE <<{<<d, Normal(m.sig[1][d], Cardinality(Group(i, d)))>> : d \in DOMAIN m.sig[1]}>>

Identity(m) == <<m.fid, m.nid>>

\* target_modes: which monitors the target compares by signature.
Modes(target) ==
    [id \in {Identity(m) : m \in target.monitors} |->
       \E m \in target.monitors : Identity(m) = id /\ m.wide /\ SymmetricKey(m, target) # <<>>]

\* Signatures are used for the same monitors as in the target.
IsSymmetric(m, i, modes) ==
    /\ IF Identity(m) \in DOMAIN modes THEN modes[Identity(m)] ELSE m.wide
    /\ SymmetricKey(m, i) # <<>>

MonitorKey(m, i, modes) ==
    <<Identity(m), m.side, m.role, m.cls, m.states,
      IF IsSymmetric(m, i, modes) THEN SymmetricKey(m, i) ELSE <<"template", m.template>> >>

\* monitor_key declines a monitor over many indices that has no signature.
TooWide(i, modes, arity) ==
    \E m \in i.monitors : ~IsSymmetric(m, i, modes) /\ Len(MonitorIndices(m)) > arity

\* structural_shape.
StructuralShape(i, modes) ==
    <<{<<r.id, r.dir, r.dims, r.role, r.width>> : r \in i.decls},
      {<<c.fid, c.nid, c.binders>> : c \in i.conjuncts},
      {MonitorKey(m, i, modes) : m \in i.monitors},
      i.encoding>>

\* role_signatures: how often a coordinate is met, and in what position,
\* counted relative to the number of members.
Relation(coordinate, bindings) ==
    LET at == {p \in DOMAIN bindings : bindings[p] = coordinate}
    IN  IF at # {} THEN <<"bound", at>>
        ELSE IF bindings # <<>>
        THEN <<"relative", [p \in DOMAIN bindings |-> coordinate - bindings[p]]>>
        ELSE <<"fixed", coordinate>>

RefShape(r, bindings) ==
    <<r.decl, [k \in DOMAIN r.index |-> Relation(r.index[k], bindings)]>>

Degree(normalize, arity, count, members) ==
    IF normalize /\ arity > 1 /\ count = members - 1 THEN <<"all_except_self">>
    ELSE IF count = 1 THEN <<"one">>
    ELSE IF count = members THEN <<"all">>
    ELSE <<"count", count>>

\* The incidents of a coordinate: <<what, position, arity>> with the row itself.
Incidents(i, modes, coord) ==
    {<<<<"declaration", r.id, 1>>, r>> :
        r \in {x \in i.decls : x.role = "element" /\ x.index = <<coord>>}}
    \cup UNION {{<<<<"monitor", <<MonitorKey(m, i, modes), p>>, Len(m.index)>>, m>> :
                   p \in {q \in DOMAIN MonitorIndices(m) : MonitorIndices(m)[q] = coord}} :
                m \in {x \in i.monitors : ~IsSymmetric(x, i, modes)}}
    \cup UNION {{<<<<"conjunct", <<c.fid, c.nid, {RefShape(r, c.bindings) : r \in c.refs}, p>>,
                     Len(c.bindings)>>, c>> :
                   p \in {q \in DOMAIN c.bindings : c.bindings[q] = coord}} :
                c \in i.conjuncts}

RoleOf(i, modes, coord, members) ==
    LET met == Incidents(i, modes, coord)
    IN  {<<k, Degree(k[1] # "declaration", k[3],
                     Cardinality({x \in met : x[1] = k}), Cardinality(members))>> :
           k \in {x[1] : x \in met}}

RoleSignatures(i, modes, members) == {RoleOf(i, modes, c, members) : c \in members}

\* env_typed_axis: the parameter must be the width of a bus of elements.  An
\* instance has one kind of failing row at most, so their order is left out.
TypedAxis(i, axis) ==
    LET elements == {r \in i.decls : r.role = "element"}
        alike(r, x) == r.role = x.role /\ r.by = x.by
    IN  CASE axis \notin i.params -> Decline("error", "typed_alignment")
          [] axis \in i.params /\ \E r \in elements : ~r.complete ->
                Decline("applicability", "typed_alignment")
          [] axis \in i.params /\ (\/ \E r \in elements : ~(r.by \subseteq i.params)
                                 \/ \E r, x \in i.decls : r.id = x.id /\ ~alike(r, x)) ->
                Decline("error", "typed_alignment")
          [] axis \in i.params /\ ~\E r \in elements : axis \in r.by ->
                Decline("applicability", "typed_alignment")
          [] OTHER -> NoFailure

\* env_typed_classes.
TypedClasses(i) ==
    <<{<<m.fid, m.role, m.side, m.cls>> : m \in i.monitors}, {c.fid : c \in i.conjuncts}>>

-----------------------------------------------------------------------------
\* Windows.  opts is [sizes, arity, probes, confirm, noReal, noEnv].

NoWindow == [axis |-> 0, real |-> <<>>, env |-> <<>>]
Window(n, real, env) == [axis |-> n, real |-> real, env |-> env]
Outcome(window, failure) == [window |-> window, failure |-> failure]

LastSize(axis, opts) == Min({axis.value - 1, opts.sizes})

\* A failure that ends the search at once.
Fatal(f) == f.status \in {"deadline", "cancelled", "limit"}

\* One size: the reduction of the source, if it shares coordinates.
Aligned(probe, members) == IF IsFailure(members) THEN members ELSE probe

Probe(target, axis, k) ==
    IF IsFailure(axis.probes[k]) THEN axis.probes[k]
    ELSE Aligned(axis.probes[k], AxisMembers(target, axis.probes[k]))

Members(target, p) == AxisMembers(target, p).probe
TargetMembers(target, p) == AxisMembers(target, p).target

Failing(target, axis, sizes) == {k \in sizes : IsFailure(Probe(target, axis, k))}

\* What stops the probing of these sizes when `used` probes were spent before.
ProbeStop(target, axis, sizes, used, opts) ==
    LET spent(k) == used + Cardinality({j \in sizes : j < k}) >= opts.probes
        bad == {k \in sizes : spent(k)}
               \cup {k \in Failing(target, axis, sizes) : Fatal(Probe(target, axis, k))}
    IN  IF bad = {} THEN <<>>
        ELSE IF spent(Min(bad)) THEN <<Limit("seed_window")>>
        ELSE <<Probe(target, axis, Min(bad))>>

Found(target, axis, opts) ==
    1..LastSize(axis, opts) \ Failing(target, axis, 1..LastSize(axis, opts))

\* note_failure: the latest cause that is no decline, of what is met in order.
\* A cause is <<>> or <<cause>>.
Note(causes) ==
    LET met == {n \in DOMAIN causes : causes[n] # <<>>}
    IN  IF met = {} THEN <<>> ELSE causes[Max(met)]

HardCause(f) == IF f = NoFailure \/ IsApplicability(f.cause) THEN <<>> ELSE <<f.cause>>

ProbeCause(target, axis, opts) ==
    Note([k \in Failing(target, axis, 1..LastSize(axis, opts)) |->
            HardCause(Probe(target, axis, k))])

\* The probes spent on the axes before n.
Spent(sizes, n) == Cardinality(UNION {{m} \X sizes[m] : m \in 1..(n - 1)})

\* The system lift may start at size k: two or three consecutive sizes, shaped
\* like the target, growing, smaller than it, with the same roles.
SizesFrom(k, found, opts) ==
    IF opts.confirm /\ k + 2 \in found THEN <<k, k + 1, k + 2>> ELSE <<k, k + 1>>

LikeTarget(target, modes, p) == StructuralShape(p, modes) = StructuralShape(target, modes)

Grows(target, axis, k) ==
    LET Count(s) == Cardinality(Members(target, axis.probes[s]))
    IN  Count(k) < Count(k + 1) /\ Count(k + 1) < Cardinality(TargetMembers(target, axis.probes[k]))

Pair(target, modes, axis, k) ==
    /\ LikeTarget(target, modes, axis.probes[k]) /\ LikeTarget(target, modes, axis.probes[k + 1])
    /\ Grows(target, axis, k)

Fits(target, modes, axis, k, sizes) ==
    /\ Pair(target, modes, axis, k)
    /\ \A s \in sizes : LikeTarget(target, modes, axis.probes[s])
    /\ Cardinality({RoleSignatures(axis.probes[s], modes, Members(target, axis.probes[s])) :
                      s \in sizes}) = 1

\* The shape of one of the seeds looked at from size k on cannot be computed.
Blocked(target, modes, axis, k, sizes, opts) ==
    LET Wide(s) == TooWide(axis.probes[s], modes, opts.arity)
    IN  \/ Wide(k)
        \/ LikeTarget(target, modes, axis.probes[k]) /\ Wide(k + 1)
        \/ Pair(target, modes, axis, k) /\ \E s \in sizes : Wide(s)

\* The first size that fits.  The fitting of discover_shared ends at a seed
\* whose shape cannot be computed, that of discover goes on behind it.
FirstFit(found, blocked, fitting, opts, shared) ==
    IF fitting = {} \/ (shared /\ \E k \in blocked : k < Min(fitting)) THEN <<>>
    ELSE SizesFrom(Min(fitting), found, opts)

RealSizesIn(target, modes, axis, found, opts, shared) ==
    LET Sizes(k) == Range1(SizesFrom(k, found, opts))
        starts == {k \in found : k + 1 \in found}
        blocked == {k \in starts : Blocked(target, modes, axis, k, Sizes(k), opts)}
    IN  FirstFit(found, blocked,
                 {k \in starts \ blocked : Fits(target, modes, axis, k, Sizes(k))}, opts, shared)

RealSizes(target, axis, opts, shared) ==
    RealSizesIn(target, Modes(target), axis, Found(target, axis, opts), opts, shared)

\* The environment lift always takes the sizes 3, 4 and 5.
Three == {3, 4, 5}

\* The first of target and seeds that is not typed.
TypedFailure(target, axis) ==
    LET At(n) == TypedAxis(IF n = 2 THEN target ELSE axis.probes[n], axis.name)
        bad == {n \in 2..5 : At(n) # NoFailure}
    IN  IF bad = {} THEN NoFailure ELSE At(Min(bad))

Stable(target, axis, k) ==
    LET p == axis.probes[k]
    IN  /\ Cardinality(Members(target, p)) = k
        /\ Cardinality(TargetMembers(target, p)) > k
        /\ TypedClasses(p) = TypedClasses(axis.probes[3])
        /\ TargetMembers(target, p) = TargetMembers(target, axis.probes[3])

EnvEligible(target, axis, opts) == axis.value > 5 /\ Three \subseteq Found(target, axis, opts)

EnvSizes(target, axis, opts) ==
    IF /\ EnvEligible(target, axis, opts) /\ TypedFailure(target, axis) = NoFailure
       /\ \A k \in Three : Stable(target, axis, k)
       /\ TypedClasses(target) = TypedClasses(axis.probes[3])
    THEN <<3, 4, 5>> ELSE <<>>

\* discover_shared: the axes in order, until one has a window for the system or
\* for the environment.  The cause noted last is Config.search_cause.
DiscoverShared(fam, opts) ==
    LET axes == DOMAIN fam.axes
        sizes == [n \in axes |-> 1..LastSize(fam.axes[n], opts)]
        stop == [n \in axes |->
                   ProbeStop(fam.target, fam.axes[n], sizes[n], Spent(sizes, n), opts)]
        real == [n \in axes |->
                   IF opts.noReal \/ TooWide(fam.target, Modes(fam.target), opts.arity) THEN <<>>
                   ELSE RealSizes(fam.target, fam.axes[n], opts, TRUE)]
        env == [n \in axes |->
                  IF opts.noEnv THEN <<>> ELSE EnvSizes(fam.target, fam.axes[n], opts)]
        typed(n) == IF ~opts.noEnv /\ EnvEligible(fam.target, fam.axes[n], opts)
                    THEN HardCause(TypedFailure(fam.target, fam.axes[n])) ELSE <<>>
        noted == Note([n \in axes |->
                         IF typed(n) # <<>> THEN typed(n)
                         ELSE ProbeCause(fam.target, fam.axes[n], opts)])
        ends == {n \in axes : /\ fam.axes[n].value > 1
                              /\ stop[n] # <<>> \/ real[n] # <<>> \/ env[n] # <<>>}
        last == Min(ends)
    IN  IF ends = {}
        THEN Outcome(NoWindow,
                     IF noted = <<>> THEN NoFailure ELSE Decline(noted[1], "search_error"))
        ELSE IF stop[last] # <<>> THEN Outcome(NoWindow, stop[last][1])
        ELSE Outcome(Window(last, real[last], env[last]), NoFailure)

\* decline_search: a noted cause is reported instead of a plain decline.
DeclineSearch(noted) ==
    Outcome(NoWindow, IF noted = <<>> THEN Decline("applicability", "seed_window")
                      ELSE Decline(noted[1], "search_error"))

\* discover: the window of the system lift alone.
Discover(fam, opts) ==
    LET axes == DOMAIN fam.axes
        sizes == [n \in axes |-> 1..LastSize(fam.axes[n], opts)]
        stop == [n \in axes |->
                   ProbeStop(fam.target, fam.axes[n], sizes[n], Spent(sizes, n), opts)]
        wide == TooWide(fam.target, Modes(fam.target), opts.arity)
        real == [n \in axes |-> RealSizes(fam.target, fam.axes[n], opts, FALSE)]
        ends == {n \in axes : stop[n] # <<>> \/ wide \/ real[n] # <<>>}
        last == Min(ends)
    IN  IF axes = {} THEN Outcome(NoWindow, Decline("applicability", "parameters"))
        ELSE IF ends = {}
        THEN DeclineSearch(Note([n \in axes |-> ProbeCause(fam.target, fam.axes[n], opts)]))
        ELSE IF stop[last] # <<>> THEN Outcome(NoWindow, stop[last][1])
        ELSE IF wide THEN Outcome(NoWindow, Decline("applicability", "bus_schema"))
        ELSE Outcome(Window(last, real[last], <<>>), NoFailure)

\* env_window: an axis is left at the first of its three sizes that fails.
EnvFailure(target, axis, k) ==
    LET p == axis.probes[k]
    IN  IF IsFailure(p) THEN p
        ELSE IF TypedAxis(p, axis.name) # NoFailure THEN TypedAxis(p, axis.name)
        ELSE IF IsFailure(Probe(target, axis, k)) THEN Probe(target, axis, k)
        ELSE IF k > 3 /\ IsFailure(Probe(target, axis, 3)) THEN NoFailure    \* not reached
        ELSE IF ~Stable(target, axis, k) THEN Decline("applicability", "seed_window")
        ELSE NoFailure

\* An axis that is probed: large enough, and its target typed.
EnvProbed(target, axis) == axis.value > 5 /\ TypedAxis(target, axis.name) = NoFailure

EnvBad(target, axis) == {k \in Three : EnvFailure(target, axis, k) # NoFailure}

EnvReached(target, axis) ==
    IF ~EnvProbed(target, axis) THEN {}
    ELSE IF EnvBad(target, axis) = {} THEN Three ELSE 3..Min(EnvBad(target, axis))

EnvCause(target, axis) ==
    IF axis.value <= 5 THEN <<>>
    ELSE IF ~EnvProbed(target, axis) THEN HardCause(TypedAxis(target, axis.name))
    ELSE HardCause(EnvFailure(target, axis, Min(EnvBad(target, axis))))

DiscoverEnv(fam, opts) ==
    LET axes == DOMAIN fam.axes
        sizes == [n \in axes |-> EnvReached(fam.target, fam.axes[n])]
        stop == [n \in axes |->
                   ProbeStop(fam.target, fam.axes[n], sizes[n], Spent(sizes, n), opts)]
        ends == {n \in axes : /\ EnvProbed(fam.target, fam.axes[n])
                              /\ stop[n] # <<>> \/ EnvBad(fam.target, fam.axes[n]) = {}}
        last == Min(ends)
    IN  IF ends = {}
        THEN DeclineSearch(Note([n \in axes |-> EnvCause(fam.target, fam.axes[n])]))
        ELSE IF stop[last] # <<>> THEN Outcome(NoWindow, stop[last][1])
        ELSE Outcome(Window(last, <<>>, <<3, 4, 5>>), NoFailure)

\* validate_window.
ValidWindow(fam, w) ==
    /\ Len(w.real) >= 2
    /\ \A p \in 2..Len(w.real) : w.real[p] = w.real[p - 1] + 1
    /\ \A p \in DOMAIN w.real : ~IsFailure(Probe(fam.target, fam.axes[w.axis], w.real[p]))
=============================================================================
