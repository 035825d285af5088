----------------------------- MODULE ExpandRun ------------------------------
(***************************************************************************)
(* expand(): the staged transaction around the evaluators of expand.c,     *)
(* whatever those return.  The caller's specification is copied,           *)
(* parameters, bus bounds and formulas are resolved in the copy one after  *)
(* the other, and the copy is published in one assignment.  Any step can   *)
(* run out of arena memory.                                                *)
(*                                                                         *)
(* A specification holds params, defs, declared (name to [lo, hi] bound    *)
(* expressions), buses, scalars, labels and formulas.                      *)
(***************************************************************************)
EXTENDS Integers, Sequences

CONSTANTS Specs,        \* the specifications expand() is called on
          Overrides,    \* the --param lists it may be given
          MaxIndex,     \* UINT16_MAX
          SourceNodes,  \* the nodes the caller's formulas share with the copy
          BoundIn(_, _, _),     \* eval_int: specification, expression, parameters
          NodeIn(_, _, _),      \* expand_node: specification, formula, parameters
          NoValue               \* what both return on an error

\* The fields every specification has; its formulas are a list.
ASSUME SpecsAssumption ==
    \A S \in Specs :
      /\ {"params", "defs", "declared", "buses", "scalars", "labels", "formulas"}
           \subseteq DOMAIN S
      /\ Len(S.formulas) \in Nat /\ DOMAIN S.formulas = 1..Len(S.formulas)

VARIABLES given,        \* specification, overrides, capture_provenance and the
                        \* nodes with a source_id when expand() is called
          spec,         \* the caller's specification
          staged,       \* the staged copy
          stamped,      \* the shared nodes that carry a source_id
          changes,      \* ids.changes: the nodes this call has stamped
          expandPc, at        \* progress: phase, and formula within the last phase

expandVars == <<given, spec, staged, stamped, changes, expandPc, at>>

ExpandCalled(g) ==
    /\ given = g
    /\ stamped = given.stamped
    /\ changes = {}
    /\ spec = given.spec
    /\ staged = <<>>
    /\ expandPc = "copy"
    /\ at = 1

ExpandInit ==
    \E g \in [spec : Specs, overrides : Overrides, provenance : BOOLEAN,
              stamped : SUBSET SourceNodes] :
        /\ g.stamped # {} => g.provenance
        /\ ExpandCalled(g)

ids == <<stamped, changes>>

\* COPY_ARRAY: the staged copy.
Copy ==
    /\ expandPc = "copy"
    /\ staged' = spec
    /\ expandPc' = IF given.provenance THEN "ids" ELSE "params"
    /\ UNCHANGED <<given, spec, ids, at>>

\* assign_source_ids: ids are written into the nodes the caller still owns;
\* the arena can run out with only some of them stamped.
AssignSourceIds ==
    /\ expandPc = "ids"
    /\ \E some \in SUBSET (SourceNodes \ stamped) :
         /\ changes' = some
         /\ stamped' = stamped \cup some
         /\ expandPc' = IF stamped' = SourceNodes THEN "params" ELSE "undo"
    /\ UNCHANGED <<given, spec, staged, at>>

\* Phase 1: overrides replace defaults; every parameter needs a value.
Overridden(params, os) ==
    [k \in DOMAIN params |->
       LET hits == {j \in DOMAIN os : os[j].name = params[k].name}
           last == CHOOSE j \in hits : \A i \in hits : i <= j
       IN  IF hits = {} THEN params[k]
           ELSE [params[k] EXCEPT !.value = os[last].value, !.has = TRUE]]

KnownOverrides(params, os) ==
    \A j \in DOMAIN os : \E k \in DOMAIN params : params[k].name = os[j].name

ResolveParams ==
    /\ expandPc = "params"
    /\ LET params == Overridden(staged.params, given.overrides)
       IN  IF KnownOverrides(staged.params, given.overrides) /\
              \A k \in DOMAIN params : params[k].has
           THEN staged' = [staged EXCEPT !.params = params] /\ expandPc' = "buses"
           ELSE expandPc' = "undo" /\ UNCHANGED staged
    /\ UNCHANGED <<given, spec, ids, at>>

\* build_param_env.
ParamEnv(S) == [x \in {S.params[k].name : k \in DOMAIN S.params} |->
                  (CHOOSE p \in {S.params[k] : k \in DOMAIN S.params} : p.name = x).value]

\* Phase 2: bus bounds; an empty range or one outside the index type fails.
BusBounds(S, x) == [lo |-> BoundIn(S, S.declared[x].lo, ParamEnv(S)),
                    hi |-> BoundIn(S, S.declared[x].hi, ParamEnv(S))]

BoundsFit(b) == /\ NoValue \notin {b.lo, b.hi}
                /\ b.lo[2] <= b.hi[2]
                /\ b.lo[2] >= 0
                /\ b.hi[2] <= MaxIndex

ResolveBuses ==
    /\ expandPc = "buses"
    /\ LET b == [x \in DOMAIN staged.declared |-> BusBounds(staged, x)]
       IN  IF \A x \in DOMAIN b : BoundsFit(b[x])
           THEN /\ staged' = [staged EXCEPT !.buses =
                              [x \in DOMAIN b |-> [lo |-> b[x].lo[2], hi |-> b[x].hi[2]]]]
                /\ expandPc' = "formulas"
           ELSE expandPc' = "undo" /\ UNCHANGED staged
    /\ UNCHANGED <<given, spec, ids, at>>

\* Phase 3: the staged formula of the lists.
ExpandFormula ==
    /\ expandPc = "formulas"
    /\ at <= Len(staged.formulas)
    /\ LET f == NodeIn(staged, staged.formulas[at], ParamEnv(staged))
       IN  IF f = NoValue THEN expandPc' = "undo" /\ UNCHANGED <<staged, at>>
           ELSE /\ staged' = [staged EXCEPT !.formulas[at] = f]
                /\ at' = at + 1
                /\ UNCHANGED expandPc
    /\ UNCHANGED <<given, spec, ids>>

\* explode_signals: a bus becomes its elements.
Exploded(S) == S.scalars \cup
    UNION {{Append(x, k) : k \in S.buses[x].lo..S.buses[x].hi} : x \in DOMAIN S.buses}

ExplodeSignals ==
    /\ expandPc = "formulas"
    /\ at > Len(staged.formulas)
    /\ staged' = [staged EXCEPT !.scalars = Exploded(staged), !.params = <<>>, !.defs = <<>>]
    /\ expandPc' = "publish"
    /\ UNCHANGED <<given, spec, ids, at>>

\* *spec = staged.
Publish ==
    /\ expandPc = "publish"
    /\ spec' = staged
    /\ expandPc' = "done"
    /\ UNCHANGED <<given, staged, ids, at>>

\* arena_failed: any allocation of any phase.
OutOfMemory ==
    /\ expandPc \in {"copy", "params", "buses", "formulas"}
    /\ expandPc' = IF expandPc = "copy" THEN "failed" ELSE "undo"
    /\ UNCHANGED <<given, spec, staged, ids, at>>

\* A failed call leaves the ids it assigned in the caller's nodes.
UndoIdsForgotten ==
    /\ expandPc = "undo"
    /\ changes' = {}
    /\ expandPc' = "failed"
    /\ UNCHANGED <<given, spec, staged, stamped, at>>

\* A failed call takes back the ids it assigned.
UndoIds ==
    /\ expandPc = "undo"
    /\ stamped' = stamped \ changes
    /\ changes' = {}
    /\ expandPc' = "failed"
    /\ UNCHANGED <<given, spec, staged, at>>

ExpandNext == \/ Copy \/ AssignSourceIds \/ ResolveParams \/ ResolveBuses
        \/ ExpandFormula \/ ExplodeSignals \/ Publish \/ OutOfMemory \/ UndoIds

ExpandSpecification == ExpandInit /\ [][ExpandNext]_expandVars

-----------------------------------------------------------------------------
\* The caller never sees half of an expansion: until everything succeeded its
\* specification is the one it passed, and a failed call also leaves its nodes
\* as they were.  A successful one keeps every formula, carries ids exactly on
\* the nodes they were asked for, and leaves no parameter or definition.
StagedUntilPublished ==
    /\ expandPc # "done" => spec = given.spec
    /\ expandPc = "failed" => stamped = given.stamped
    /\ expandPc = "done" =>
         /\ DOMAIN spec.formulas = DOMAIN given.spec.formulas
         /\ spec.params = <<>> /\ spec.defs = <<>>
         /\ stamped = IF given.provenance THEN SourceNodes ELSE given.stamped
=============================================================================
