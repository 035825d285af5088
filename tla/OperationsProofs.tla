-------------------------- MODULE OperationsProofs --------------------------
(***************************************************************************)
(* Proofs about the guarded operation layer, for every capacity, threshold *)
(* and wait: its accounting, the finality of a failure, the honesty of an  *)
(* out-of-nodes report, and that it implements RunGuard; and about         *)
(* oxidd_build_roots, for every circuit in topological order, every set of *)
(* seeds and roots and every combination of failures: the use counts are   *)
(* exact, a handle is held while it is needed and no longer, and what is   *)
(* published are the functions of the literals asked for.                  *)
(***************************************************************************)
EXTENDS OxiddRun, BuildRoots, FiniteSetTheorems, WellFoundedInduction, TLAPS

-----------------------------------------------------------------------------
\* The operation layer.

LEMMA GuardsTyped ==
  ASSUME NEW g \in G!Guards
  PROVE  /\ G!OperationFails(g) \in G!Guards
         /\ G!OperandInvalid(g) \in G!Guards
         /\ \A k \in StopKinds : G!RunStops(g, k) \in G!Guards
BY RunConstants
   DEF G!Guards, G!FailureKinds, G!OperationFails, G!OperandInvalid,
       G!RunStops, G!RecordFailure

\* What the guard operators do to a guard that has not failed.
LEMMA FreshFailures ==
  ASSUME NEW g \in G!Guards, g.failure = "NONE"
  PROVE  /\ G!OperationFails(g).failed /\ G!OperationFails(g).failure = "BDD"
         /\ G!OperandInvalid(g).failed
         /\ G!OperandInvalid(g).failure = "INVALID"
         /\ \A k : G!RunStops(g, k).failed /\ G!RunStops(g, k).failure = k
         /\ G!OperationFails(g).stopped = g.stopped
         /\ G!OperandInvalid(g).stopped = g.stopped
BY DEF G!Guards, G!OperationFails, G!OperandInvalid, G!RunStops,
       G!RecordFailure

LEMMA WaitTyped ==
  ASSUME NEW n \in Nat
  PROVE  Wait(n) \in Nat /\ Wait(n) >= ShortWait
BY RunConstants DEF Wait

\* A checkpoint keeps the types and only ever removes dead nodes.
LEMMA CheckpointTyped ==
  ASSUME TypeOK, NEW ops \in Nat, NEW next \in Nat, NEW last \in Nat,
         Checkpoint(ops, next, last)
  PROVE  /\ nextGc' \in Nat /\ lastGc' \in Nat
         /\ dead' \in Nat /\ explicitGc' \in Nat /\ explicitGc' >= explicitGc
BY WaitTyped DEF Checkpoint, Collect, TypeOK

\* Type correctness of the operation layer.
THEOREM RunTyping == Spec => []TypeOK
<1>1. Init => TypeOK
  <2>1. G!FreshGuard \in G!Guards
    BY DEF G!FreshGuard, G!Guards, G!FailureKinds
  <2>2. NoGc \in Nat
    BY RunConstants DEF NoGc
  <2> SUFFICES ASSUME Init PROVE TypeOK
    OBVIOUS
  <2>3. guard \in G!Guards /\ lastGc \in Nat
    BY <2>1, <2>2 DEF Init
  <2>4. expired \in BOOLEAN /\ busy \in BOOLEAN /\ valid \in BOOLEAN
    BY DEF Init
  <2> QED
    BY <2>3, <2>4 DEF Init, TypeOK
<1>2. TypeOK /\ [Next]_vars => TypeOK'
  <2> SUFFICES ASSUME TypeOK, [Next]_vars PROVE TypeOK'
    OBVIOUS
  <2> USE DEF counters, table
  <2>1. CASE RefuseOperation
    BY <2>1 DEF RefuseOperation, TypeOK
  <2>11. CASE AutoGc
    BY <2>11 DEF AutoGc, TypeOK
  <2>12. CASE Expire
    BY <2>12 DEF Expire, TypeOK
  <2>2. CASE \E kind \in StopKinds : StopOperation(kind)
    <3>1. guard' \in G!Guards
      BY <2>2, GuardsTyped DEF StopOperation, TypeOK
    <3> QED
      BY <2>2, <3>1 DEF StopOperation, TypeOK
  <2>3. CASE \E n \in Needs : BeginOperation(n)
    <3>1. PICK n \in Needs : BeginOperation(n)
      BY <2>3
    <3>2. operations + 1 \in Nat /\ n \in Nat
      BY RunConstants DEF TypeOK
    <3>3. /\ nextGc' \in Nat /\ lastGc' \in Nat
          /\ dead' \in Nat /\ explicitGc' \in Nat
      BY <3>1, <3>2, CheckpointTyped DEF BeginOperation, Begin, TypeOK
    <3> QED
      BY <3>1, <3>2, <3>3 DEF BeginOperation, Begin, TypeOK
  <2>4. CASE RejectOperands
    <3>1. operations + 1 \in Nat
      BY DEF TypeOK
    <3>2. /\ nextGc' \in Nat /\ lastGc' \in Nat
          /\ dead' \in Nat /\ explicitGc' \in Nat
      BY <2>4, <3>1, CheckpointTyped DEF RejectOperands, Begin, TypeOK
    <3>3. guard' \in G!Guards
      BY <2>4, GuardsTyped DEF RejectOperands, TypeOK
    <3> QED
      BY <2>4, <3>1, <3>2, <3>3 DEF RejectOperands, Begin, TypeOK
  <2>5. CASE Execute
    BY <2>5 DEF Execute, TypeOK
  <2>13. CASE Recover
    BY <2>13 DEF Recover, TypeOK
  <2>6. CASE CollectForRetry
    <3>1. PICK removed \in {0, dead} :
            Collect(removed, operations) /\ busy' = (removed # dead)
      BY <2>6 DEF CollectForRetry
    <3>2. dead' \in Nat /\ explicitGc' \in Nat /\ nextGc' \in Nat
      BY <3>1, WaitTyped DEF Collect, TypeOK
    <3>3. busy' \in BOOLEAN
      BY <3>1
    <3> QED
      BY <2>6, <3>2, <3>3 DEF CollectForRetry, TypeOK
  <2>7. CASE GiveUp
    BY <2>7, GuardsTyped DEF GiveUp, TypeOK
  <2>8. CASE \E p \in Phases : Phase(p)
    <3>1. PICK p \in Phases : Phase(p)
      BY <2>8
    <3>2. /\ (IF p # phase THEN operations ELSE nextGc) \in Nat
          /\ (IF p # phase THEN NoGc ELSE lastGc) \in Nat
      BY RunConstants DEF TypeOK, NoGc
    <3>3. /\ nextGc' \in Nat /\ lastGc' \in Nat
          /\ dead' \in Nat /\ explicitGc' \in Nat
      BY <3>1, <3>2, CheckpointTyped DEF Phase, TypeOK
    <3> QED
      BY <3>1, <3>3 DEF Phase, TypeOK
  <2>9. CASE \E n \in {need, live} : Unref(n)
    BY <2>9 DEF Unref, TypeOK
  <2>10. CASE UNCHANGED vars
    BY <2>10 DEF vars, TypeOK
  <2> QED
    BY <2>1, <2>2, <2>3, <2>4, <2>5, <2>6, <2>7, <2>8, <2>9, <2>10,
       <2>11, <2>12, <2>13 DEF Next
<1> QED
  BY <1>1, <1>2, PTL DEF Spec

-----------------------------------------------------------------------------
LEMMA CheckpointCounts ==
  ASSUME TypeOK, NEW ops, NEW next, NEW last, Checkpoint(ops, next, last)
  PROVE  explicitGc' \in Nat /\ explicitGc' >= explicitGc
BY DEF Checkpoint, Collect, TypeOK

LEMMA AccountingStep ==
  ASSUME TypeOK, TypeOK', RetryAccounting, [Next]_vars
  PROVE  RetryAccounting'
<1> USE DEF counters, table
<1>1. CASE RefuseOperation
  BY <1>1 DEF RefuseOperation, RetryAccounting
<1>2. CASE \E kind \in StopKinds : StopOperation(kind)
  <2>1. PICK kind \in StopKinds : StopOperation(kind)
    BY <1>2
  <2>2. guard'.failed /\ guard'.failure = kind /\ kind \notin {"NONE", "BDD"}
    BY <2>1, FreshFailures, RunConstants
       DEF StopOperation, RetryAccounting, TypeOK
  <2> QED
    BY <2>1, <2>2 DEF StopOperation, RetryAccounting, TypeOK
<1>3. CASE \E n \in Needs : BeginOperation(n)
  <2>1. PICK n \in Needs : BeginOperation(n)
    BY <1>3
  <2>2. explicitGc' >= explicitGc
    BY <2>1, CheckpointCounts DEF BeginOperation, Begin
  <2> QED
    BY <2>1, <2>2 DEF BeginOperation, Begin, RetryAccounting, TypeOK
<1>4. CASE RejectOperands
  <2>1. guard'.failed /\ guard'.failure = "INVALID"
    BY <1>4, FreshFailures DEF RejectOperands, Begin, RetryAccounting, TypeOK
  <2>2. explicitGc' >= explicitGc
    BY <1>4, CheckpointCounts DEF RejectOperands, Begin
  <2> QED
    BY <1>4, <2>1, <2>2 DEF RejectOperands, Begin, RetryAccounting, TypeOK
<1>5. CASE Execute
  BY <1>5 DEF Execute, RetryAccounting, TypeOK
<1>6. CASE CollectForRetry
  BY <1>6 DEF CollectForRetry, Collect, RetryAccounting, TypeOK
<1>7. CASE Recover
  BY <1>7 DEF Recover, RetryAccounting, TypeOK
<1>8. CASE GiveUp
  <2>1. guard'.failed /\ guard'.failure = "BDD"
    BY <1>8, FreshFailures DEF GiveUp, RetryAccounting, TypeOK
  <2> QED
    BY <1>8, <2>1 DEF GiveUp, RetryAccounting, TypeOK
<1>9. CASE \E p \in Phases : Phase(p)
  <2>1. explicitGc' >= explicitGc
    BY <1>9, CheckpointCounts DEF Phase
  <2> QED
    BY <1>9, <2>1 DEF Phase, RetryAccounting, TypeOK
<1>10. CASE \E n \in {need, live} : Unref(n)
  BY <1>10 DEF Unref, RetryAccounting
<1>11. CASE AutoGc
  BY <1>11 DEF AutoGc, RetryAccounting
<1>12. CASE Expire
  BY <1>12 DEF Expire, RetryAccounting
<1>13. CASE UNCHANGED vars
  BY <1>13 DEF vars, RetryAccounting
<1> QED
  BY <1>1, <1>2, <1>3, <1>4, <1>5, <1>6, <1>7, <1>8, <1>9, <1>10, <1>11,
     <1>12, <1>13 DEF Next

\* The guard and the counters agree: every retry recovered, is still running or
\* failed the run, and a failed guard always carries the failure (RUN_OPERATION).
THEOREM Accounting == Spec => []RetryAccounting
<1>1. Init => RetryAccounting
  BY DEF Init, RetryAccounting, G!FreshGuard
<1>2. TypeOK /\ TypeOK' /\ RetryAccounting /\ [Next]_vars => RetryAccounting'
  BY AccountingStep
<1> QED
  BY <1>1, <1>2, RunTyping, PTL DEF Spec

-----------------------------------------------------------------------------
\* After the first failure or limit nothing more reaches the manager and the
\* report does not change (operation_begin, oxidd_record_failure).
THEOREM Finality == Spec => FailureIsFinal
<1>1. ASSUME TypeOK, RetryAccounting, [Next]_vars, guard.failed
      PROVE  guard' = guard /\ operations' = operations /\ live' <= live
  <2> USE <1>1 DEF counters, table
  <2>1. pc = "idle"
    BY DEF RetryAccounting
  <2>2. CASE RefuseOperation \/ AutoGc \/ Expire \/ UNCHANGED vars
    BY <2>2 DEF RefuseOperation, AutoGc, Expire, vars, TypeOK
  <2>3. CASE \E p \in Phases : Phase(p)
    BY <2>3 DEF Phase, TypeOK
  <2>4. CASE \E n \in {need, live} : Unref(n)
    BY <2>4 DEF Unref, TypeOK
  <2> QED
    BY <2>1, <2>2, <2>3, <2>4
       DEF Next, StopOperation, BeginOperation, RejectOperands, Begin, Execute,
           CollectForRetry, Recover, GiveUp
<1> QED
  BY <1>1, RunTyping, Accounting, PTL DEF FailureIsFinal, Spec

LEMMA RetryIsCleanHolds == Spec => []RetryIsClean
<1>1. Init => RetryIsClean
  BY DEF Init, RetryIsClean
<1>2. TypeOK /\ RetryIsClean /\ [Next]_vars => RetryIsClean'
  <2> SUFFICES ASSUME TypeOK, RetryIsClean, [Next]_vars PROVE RetryIsClean'
    OBVIOUS
  <2> USE DEF counters, table
  <2>1. CASE CollectForRetry
    <3>1. PICK removed \in {0, dead} :
            Collect(removed, operations) /\ busy' = (removed # dead)
      BY <2>1 DEF CollectForRetry
    <3>2. CASE removed = dead
      BY <3>1, <3>2 DEF Collect, RetryIsClean, TypeOK
    <3>3. CASE removed # dead
      BY <3>1, <3>3 DEF RetryIsClean
    <3> QED
      BY <3>2, <3>3
  <2>2. CASE AutoGc \/ Expire \/ UNCHANGED vars
    BY <2>2 DEF AutoGc, Expire, vars, RetryIsClean
  <2>3. CASE pc' # "retry"
    BY <2>3 DEF RetryIsClean
  <2> QED
    BY <2>1, <2>2, <2>3
       DEF Next, RefuseOperation, StopOperation, BeginOperation, RejectOperands,
           Begin, Execute, Recover, GiveUp, Phase, Unref
<1> QED
  BY <1>1, <1>2, RunTyping, PTL DEF Spec

\* An operation is reported out of nodes only when the table cannot hold it
\* after a full collection, or another collector was in the way (the retry of
\* RUN_OPERATION).
THEOREM Exhaustion == Spec => GenuineExhaustion
<1>1. ASSUME TypeOK, RetryIsClean, [Next]_vars,
             guard.failure = "NONE", guard'.failure = "BDD"
      PROVE  live + need > NodeCap \/ busy
  <2> USE <1>1 DEF counters, table
  <2>1. CASE GiveUp
    BY <2>1, RunConstants DEF GiveUp, Fits, RetryIsClean, TypeOK
  <2>2. CASE \E kind \in StopKinds : StopOperation(kind)
    BY <2>2, FreshFailures, RunConstants DEF StopOperation, TypeOK
  <2>3. CASE RejectOperands
    BY <2>3, FreshFailures DEF RejectOperands, TypeOK
  <2>4. CASE guard' = guard
    BY <2>4
  <2> QED
    BY <2>1, <2>2, <2>3, <2>4
       DEF Next, RefuseOperation, BeginOperation, Execute, CollectForRetry,
           Recover, Phase, Unref, AutoGc, Expire, vars
<1> QED
  BY <1>1, RunTyping, RetryIsCleanHolds, PTL DEF GenuineExhaustion, Spec

-----------------------------------------------------------------------------
\* A checkpoint at or after next_gc keeps the distance.
LEMMA CheckpointSpaces ==
  ASSUME TypeOK, NEW ops \in Nat, ops <= MaxOps, NEW next \in Nat, NEW last \in Nat,
         last # NoGc => last <= ops /\ next >= last + ShortWait,
         Checkpoint(ops, next, last)
  PROVE  /\ lastGc' # NoGc => lastGc' <= ops /\ nextGc' >= lastGc' + ShortWait
         /\ lastGc' # last /\ last # NoGc => lastGc' >= last + ShortWait
<1>1. CASE PressureDue(ops, next)
  <2>1. PICK removed \in {0, dead} : Collect(removed, ops)
    BY <1>1 DEF Checkpoint
  <2>2. lastGc' = ops /\ ops >= next
    BY <1>1 DEF Checkpoint, PressureDue
  <2>3. removed \in Nat
    BY DEF TypeOK
  <2> QED
    BY <2>1, <2>2, <2>3, WaitTyped, RunConstants DEF Collect
<1>2. CASE ~PressureDue(ops, next)
  BY <1>2 DEF Checkpoint
<1> QED
  BY <1>1, <1>2

LEMMA SpacingStep ==
  ASSUME TypeOK, TypeOK', SpacingInv, [Next]_vars
  PROVE  /\ SpacingInv'
         /\ lastGc' # lastGc /\ lastGc # NoGc /\ lastGc' # NoGc /\ phase' = phase
              => lastGc' >= lastGc + ShortWait
<1> USE RunConstants DEF counters, table
<1>1. CASE Begin /\ phase' = phase
  <2>1. operations + 1 \in Nat /\ operations + 1 <= MaxOps
    BY <1>1 DEF Begin, TypeOK
  <2>2. lastGc # NoGc =>
          lastGc <= operations + 1 /\ nextGc >= lastGc + ShortWait
    BY DEF SpacingInv, TypeOK
  <2> QED
    BY <1>1, <2>1, <2>2, CheckpointSpaces DEF Begin, SpacingInv, TypeOK
<1>2. CASE \E p \in Phases : Phase(p)
  <2>1. PICK p \in Phases : Phase(p)
    BY <1>2
  <2>2. CASE p = phase
    <3>1. Checkpoint(operations, nextGc, lastGc) /\ operations' = operations
      BY <2>1, <2>2 DEF Phase
    <3> QED
      BY <3>1, CheckpointSpaces DEF SpacingInv, TypeOK
  <2>3. CASE p # phase
    <3>1. /\ Checkpoint(operations, operations, NoGc)
          /\ operations' = operations /\ phase' # phase
      BY <2>1, <2>3 DEF Phase
    <3>2. NoGc \in Nat
      BY DEF NoGc
    <3> QED
      BY <3>1, <3>2, CheckpointSpaces DEF SpacingInv, TypeOK
  <2> QED
    BY <2>2, <2>3
<1>3. CASE CollectForRetry
  <2>1. PICK removed \in {0, dead} : Collect(removed, operations)
    BY <1>3 DEF CollectForRetry
  <2>2. removed \in Nat
    BY DEF TypeOK
  <2> QED
    BY <1>3, <2>1, <2>2, WaitTyped DEF CollectForRetry, Collect, SpacingInv, TypeOK
<1>4. CASE UNCHANGED <<operations, nextGc, lastGc>>
  BY <1>4 DEF SpacingInv
<1> QED
  BY <1>1, <1>2, <1>3, <1>4
     DEF Next, RefuseOperation, StopOperation, BeginOperation, RejectOperands,
         Execute, Recover, GiveUp, Unref, AutoGc, Expire, vars

LEMMA SpacingHolds == Spec => []SpacingInv
<1>1. Init => SpacingInv
  BY RunConstants DEF Init, SpacingInv
<1>2. TypeOK /\ TypeOK' /\ SpacingInv /\ [Next]_vars => SpacingInv'
  BY SpacingStep
<1> QED
  BY <1>1, <1>2, RunTyping, PTL DEF Spec

\* Pressure collections of one phase keep their distance however full the table
\* stays (next_gc in collect and oxidd_pressure_gc_checkpoint).
THEOREM Spacing == Spec => PressureSpacing
<1>1. TypeOK /\ TypeOK' /\ SpacingInv /\ [Next]_vars =>
        (lastGc' # lastGc /\ lastGc # NoGc /\ lastGc' # NoGc /\ phase' = phase
           => lastGc' >= lastGc + ShortWait)
  BY SpacingStep
<1> QED
  BY <1>1, RunTyping, SpacingHolds, PTL DEF PressureSpacing, Spec

-----------------------------------------------------------------------------
\* The micro-steps of an operation implement RunGuard's atomic operation.
THEOREM GuardRefinement == Spec => Promise
<1>1. Init => G!Init
  BY DEF Init, G!Init
<1>2. ASSUME TypeOK, RetryAccounting, [Next]_vars
      PROVE  [G!Operation]_<<guard, valid>>
  <2> USE <1>2 DEF counters, table
  <2>1. CASE RefuseOperation
    BY <2>1 DEF RefuseOperation, G!Operation, G!Outcomes
  <2>2. CASE \E kind \in StopKinds : StopOperation(kind)
    <3>1. PICK kind \in StopKinds : StopOperation(kind)
      BY <2>2
    <3>2. guard' \in G!Outcomes(guard, TRUE)
      BY <3>1 DEF StopOperation, G!Outcomes
    <3>3. guard'.failed = TRUE
      BY <3>1 DEF StopOperation, G!RunStops, G!RecordFailure, G!Guards, TypeOK
    <3> QED
      BY <3>1, <3>2, <3>3 DEF StopOperation, G!Operation
  <2>3. CASE RejectOperands
    <3>1. guard' \in G!Outcomes(guard, FALSE)
      BY <2>3 DEF RejectOperands, Begin, G!Outcomes
    <3>2. guard'.failed = TRUE
      BY <2>3 DEF RejectOperands, G!OperandInvalid, G!RecordFailure, G!Guards,
                  TypeOK
    <3> QED
      BY <2>3, <3>1, <3>2 DEF RejectOperands, G!Operation
  <2>4. CASE Execute \/ Recover
    <3>1. guard' = guard /\ ~guard.failed /\ valid' = TRUE
      BY <2>4 DEF Execute, Recover, RetryAccounting
    <3>2. guard' \in G!Outcomes(guard, TRUE)
      BY <3>1 DEF G!Outcomes
    <3> QED
      BY <3>1, <3>2 DEF G!Operation
  <2>5. CASE GiveUp
    <3>1. guard' \in G!Outcomes(guard, TRUE)
      BY <2>5 DEF GiveUp, RetryAccounting, G!Outcomes
    <3>2. guard'.failed = TRUE
      BY <2>5 DEF GiveUp, G!OperationFails, G!RecordFailure, G!Guards, TypeOK
    <3> QED
      BY <2>5, <3>1, <3>2 DEF GiveUp, G!Operation
  <2>6. CASE UNCHANGED <<guard, valid>>
    BY <2>6
  <2> QED
    BY <2>1, <2>2, <2>3, <2>4, <2>5, <2>6
       DEF Next, BeginOperation, CollectForRetry, Phase, Unref, AutoGc, Expire,
           vars
<1> QED
  BY <1>1, <1>2, RunTyping, Accounting, PTL DEF Promise, Spec, G!Spec

-----------------------------------------------------------------------------
\* The compilation of circuits.

\* Reads of v still to come, by gates from j on and by roots from m on.
GateReads(j, v) ==
  {p \in (j..NumGates) \X {1, 2} : ToBuild(p[1]) /\ Var(Fanin(p[1])[p[2]]) = v}

RootReads(m, v) == {r \in m..Len(circuit.lits) : Var(circuit.lits[r]) = v}

\* Where the run stands, in each phase.
PhaseInv ==
  /\ buildPc \in {"allocate", "roots", "build"} => ok
  /\ buildPc = "count" => i <= NumGates
  /\ buildPc = "build" => i \in 1..(NumGates + 1)
  /\ buildPc = "publish" => i = NumGates + 1
  /\ buildPc = "finish" => ~ok
  /\ buildPc \in {"build", "publish"} \/ (buildPc = "count" /\ ok) =>
       KnownUpTo(Len(circuit.lits))
  /\ buildPc # "publish" => published = << >>
  /\ Len(published) <= Len(circuit.lits)
  /\ buildPc # "done" => \A r \in DOMAIN roots : roots[r] = Invalid

\* While uses are counted the gates above i and all roots have been.
CountInv ==
  buildPc = "count" /\ ok =>
    \A v \in Vars :
      uses[v] = Cardinality(GateReads(i + 1, v)) + Cardinality(RootReads(1, v))

\* What is held, and how it is counted.
HoldInv ==
  /\ buildPc \in {"allocate", "roots", "count"} /\ ~buildGuard.failed =>
       \A v \in Vars : map[v].ok <=> v <= NumLeaves \/ v \in circuit.seeded
  /\ buildPc \in {"build", "publish"} => \A v \in Vars : map[v].ok => uses[v] > 0
  /\ buildPc \in {"roots", "count"} => retained = Held(map)

\* Handles and published roots denote what they stand for.
ValueInv ==
  /\ \A v \in Vars : map[v].ok => map[v].fn = Denotation[2 * v]
  /\ buildPc = "publish" /\ ok =>
       \A r \in 1..Len(published) : published[r] = Bdd(Denotation[circuit.lits[r]])

BuildInv ==
  /\ BuildTypeOK /\ PhaseInv /\ CountInv /\ UsesExact /\ HoldInv /\ HeldWhileNeeded
  /\ ValueInv /\ HandlesCorrect

-----------------------------------------------------------------------------
\* Every non-empty set of naturals has a least element.
LEMMA LeastNatural ==
  ASSUME NEW T \in SUBSET Nat, T # {}
  PROVE  \E x \in T : \A y \in T : x <= y
<1> DEFINE R == {ss \in Nat \X Nat : ss[1] < ss[2]}
<1>1. IsWellFoundedOn(R, Nat)
  BY NatLessThanWellFounded, Zenon DEF OpToRel
<1>2. \A x, y \in Nat : ~(<<y, x>> \in R) => x <= y
  OBVIOUS
<1> HIDE DEF R
<1>3. \E x \in T : \A y \in T : ~(<<y, x>> \in R)
  BY <1>1, WFMin, Zenon
<1> QED
  BY <1>2, <1>3, Zenon

LEMMA VarFacts ==
  ASSUME NEW lit \in Nat
  PROVE  /\ Var(lit) \in Nat
         /\ lit < 2 <=> Var(lit) = 0
         /\ lit <= 2 * Var(lit) + 1
         /\ lit % 2 = 0 => lit = 2 * Var(lit)
         /\ lit % 2 \in {0, 1}
BY DEF Var

\* The circuit's numbers, and its topological order.
LEMMA CircuitFacts ==
  ASSUME circuit \in Circuits
  PROVE  /\ NumLeaves \in Nat /\ NumGates \in Nat /\ MaxVar \in Nat
         /\ MaxVar = NumLeaves + NumGates
         /\ circuit.lits \in Seq(Nat)
         /\ circuit.seeded \subseteq {GateVar(k) : k \in 1..NumGates}
         /\ \A k \in 1..NumGates :
              /\ GateVar(k) \in Vars
              /\ \A n \in {1, 2} : /\ Fanin(k)[n] \in Nat
                                   /\ Var(Fanin(k)[n]) \in Nat
                                   /\ Var(Fanin(k)[n]) < GateVar(k)
<1>1. /\ NumLeaves \in Nat /\ circuit.gates \in Seq(Nat \X Nat)
      /\ \A k \in DOMAIN circuit.gates : \A n \in {1, 2} :
           circuit.gates[k][n] \div 2 < NumLeaves + k
      /\ circuit.lits \in Seq(Nat)
      /\ circuit.seeded \subseteq {NumLeaves + k : k \in DOMAIN circuit.gates}
  BY CircuitAssumption
<1>2. NumGates \in Nat /\ DOMAIN circuit.gates = 1..NumGates
  BY <1>1 DEF NumGates
<1>3. ASSUME NEW k \in 1..NumGates, NEW n \in {1, 2}
      PROVE  Fanin(k)[n] \in Nat /\ Var(Fanin(k)[n]) < GateVar(k)
  <2>1. circuit.gates[k] \in Nat \X Nat
    BY <1>1, <1>2
  <2>2. circuit.gates[k][n] \in Nat
    BY <2>1
  <2> QED BY <1>1, <1>2, <2>2 DEF Fanin, Var, GateVar
<1>4. \A k \in 1..NumGates : GateVar(k) \in Vars
  BY <1>1, <1>2 DEF GateVar, Vars, MaxVar
<1>5. circuit.seeded \subseteq {GateVar(k) : k \in 1..NumGates}
  BY <1>1, <1>2 DEF GateVar
<1>6. MaxVar \in Nat /\ MaxVar = NumLeaves + NumGates
  BY <1>1, <1>2 DEF MaxVar
<1> QED BY <1>1, <1>2, <1>3, <1>4, <1>5, <1>6, VarFacts

\* The right-hand side of the recursion, and that it looks only at smaller
\* variables.
ValueFrom(den, v) ==
  IF v <= NumLeaves THEN {a \in Assignments : a[v]}
  ELSE {a \in Assignments : \A n \in {1, 2} : a \in LitOf(den, Fanin(v - NumLeaves)[n])}

LEMMA ValueLocal ==
  ASSUME circuit \in Circuits, NEW v \in Vars, NEW g, NEW h,
         \A w \in Vars : w < v => g[w] = h[w]
  PROVE  ValueFrom(g, v) = ValueFrom(h, v)
<1>1. CASE v <= NumLeaves
  BY <1>1 DEF ValueFrom
<1>2. CASE ~(v <= NumLeaves)
  <2>1. v - NumLeaves \in 1..NumGates /\ GateVar(v - NumLeaves) = v
    BY <1>2, CircuitFacts DEF Vars, MaxVar, GateVar
  <2>2. ASSUME NEW n \in {1, 2}
        PROVE  LitOf(g, Fanin(v - NumLeaves)[n]) = LitOf(h, Fanin(v - NumLeaves)[n])
    <3> DEFINE lit == Fanin(v - NumLeaves)[n]
    <3>1. lit \in Nat /\ Var(lit) \in Nat /\ Var(lit) < v
      <4>1. \A k \in 1..NumGates : \A m \in {1, 2} :
              /\ Fanin(k)[m] \in Nat /\ Var(Fanin(k)[m]) \in Nat
              /\ Var(Fanin(k)[m]) < GateVar(k)
        BY CircuitFacts
      <4>2. /\ Fanin(v - NumLeaves)[n] \in Nat /\ Var(Fanin(v - NumLeaves)[n]) \in Nat
            /\ Var(Fanin(v - NumLeaves)[n]) < GateVar(v - NumLeaves)
        BY <2>1, <4>1, Zenon
      <4> QED BY <2>1, <4>2, Zenon
    <3> HIDE DEF lit
    <3>2. lit > 1 => Var(lit) \in Vars
      <4>1. MaxVar \in Nat
        BY CircuitFacts
      <4>2. lit > 1 => Var(lit) # 0
        BY <3>1, VarFacts
      <4> QED BY <3>1, <4>1, <4>2 DEF Vars
    <3>3. lit > 1 => g[Var(lit)] = h[Var(lit)]
      BY <3>1, <3>2
    <3>4. LitOf(g, lit) = LitOf(h, lit)
      BY <3>1, <3>3 DEF LitOf
    <3> QED BY <3>4 DEF lit
  <2> QED BY <1>2, <2>2, Zenon DEF ValueFrom
<1> QED BY <1>1, <1>2

Solves(g, n) == g \in [1..n -> SUBSET Assignments] /\ \A v \in 1..n : g[v] = ValueFrom(g, v)

\* The recursion has a solution: the least n that had none would get one from a
\* solution for n - 1.
LEMMA SolutionExists ==
  ASSUME circuit \in Circuits
  PROVE  \E g : Solves(g, MaxVar)
<1> DEFINE T == {n \in 0..MaxVar : ~\E g : Solves(g, n)}
<1>0. MaxVar \in Nat
  BY CircuitFacts
<1>1. SUFFICES ASSUME T # {} PROVE FALSE
  BY <1>0
<1>2. PICK n \in T : \A m \in T : n <= m
  <2>1. T \in SUBSET Nat
    BY <1>0
  <2> HIDE DEF T
  <2> QED BY <1>1, <2>1, LeastNatural
<1>3. n \in 0..MaxVar /\ ~\E g : Solves(g, n)
  OBVIOUS
<1>4. CASE n = 0
  <2>1. Solves([v \in {} |-> {}], 0)
    BY DEF Solves
  <2> QED BY <1>3, <1>4, <2>1
<1>5. CASE n # 0
  <2>1. n - 1 \in 0..MaxVar /\ n \in 1..MaxVar
    BY <1>0, <1>3, <1>5
  <2>2. PICK g : Solves(g, n - 1)
    <3>1. n - 1 \notin T
      BY <1>2, <2>1
    <3> QED BY <2>1, <3>1
  <2> DEFINE h == [v \in 1..n |-> IF v = n THEN ValueFrom(g, n) ELSE g[v]]
  <2> HIDE DEF T
  <2>3. \A v : ValueFrom(g, v) \in SUBSET Assignments
    BY Zenon DEF ValueFrom
  <2>4. h \in [1..n -> SUBSET Assignments]
    BY <2>1, <2>2, <2>3 DEF Solves
  <2>5. \A w \in 1..(n - 1) : h[w] = g[w]
    BY <2>1
  <2>6. ASSUME NEW v \in 1..n PROVE h[v] = ValueFrom(h, v)
    <3>1. v \in Vars /\ \A w \in Vars : w < v => w \in 1..(n - 1)
      BY <1>0, <2>1 DEF Vars
    <3>2. \A w \in Vars : w < v => h[w] = g[w]
      BY <2>5, <3>1
    <3> HIDE DEF h
    <3>3. ValueFrom(h, v) = ValueFrom(g, v)
      BY <3>1, <3>2, ValueLocal
    <3>4. h[v] = ValueFrom(g, v)
      <4>1. CASE v = n
        BY <4>1 DEF h
      <4>2. CASE v # n
        <5>1. v \in 1..(n - 1)
          BY <2>1, <4>2
        <5> QED BY <2>2, <2>5, <5>1 DEF Solves
      <4> QED BY <4>1, <4>2
    <3> QED BY <3>3, <3>4
  <2>7. Solves(h, n)
    <3> HIDE DEF h
    <3> QED BY <2>4, <2>6 DEF Solves
  <2> QED BY <1>3, <2>7
<1> QED BY <1>4, <1>5

LEMMA DenotesUnfolds ==
  ASSUME circuit \in Circuits
  PROVE  \A v \in Vars : Denotes[v] = ValueFrom(Denotes, v)
<1>1. PICK g : Solves(g, MaxVar)
  BY SolutionExists
<1>2. g = [v \in Vars |-> ValueFrom(g, v)]
  BY <1>1 DEF Solves, Vars
<1>3. Denotes = CHOOSE den : den = [v \in Vars |-> ValueFrom(den, v)]
  BY DEF Denotes, ValueFrom
<1>4. Denotes = [v \in Vars |-> ValueFrom(Denotes, v)]
  BY <1>2, <1>3, Zenon
<1> QED BY <1>4, Zenon

\* What the reference says of a literal the circuit knows.
LEMMA DenotationOfLiteral ==
  ASSUME circuit \in Circuits, NEW lit \in Nat, Var(lit) <= MaxVar
  PROVE  /\ lit \in 0..(2 * MaxVar + 1)
         /\ Denotation[lit] \subseteq Assignments
         /\ lit = 0 => Denotation[lit] = {}
         /\ lit = 1 => Denotation[lit] = Assignments
         /\ lit > 1 => /\ Var(lit) \in Vars
                       /\ lit % 2 = 0 => Denotation[lit] = Denotation[2 * Var(lit)]
                       /\ lit % 2 = 1 =>
                            Denotation[lit] = Assignments \ Denotation[2 * Var(lit)]
<1>0. MaxVar \in Nat
  BY CircuitFacts
<1>1. lit \in 0..(2 * MaxVar + 1)
  BY <1>0, VarFacts
<1>2. Denotation[lit] = LitOf(Denotes, lit)
  BY <1>1 DEF Denotation
<1>3. \A v \in Vars : Denotes[v] \subseteq Assignments
  BY DenotesUnfolds DEF ValueFrom
<1>4. lit > 1 => Var(lit) \in Vars
  BY <1>0, VarFacts DEF Vars
<1>5. lit = 0 => Denotation[lit] = {}
  BY <1>2 DEF LitOf
<1>6. lit = 1 => Denotation[lit] = Assignments
  BY <1>2 DEF LitOf
<1>7. ASSUME lit > 1, lit % 2 = 0 PROVE Denotation[lit] = Denotes[Var(lit)]
  BY <1>2, <1>7 DEF LitOf
<1>8. ASSUME lit > 1, lit % 2 = 1
      PROVE  Denotation[lit] = Assignments \ Denotes[Var(lit)]
  BY <1>2, <1>8 DEF LitOf
<1>9. lit > 1 => Denotation[2 * Var(lit)] = Denotes[Var(lit)]
  <2> SUFFICES ASSUME lit > 1 PROVE Denotation[2 * Var(lit)] = Denotes[Var(lit)]
    OBVIOUS
  <2> DEFINE even == 2 * Var(lit)
  <2>1. even \in 0..(2 * MaxVar + 1) /\ even > 1 /\ even % 2 = 0 /\ Var(even) = Var(lit)
    BY <1>0, VarFacts DEF Var
  <2> HIDE DEF even
  <2>2. Denotation[even] = LitOf(Denotes, even)
    BY <2>1 DEF Denotation
  <2>3. LitOf(Denotes, even) = Denotes[Var(even)]
    BY <2>1 DEF LitOf
  <2> QED BY <2>1, <2>2, <2>3 DEF even
<1>10. Denotation[lit] \subseteq Assignments
  <2>1. lit % 2 \in {0, 1} /\ (lit = 0 \/ lit = 1 \/ lit > 1)
    OBVIOUS
  <2> QED BY <1>3, <1>4, <1>5, <1>6, <1>7, <1>8, <2>1
<1> QED BY <1>1, <1>4, <1>5, <1>6, <1>7, <1>8, <1>9, <1>10

\* A gate denotes the conjunction of its operands.
LEMMA DenotationOfGate ==
  ASSUME circuit \in Circuits, NEW k \in 1..NumGates
  PROVE  Denotation[2 * GateVar(k)] =
           Denotation[Fanin(k)[1]] \cap Denotation[Fanin(k)[2]]
<1> DEFINE v == GateVar(k)
<1>0. /\ NumLeaves \in Nat /\ NumGates \in Nat /\ MaxVar = NumLeaves + NumGates
      /\ v \in Vars
  BY CircuitFacts
<1>1. v - NumLeaves = k /\ ~(v <= NumLeaves) /\ v \in Nat /\ v >= 1 /\ v <= MaxVar
  BY <1>0 DEF GateVar, Vars
<1>2. Denotes[v] = {a \in Assignments : \A n \in {1, 2} : a \in LitOf(Denotes, Fanin(k)[n])}
  BY <1>0, <1>1, DenotesUnfolds, Zenon DEF ValueFrom
<1>3. \A n \in {1, 2} : Fanin(k)[n] \in Nat /\ Var(Fanin(k)[n]) <= MaxVar
  <2>1. \A n \in {1, 2} : /\ Fanin(k)[n] \in Nat /\ Var(Fanin(k)[n]) \in Nat
                          /\ Var(Fanin(k)[n]) < v
    BY CircuitFacts
  <2> QED BY <1>0, <1>1, <2>1
<1>4. \A n \in {1, 2} : /\ Fanin(k)[n] \in 0..(2 * MaxVar + 1)
                        /\ Denotation[Fanin(k)[n]] \subseteq Assignments
  BY <1>3, DenotationOfLiteral
<1>5. \A n \in {1, 2} : Denotation[Fanin(k)[n]] = LitOf(Denotes, Fanin(k)[n])
  BY <1>4 DEF Denotation
<1>6. Denotation[2 * v] = Denotes[v]
  <2> DEFINE even == 2 * v
  <2>1. even \in 0..(2 * MaxVar + 1) /\ even > 1 /\ even % 2 = 0 /\ Var(even) = v
    BY <1>0, <1>1 DEF Var
  <2> HIDE DEF even
  <2>2. Denotation[even] = LitOf(Denotes, even)
    BY <2>1 DEF Denotation
  <2>3. LitOf(Denotes, even) = Denotes[Var(even)]
    BY <2>1 DEF LitOf
  <2> QED BY <2>1, <2>2, <2>3 DEF even
<1> HIDE DEF v
<1>7. Denotation[2 * v] = Denotation[Fanin(k)[1]] \cap Denotation[Fanin(k)[2]]
  BY <1>2, <1>4, <1>5, <1>6
<1> QED BY <1>7 DEF v

-----------------------------------------------------------------------------
\* Counting reads.
LEMMA ReadsFinite ==
  ASSUME circuit \in Circuits, NEW j \in Nat, NEW v
  PROVE  /\ IsFiniteSet(GateReads(j, v)) /\ Cardinality(GateReads(j, v)) \in Nat
         /\ IsFiniteSet(RootReads(j, v)) /\ Cardinality(RootReads(j, v)) \in Nat
<1>1. NumGates \in Int /\ Len(circuit.lits) \in Int /\ j \in Int
  BY CircuitFacts
<1>2. IsFiniteSet(j..NumGates) /\ IsFiniteSet(1..2) /\ IsFiniteSet(j..Len(circuit.lits))
  <2>1. \A a, b \in Int : IsFiniteSet(a..b)
    BY FS_Interval
  <2>2. 1 \in Int /\ 2 \in Int
    OBVIOUS
  <2> QED BY <1>1, <2>1, <2>2, Zenon
<1>3. 1..2 = {1, 2}
  OBVIOUS
<1>4. IsFiniteSet((j..NumGates) \X {1, 2})
  BY <1>2, <1>3, FS_Product
<1>5. /\ GateReads(j, v) \in SUBSET ((j..NumGates) \X {1, 2})
      /\ RootReads(j, v) \in SUBSET (j..Len(circuit.lits))
  BY DEF GateReads, RootReads
<1> QED BY <1>2, <1>4, <1>5, FS_Subset, FS_CardinalityType

\* Gate j's own reads come on top of those of the gates behind it.
LEMMA GateReadsSplit ==
  ASSUME circuit \in Circuits, NEW j \in 1..NumGates, NEW v \in Vars
  PROVE  Cardinality(GateReads(j, v)) =
           Cardinality(GateReads(j + 1, v)) + (IF ToBuild(j) THEN Edges(j, v) ELSE 0)
<1> DEFINE rest == GateReads(j + 1, v)
           one == IF Var(Fanin(j)[1]) = v THEN rest \cup {<<j, 1>>} ELSE rest
           both == IF Var(Fanin(j)[2]) = v THEN one \cup {<<j, 2>>} ELSE one
<1>0. NumGates \in Nat /\ j \in Nat /\ j + 1 \in Nat /\ j..NumGates = ((j + 1)..NumGates) \cup {j}
  BY CircuitFacts
<1>1. IsFiniteSet(rest) /\ Cardinality(rest) \in Nat
  BY <1>0, ReadsFinite
<1>2. <<j, 1>> \notin rest /\ <<j, 2>> \notin rest
  BY <1>0 DEF GateReads
<1>3. CASE ~ToBuild(j)
  <2>1. GateReads(j, v) = rest
    BY <1>0, <1>3 DEF GateReads
  <2> HIDE DEF rest
  <2> QED BY <1>1, <1>3, <2>1 DEF rest
<1>4. CASE ToBuild(j)
  <2>1. GateReads(j, v) = both
    <3>1. ASSUME NEW p \in (j..NumGates) \X {1, 2}
          PROVE  p \in GateReads(j, v) <=> p \in both
      <4>0. p = <<p[1], p[2]>> /\ p[1] \in j..NumGates /\ p[2] \in {1, 2}
        OBVIOUS
      <4>1. CASE p[1] = j
        <5>1. p \notin rest
          BY <1>0, <4>1 DEF GateReads
        <5>2. p \in GateReads(j, v) <=> Var(Fanin(j)[p[2]]) = v
          BY <1>4, <4>1 DEF GateReads
        <5>3. p = <<j, 1>> \/ p = <<j, 2>>
          BY <4>0, <4>1
        <5> HIDE DEF rest
        <5> QED BY <5>1, <5>2, <5>3
      <4>2. CASE p[1] # j
        <5>1. p \in GateReads(j, v) <=> p \in rest
          BY <1>0, <4>0, <4>2 DEF GateReads
        <5>2. p # <<j, 1>> /\ p # <<j, 2>>
          BY <4>2
        <5> HIDE DEF rest
        <5> QED BY <5>1, <5>2
      <4> QED BY <4>1, <4>2
    <3>2. GateReads(j, v) \subseteq (j..NumGates) \X {1, 2}
      BY DEF GateReads
    <3>3. both \subseteq (j..NumGates) \X {1, 2}
      <4>1. rest \subseteq (j..NumGates) \X {1, 2}
        BY <1>0 DEF GateReads
      <4>2. <<j, 1>> \in (j..NumGates) \X {1, 2} /\ <<j, 2>> \in (j..NumGates) \X {1, 2}
        BY <1>0
      <4> HIDE DEF rest
      <4> QED BY <4>1, <4>2
    <3> HIDE DEF both
    <3> QED BY <3>1, <3>2, <3>3
  <2> HIDE DEF rest
  <2>2. /\ IsFiniteSet(one) /\ <<j, 2>> \notin one
        /\ Cardinality(one) = Cardinality(rest) + (IF Var(Fanin(j)[1]) = v THEN 1 ELSE 0)
    <3>1. IsFiniteSet(rest \cup {<<j, 1>>})
          /\ Cardinality(rest \cup {<<j, 1>>}) = Cardinality(rest) + 1
      BY <1>1, <1>2, FS_AddElement
    <3> QED BY <1>1, <1>2, <3>1
  <2> HIDE DEF one
  <2>3. Cardinality(both) = Cardinality(one) + (IF Var(Fanin(j)[2]) = v THEN 1 ELSE 0)
    <3>1. Cardinality(one \cup {<<j, 2>>}) = Cardinality(one) + 1
      BY <2>2, FS_AddElement
    <3> QED BY <1>1, <2>2, <3>1
  <2>4. Cardinality(both) = Cardinality(rest) + Edges(j, v)
    BY <1>1, <2>2, <2>3 DEF Edges
  <2> HIDE DEF both
  <2> QED BY <1>4, <2>1, <2>4 DEF rest
<1> QED BY <1>3, <1>4

LEMMA RootReadsSplit ==
  ASSUME circuit \in Circuits, NEW m \in 1..Len(circuit.lits), NEW v
  PROVE  Cardinality(RootReads(m, v)) =
           Cardinality(RootReads(m + 1, v)) + (IF Var(circuit.lits[m]) = v THEN 1 ELSE 0)
<1> DEFINE rest == RootReads(m + 1, v)
<1>0. /\ Len(circuit.lits) \in Nat /\ m \in Nat /\ m + 1 \in Nat
      /\ m..Len(circuit.lits) = ((m + 1)..Len(circuit.lits)) \cup {m}
  BY CircuitFacts
<1>1. IsFiniteSet(rest) /\ Cardinality(rest) \in Nat
  BY <1>0, ReadsFinite
<1>2. m \notin rest
  BY <1>0 DEF RootReads
<1>3. RootReads(m, v) = IF Var(circuit.lits[m]) = v THEN rest \cup {m} ELSE rest
  BY <1>0 DEF RootReads
<1> HIDE DEF rest
<1>4. Cardinality(rest \cup {m}) = Cardinality(rest) + 1
  BY <1>1, <1>2, FS_AddElement
<1>5. Cardinality(RootReads(m, v)) =
        Cardinality(rest) + (IF Var(circuit.lits[m]) = v THEN 1 ELSE 0)
  BY <1>1, <1>3, <1>4
<1> QED BY <1>5 DEF rest

-----------------------------------------------------------------------------
\* Counting handles.
LEMMA HeldFinite ==
  ASSUME circuit \in Circuits, NEW m \in [Vars -> Bdds]
  PROVE  IsFiniteSet({v \in Vars : m[v].ok}) /\ Held(m) = Cardinality({v \in Vars : m[v].ok})
         /\ Held(m) \in Nat
<1>1. IsFiniteSet(Vars)
  <2>1. 1 \in Int /\ MaxVar \in Int
    BY CircuitFacts
  <2> QED BY <2>1, FS_Interval DEF Vars
<1>2. {v \in Vars : m[v].ok} \in SUBSET Vars /\ DOMAIN m = Vars
  OBVIOUS
<1>3. IsFiniteSet({v \in Vars : m[v].ok})
  BY <1>1, <1>2, FS_Subset
<1> QED BY <1>2, <1>3, FS_CardinalityType DEF Held

LEMMA HeldStore ==
  ASSUME circuit \in Circuits, NEW m \in [Vars -> Bdds], NEW w \in Vars, ~m[w].ok,
         NEW b \in Bdds
  PROVE  Held([m EXCEPT ![w] = b]) = Held(m) + (IF b.ok THEN 1 ELSE 0)
<1> DEFINE S == {v \in Vars : m[v].ok}
           n == [m EXCEPT ![w] = b]
<1>1. n \in [Vars -> Bdds]
  OBVIOUS
<1>2. {v \in Vars : n[v].ok} = IF b.ok THEN S \cup {w} ELSE S
  <2>1. ASSUME NEW v \in Vars PROVE n[v].ok <=> IF v = w THEN b.ok ELSE m[v].ok
    OBVIOUS
  <2> HIDE DEF n
  <2> QED BY <2>1
<1>3. IsFiniteSet(S) /\ w \notin S
  BY HeldFinite
<1>4. Cardinality(S \cup {w}) = Cardinality(S) + 1
  <2> HIDE DEF S
  <2> QED BY <1>3, FS_AddElement
<1>5. Held(n) = Cardinality({v \in Vars : n[v].ok}) /\ Held(m) = Cardinality(S) /\ Held(m) \in Nat
  <2> HIDE DEF n
  <2> QED BY <1>1, HeldFinite
<1>6. Held(n) = Held(m) + (IF b.ok THEN 1 ELSE 0)
  <2> HIDE DEF n, S
  <2>1. CASE b.ok
    BY <1>2, <1>4, <1>5, <2>1, Zenon
  <2>2. CASE ~b.ok
    <3>1. Held(n) = Held(m)
      BY <1>2, <1>5, <2>2, Zenon
    <3> QED BY <1>5, <2>2, <3>1
  <2> QED BY <2>1, <2>2
<1> QED BY <1>6

LEMMA HeldDrop ==
  ASSUME circuit \in Circuits, NEW m \in [Vars -> Bdds], NEW D
  PROVE  LET kept == [v \in Vars |-> IF v \in D THEN Invalid ELSE m[v]]
         IN  /\ kept \in [Vars -> Bdds]
             /\ Held(kept) = Held(m) - Cardinality({v \in Vars : v \in D /\ m[v].ok})
<1> DEFINE kept == [v \in Vars |-> IF v \in D THEN Invalid ELSE m[v]]
           S == {v \in Vars : m[v].ok}
           T == {v \in Vars : v \in D /\ m[v].ok}
<1>1. kept \in [Vars -> Bdds]
  BY DEF Invalid, Bdds
<1>2. {v \in Vars : kept[v].ok} = S \ T
  <2>1. ASSUME NEW v \in Vars PROVE kept[v].ok <=> v \notin D /\ m[v].ok
    BY DEF Invalid
  <2> HIDE DEF kept
  <2> QED BY <2>1
<1>3. S \cap T = T
  OBVIOUS
<1>4. IsFiniteSet(S)
  BY HeldFinite
<1>5. Cardinality(S \ T) = Cardinality(S) - Cardinality(T)
  <2> HIDE DEF S, T
  <2> QED BY <1>3, <1>4, FS_Difference
<1>6. Held(kept) = Cardinality({v \in Vars : kept[v].ok}) /\ Held(m) = Cardinality(S)
  <2> HIDE DEF kept
  <2> QED BY <1>1, HeldFinite
<1>7. kept \in [Vars -> Bdds] /\ Held(kept) = Held(m) - Cardinality(T)
  <2> HIDE DEF kept, S, T
  <2> QED BY <1>1, <1>2, <1>5, <1>6
<1> QED BY <1>7

-----------------------------------------------------------------------------
\* What a wrapped operation may do to the guard.
LEMMA OutcomeFacts ==
  ASSUME NEW g \in Guarded!Guards, NEW b \in BOOLEAN, NEW h \in Guarded!Outcomes(g, b)
  PROVE  /\ h \in Guarded!Guards
         /\ g.failed => h.failed
         /\ ~h.failed => b /\ h = g
<1> USE DEF Guarded!Guards, Guarded!RunStops, Guarded!FailureKinds,
            Guarded!OperationFails, Guarded!OperandInvalid, Guarded!RecordFailure
<1>1. CASE g.failed
  BY <1>1 DEF Guarded!Outcomes
<1>2. CASE ~g.failed
  <2>1. \/ \E k \in BuildStops : h = Guarded!RunStops(g, k)
        \/ b /\ h \in {g, Guarded!OperationFails(g)}
        \/ h = Guarded!OperandInvalid(g)
    BY <1>2, Zenon DEF Guarded!Outcomes
  <2>2. ASSUME NEW k \in BuildStops, h = Guarded!RunStops(g, k)
        PROVE  h \in Guarded!Guards /\ h.failed
    BY <2>2, CircuitAssumption
  <2> QED BY <1>2, <2>1, <2>2
<1> QED BY <1>1, <1>2

\* run_literal: what it returns, if anything, is the literal's function.
LEMMA LiteralRight ==
  ASSUME circuit \in Circuits, map \in [Vars -> Bdds],
         \A v \in Vars : map[v].ok => map[v].fn = Denotation[2 * v],
         NEW lit \in Nat, Var(lit) <= MaxVar,
         NEW g \in Guarded!Guards, NEW h \in LiteralGuards(g, lit)
  PROVE  /\ h \in Guarded!Guards /\ (g.failed => h.failed)
         /\ LiteralValue(h, lit) \in Bdds
         /\ LiteralValue(h, lit).ok => LiteralValue(h, lit) = Bdd(Denotation[lit])
<1>1. h \in Guarded!Guards /\ (g.failed => h.failed)
  BY OutcomeFacts DEF LiteralGuards
<1>2. CASE lit < 2
  <2>1. lit = 0 \/ lit = 1
    BY <1>2
  <2>2. Denotation[0] = {} /\ Denotation[1] = Assignments
    <3>1. 0 \in Nat /\ 1 \in Nat /\ Var(0) = 0 /\ Var(1) = 0 /\ MaxVar \in Nat
      BY CircuitFacts DEF Var
    <3> QED BY <3>1, DenotationOfLiteral
  <2>3. LiteralValue(h, lit) = Bdd(Denotation[lit])
    BY <1>2, <2>1, <2>2 DEF LiteralValue, True, False
  <2>4. Denotation[lit] \subseteq Assignments
    BY DenotationOfLiteral
  <2>5. Bdd(Denotation[lit]) \in Bdds
    BY <2>4 DEF Bdd, Bdds
  <2> QED BY <1>1, <2>3, <2>5
<1>3. CASE ~(lit < 2)
  <2>1. /\ Var(lit) \in Vars /\ lit > 1 /\ lit % 2 \in {0, 1}
        /\ Denotation[lit] \subseteq Assignments
        /\ lit % 2 = 0 => Denotation[lit] = Denotation[2 * Var(lit)]
        /\ lit % 2 = 1 => Denotation[lit] = Assignments \ Denotation[2 * Var(lit)]
    <3>1. lit > 1 /\ lit % 2 \in {0, 1}
      BY <1>3
    <3> QED BY <3>1, DenotationOfLiteral
  <2>2. map[Var(lit)] \in Bdds
    BY <2>1
  <2>3. map[Var(lit)].ok => map[Var(lit)] = Bdd(Denotation[2 * Var(lit)])
    BY <2>1, <2>2 DEF Bdds, Bdd
  <2>4. \A X \in SUBSET Assignments : Bdd(X) \in Bdds /\ Bdd(X).fn = X
    BY DEF Bdd, Bdds
  <2>5. Invalid \in Bdds /\ ~Invalid.ok
    BY DEF Invalid, Bdds
  <2>6. LiteralValue(h, lit) =
          IF ~map[Var(lit)].ok THEN Invalid
          ELSE IF lit % 2 = 0 THEN map[Var(lit)]
          ELSE IF h.failed THEN Invalid ELSE Bdd(Assignments \ map[Var(lit)].fn)
    BY <1>3 DEF LiteralValue
  <2>7. CASE ~map[Var(lit)].ok
    BY <1>1, <2>5, <2>6, <2>7
  <2>8. CASE map[Var(lit)].ok /\ lit % 2 = 0
    BY <1>1, <2>1, <2>2, <2>3, <2>6, <2>8
  <2>9. CASE map[Var(lit)].ok /\ lit % 2 = 1
    <3>1. map[Var(lit)].fn = Denotation[2 * Var(lit)]
      BY <2>1, <2>9
    <3>2. Bdd(Assignments \ map[Var(lit)].fn) = Bdd(Denotation[lit])
      BY <2>1, <2>9, <3>1
    <3>3. Bdd(Denotation[lit]) \in Bdds
      BY <2>1, <2>4
    <3>4. LiteralValue(h, lit) = Invalid \/ LiteralValue(h, lit) = Bdd(Denotation[lit])
      BY <2>6, <2>9, <3>2
    <3> QED BY <1>1, <2>5, <3>3, <3>4
  <2> QED BY <2>1, <2>7, <2>8, <2>9
<1> QED BY <1>2, <1>3

-----------------------------------------------------------------------------
\* What stays with the circuit.
LEMMA CircuitKept ==
  ASSUME circuit' = circuit
  PROVE  /\ NumGates' = NumGates /\ MaxVar' = MaxVar /\ Vars' = Vars
         /\ Denotation' = Denotation
         /\ \A k : Fanin(k)' = Fanin(k) /\ GateVar(k)' = GateVar(k)
<1>1. NumGates' = NumGates /\ MaxVar' = MaxVar /\ Vars' = Vars
  BY DEF NumGates, MaxVar, Vars
<1>2. \A k : Fanin(k)' = Fanin(k) /\ GateVar(k)' = GateVar(k)
  BY DEF Fanin, GateVar
<1>3. Denotes' = Denotes
  BY DEF Denotes, LitOf, Fanin, Vars, MaxVar, NumGates
<1>4. Denotation' = Denotation
  BY <1>1, <1>3 DEF Denotation, LitOf
<1> QED BY <1>1, <1>2, <1>4

\* consume_literal takes one read off the count.
LEMMA ConsumedOnce ==
  ASSUME circuit \in Circuits, NEW u \in [Vars -> Nat], NEW lit \in Nat,
         Var(lit) <= MaxVar, Var(lit) # 0 => u[Var(lit)] > 0
  PROVE  /\ Consumed(u, lit) = [v \in Vars |-> u[v] - (IF Var(lit) = v THEN 1 ELSE 0)]
         /\ Consumed(u, lit) \in [Vars -> Nat]
<1>1. MaxVar \in Nat /\ Var(lit) \in Nat /\ (Var(lit) # 0 => Var(lit) \in Vars)
      /\ Vars \subseteq Nat /\ 0 \notin Vars
  <2>1. MaxVar \in Nat /\ Var(lit) \in Nat
    BY CircuitFacts, VarFacts
  <2> QED BY <2>1 DEF Vars
<1>2. Consumed(u, lit) = [v \in Vars |-> u[v] - (IF Var(lit) = v THEN 1 ELSE 0)]
  <2>1. CASE Var(lit) = 0
    <3>1. Consumed(u, lit) = u
      BY <2>1 DEF Consumed
    <3>2. \A v \in Vars : u[v] = u[v] - (IF Var(lit) = v THEN 1 ELSE 0)
      BY <1>1, <2>1
    <3> QED BY <3>1, <3>2
  <2>2. CASE Var(lit) # 0
    <3>1. Consumed(u, lit) = [u EXCEPT ![Var(lit)] = u[Var(lit)] - 1]
      BY <2>2 DEF Consumed
    <3>2. \A v \in Vars : [u EXCEPT ![Var(lit)] = u[Var(lit)] - 1][v] =
                            u[v] - (IF Var(lit) = v THEN 1 ELSE 0)
      BY <1>1, <2>2
    <3>3. [u EXCEPT ![Var(lit)] = u[Var(lit)] - 1]
            = [v \in Vars |-> [u EXCEPT ![Var(lit)] = u[Var(lit)] - 1][v]]
      OBVIOUS
    <3> QED BY <3>1, <3>2, <3>3
  <2> QED BY <2>1, <2>2
<1>3. \A v \in Vars : u[v] - (IF Var(lit) = v THEN 1 ELSE 0) \in Nat
  BY <1>1
<1> QED BY <1>2, <1>3

LEMMA ConsumedTwice ==
  ASSUME circuit \in Circuits, uses \in [Vars -> Nat], NEW k \in 1..NumGates,
         \A v \in Vars : Edges(k, v) <= uses[v]
  PROVE  LET after == Consumed(Consumed(uses, Fanin(k)[1]), Fanin(k)[2])
         IN  after = [v \in Vars |-> uses[v] - Edges(k, v)] /\ after \in [Vars -> Nat]
<1> DEFINE l1 == Fanin(k)[1]
           l2 == Fanin(k)[2]
           once == Consumed(uses, l1)
<1>0. /\ l1 \in Nat /\ l2 \in Nat /\ Var(l1) \in Nat /\ Var(l2) \in Nat
      /\ Var(l1) < GateVar(k) /\ Var(l2) < GateVar(k) /\ GateVar(k) \in Vars
      /\ MaxVar \in Nat
  BY CircuitFacts
<1>1. /\ Var(l1) <= MaxVar /\ Var(l2) <= MaxVar
      /\ Var(l1) # 0 => Var(l1) \in Vars
      /\ Var(l2) # 0 => Var(l2) \in Vars
  BY <1>0 DEF Vars
<1>e. \A v \in Vars : Edges(k, v) = (IF Var(l1) = v THEN 1 ELSE 0)
                                      + (IF Var(l2) = v THEN 1 ELSE 0)
  BY DEF Edges
<1> HIDE DEF l1, l2
<1>2. Var(l1) # 0 => uses[Var(l1)] > 0
  BY <1>1, <1>e
<1>3. /\ once = [v \in Vars |-> uses[v] - (IF Var(l1) = v THEN 1 ELSE 0)]
      /\ once \in [Vars -> Nat]
  BY <1>0, <1>1, <1>2, ConsumedOnce
<1>4. Var(l2) # 0 => once[Var(l2)] > 0
  BY <1>1, <1>3, <1>e
<1> HIDE DEF once
<1>5. /\ Consumed(once, l2) = [v \in Vars |-> once[v] - (IF Var(l2) = v THEN 1 ELSE 0)]
      /\ Consumed(once, l2) \in [Vars -> Nat]
  BY <1>0, <1>1, <1>3, <1>4, ConsumedOnce
<1>6. \A v \in Vars : once[v] - (IF Var(l2) = v THEN 1 ELSE 0) = uses[v] - Edges(k, v)
  BY <1>3, <1>e
<1>7. Consumed(once, l2) = [v \in Vars |-> uses[v] - Edges(k, v)]
  BY <1>5, <1>6
<1> QED BY <1>5, <1>7 DEF once, l1, l2

\* Releasing drops exactly the handles counted as dropped.
LEMMA ReleaseCounts ==
  ASSUME circuit \in Circuits, NEW m \in [Vars -> Bdds], NEW u, NEW w
  PROVE  /\ Release(m, u, w) \in [Vars -> Bdds]
         /\ Held(Release(m, u, w)) = Held(m) - Dropped(m, u, w)
         /\ Dropped(m, u, w) \in Nat /\ Held(m) \in Nat /\ Held(Release(m, u, w)) \in Nat
         /\ \A v \in Vars : Release(m, u, w)[v] =
                              IF u[v] > 0 /\ w[v] = 0 THEN Invalid ELSE m[v]
<1> DEFINE D == {v \in Vars : u[v] > 0 /\ w[v] = 0}
           kept == [v \in Vars |-> IF v \in D THEN Invalid ELSE m[v]]
<1>1. kept \in [Vars -> Bdds]
      /\ Held(kept) = Held(m) - Cardinality({v \in Vars : v \in D /\ m[v].ok})
  <2> HIDE DEF D
  <2> QED BY HeldDrop
<1>2. kept = Release(m, u, w)
  BY Zenon DEF Release
<1>3. {v \in Vars : v \in D /\ m[v].ok} = {v \in Vars : u[v] > 0 /\ w[v] = 0 /\ m[v].ok}
  BY Zenon
<1> HIDE DEF kept, D
<1>4. Held(Release(m, u, w)) = Held(m) - Dropped(m, u, w)
  BY <1>1, <1>2, <1>3 DEF Dropped
<1>5. Dropped(m, u, w) \in Nat
  <2> DEFINE T == {v \in Vars : u[v] > 0 /\ w[v] = 0 /\ m[v].ok}
  <2>1. T \in SUBSET {v \in Vars : m[v].ok}
    OBVIOUS
  <2>2. IsFiniteSet({v \in Vars : m[v].ok})
    BY HeldFinite
  <2> HIDE DEF T
  <2>3. IsFiniteSet(T)
    BY <2>1, <2>2, FS_Subset
  <2> QED BY <2>3, FS_CardinalityType DEF T, Dropped
<1>6. Held(m) \in Nat /\ Held(Release(m, u, w)) \in Nat
  BY <1>1, <1>2, HeldFinite
<1> QED BY <1>1, <1>2, <1>4, <1>5, <1>6 DEF Release

-----------------------------------------------------------------------------
\* The guards that the last operation of a gate may leave, and the gate's value.
LastGuards(a, b, g) ==
  IF Shortcut(a, b) THEN {g} ELSE Guarded!Outcomes(g, a.ok /\ b.ok)

GateResult(a, b, g) ==
  IF Shortcut(a, b) THEN ShortcutValue(a, b)
  ELSE IF g.failed THEN Invalid ELSE Bdd(a.fn \cap b.fn)

\* A handle is the BDD of X if it is there at all.
StandsFor(a, X) == X \in SUBSET Assignments /\ a \in Bdds /\ (a.ok => a = Bdd(X))

\* The conjunction, by an operation or by a constant shortcut.
LEMMA GateResultRight ==
  ASSUME NEW X, NEW Y, NEW a, NEW b, StandsFor(a, X), StandsFor(b, Y),
         NEW g \in Guarded!Guards,
         NEW h \in LastGuards(a, b, g)
  PROVE  /\ h \in Guarded!Guards /\ (g.failed => h.failed)
         /\ StandsFor(GateResult(a, b, h), X \cap Y)
<1> USE DEF StandsFor
<1>0. \A S : Bdd(S).ok /\ Bdd(S).fn = S
  BY DEF Bdd
<1>1. Invalid \in Bdds /\ ~Invalid.ok /\ \A S \in SUBSET Assignments : Bdd(S) \in Bdds
  BY DEF Invalid, Bdd, Bdds
<1>2. CASE Shortcut(a, b)
  <2>1. h = g /\ GateResult(a, b, h) = ShortcutValue(a, b)
    BY <1>2 DEF GateResult, LastGuards
  <2>2. False.ok /\ True.ok
    BY <1>0 DEF False, True
  <2>3. a = False => X = {}
    <3> SUFFICES ASSUME a = False PROVE X = {}
      OBVIOUS
    <3>1. Bdd(X) = Bdd({})
      BY <2>2 DEF False
    <3> QED BY <1>0, <3>1
  <2>4. b = False => Y = {}
    <3> SUFFICES ASSUME b = False PROVE Y = {}
      OBVIOUS
    <3>1. Bdd(Y) = Bdd({})
      BY <2>2 DEF False
    <3> QED BY <1>0, <3>1
  <2>5. a = True => X = Assignments
    <3> SUFFICES ASSUME a = True PROVE X = Assignments
      OBVIOUS
    <3>1. Bdd(X) = Bdd(Assignments)
      BY <2>2 DEF True
    <3> QED BY <1>0, <3>1
  <2>6. b = True => Y = Assignments
    <3> SUFFICES ASSUME b = True PROVE Y = Assignments
      OBVIOUS
    <3>1. Bdd(Y) = Bdd(Assignments)
      BY <2>2 DEF True
    <3> QED BY <1>0, <3>1
  <2>7. CASE a = False \/ b = False
    <3>1. X \cap Y = {}
      BY <2>3, <2>4, <2>7
    <3>2. ShortcutValue(a, b) = False
      BY <2>7 DEF ShortcutValue
    <3>3. Bdd({}) \in Bdds
      BY <1>1
    <3> QED BY <2>1, <3>1, <3>2, <3>3 DEF False
  <2>8. CASE ~(a = False \/ b = False)
    <3>1. CASE a = True
      <4>1. ShortcutValue(a, b) = b /\ X \cap Y = Y
        BY <2>5, <2>8, <3>1 DEF ShortcutValue
      <4> QED BY <2>1, <4>1
    <3>2. CASE a # True
      <4>1. b = True
        BY <1>2, <2>8, <3>2 DEF Shortcut
      <4>2. ShortcutValue(a, b) = a /\ X \cap Y = X
        BY <2>6, <2>8, <3>2, <4>1 DEF ShortcutValue
      <4> QED BY <2>1, <4>2
    <3> QED BY <3>1, <3>2
  <2> QED BY <2>7, <2>8
<1>3. CASE ~Shortcut(a, b)
  <2>1. a.ok \in BOOLEAN /\ b.ok \in BOOLEAN
    BY DEF Bdds
  <2>2. h \in Guarded!Outcomes(g, a.ok /\ b.ok) /\ (a.ok /\ b.ok) \in BOOLEAN
    BY <1>3 DEF LastGuards
  <2>3. /\ h \in Guarded!Guards /\ (g.failed => h.failed)
        /\ ~h.failed => a.ok /\ b.ok
    BY <2>2, OutcomeFacts
  <2>4. GateResult(a, b, h) = IF h.failed THEN Invalid ELSE Bdd(a.fn \cap b.fn)
    BY <1>3 DEF GateResult
  <2>5. CASE h.failed
    BY <1>1, <2>3, <2>4, <2>5
  <2>6. CASE ~h.failed
    <3>1. a.fn = X /\ b.fn = Y
      BY <1>0, <2>3, <2>6
    <3>2. GateResult(a, b, h) = Bdd(X \cap Y)
      BY <2>4, <2>6, <3>1
    <3>3. X \cap Y \in SUBSET Assignments
      OBVIOUS
    <3> QED BY <1>1, <2>3, <3>2, <3>3
  <2> QED BY <2>5, <2>6
<1> QED BY <1>2, <1>3

\* Building gate i, in one place: what it leaves.
LEMMA BuildGateFacts ==
  ASSUME BuildInv, BuildGate
  PROVE  /\ i \in 1..NumGates /\ circuit' = circuit /\ i' = i + 1
         /\ buildGuard' \in Guarded!Guards
         /\ buildGuard.failed => buildGuard'.failed
         /\ \A v \in Vars : Edges(i, v) <= uses[v]
         /\ uses' = [v \in Vars |-> uses[v] - Edges(i, v)] /\ uses' \in [Vars -> Nat]
         /\ \E b \in Bdds :
              LET stored == [map EXCEPT ![GateVar(i)] = b] IN
              /\ b.ok => b = Bdd(Denotation[2 * GateVar(i)])
              /\ ok' = b.ok
              /\ buildPc' = IF b.ok THEN "build" ELSE "finish"
              /\ map' = Release(stored, uses, uses')
              /\ retained' = retained + (IF b.ok THEN 1 ELSE 0)
                               - Dropped(stored, uses, uses')
<1>0. /\ circuit \in Circuits /\ buildGuard \in Guarded!Guards
      /\ map \in [Vars -> Bdds] /\ uses \in [Vars -> Nat]
      /\ \A v \in Vars : map[v].ok => map[v].fn = Denotation[2 * v]
      /\ buildPc = "build" /\ i \in 1..(NumGates + 1) /\ i <= NumGates /\ ToBuild(i)
  BY DEF BuildInv, BuildTypeOK, ValueInv, PhaseInv, BuildGate
<1>1. i \in 1..NumGates
  <2>1. NumGates \in Nat
    BY <1>0, CircuitFacts
  <2> QED BY <1>0, <2>1
<1> DEFINE l1 == Fanin(i)[1]
           l2 == Fanin(i)[2]
<1>2. /\ l1 \in Nat /\ Var(l1) \in Nat /\ Var(l1) < GateVar(i)
      /\ l2 \in Nat /\ Var(l2) \in Nat /\ Var(l2) < GateVar(i)
      /\ GateVar(i) \in Vars /\ MaxVar \in Nat
  BY <1>0, <1>1, CircuitFacts
<1>3. Var(l1) <= MaxVar /\ Var(l2) <= MaxVar
  BY <1>2 DEF Vars
<1>4. \A v \in Vars : Edges(i, v) <= uses[v]
  <2> SUFFICES ASSUME NEW v \in Vars PROVE Edges(i, v) <= uses[v]
    OBVIOUS
  <2>1. uses[v] = Cardinality(GateReads(i, v)) + Cardinality(RootReads(Len(published) + 1, v))
    BY <1>0 DEF BuildInv, UsesExact, PendingUses, GateReads, RootReads
  <2>2. Cardinality(GateReads(i, v)) = Cardinality(GateReads(i + 1, v)) + Edges(i, v)
    BY <1>0, <1>1, GateReadsSplit
  <2>3. Cardinality(GateReads(i + 1, v)) \in Nat
        /\ Cardinality(RootReads(Len(published) + 1, v)) \in Nat
    <3>1. i + 1 \in Nat /\ Len(published) + 1 \in Nat
      BY <1>1 DEF BuildInv, BuildTypeOK
    <3> QED BY <1>0, <3>1, ReadsFinite
  <2>4. Edges(i, v) \in Nat
    BY DEF Edges
  <2> HIDE DEF l1, l2
  <2> QED BY <2>1, <2>2, <2>3, <2>4
<1> DEFINE after == Consumed(Consumed(uses, l1), l2)
<1>5. after = [v \in Vars |-> uses[v] - Edges(i, v)] /\ after \in [Vars -> Nat]
  BY <1>0, <1>1, <1>4, ConsumedTwice
<1> DEFINE Leaves(r, g) ==
             /\ buildGuard' = g
             /\ uses' = after
             /\ map' = Release([map EXCEPT ![GateVar(i)] = r], uses, after)
             /\ retained' = retained + (IF r.ok THEN 1 ELSE 0)
                              - Dropped([map EXCEPT ![GateVar(i)] = r], uses, after)
             /\ ok' = r.ok
             /\ buildPc' = IF r.ok THEN "build" ELSE "finish"
<1>6. \E g1 \in LiteralGuards(buildGuard, l1) : \E g2 \in LiteralGuards(g1, l2) :
      \E g3 \in LastGuards(LiteralValue(g1, l1), LiteralValue(g2, l2), g2) :
        Leaves(GateResult(LiteralValue(g1, l1), LiteralValue(g2, l2), g3), g3)
  BY Zenon DEF BuildGate, GateResult, LastGuards
<1> HIDE DEF after, l1, l2, Leaves
<1>61. PICK g1 \in LiteralGuards(buildGuard, l1) : \E g2 \in LiteralGuards(g1, l2) :
       \E g3 \in LastGuards(LiteralValue(g1, l1), LiteralValue(g2, l2), g2) :
         Leaves(GateResult(LiteralValue(g1, l1), LiteralValue(g2, l2), g3), g3)
  BY <1>6, Zenon
<1>62. PICK g2 \in LiteralGuards(g1, l2) :
       \E g3 \in LastGuards(LiteralValue(g1, l1), LiteralValue(g2, l2), g2) :
         Leaves(GateResult(LiteralValue(g1, l1), LiteralValue(g2, l2), g3), g3)
  BY <1>61, Zenon
<1> DEFINE a == LiteralValue(g1, l1)
           b == LiteralValue(g2, l2)
<1>7. PICK g3 \in LastGuards(a, b, g2) : Leaves(GateResult(a, b, g3), g3)
  BY <1>62, Zenon
<1>8. /\ g1 \in Guarded!Guards /\ (buildGuard.failed => g1.failed)
      /\ a \in Bdds /\ (a.ok => a = Bdd(Denotation[l1]))
  BY <1>0, <1>2, <1>3, LiteralRight
<1>9. /\ g2 \in Guarded!Guards /\ (g1.failed => g2.failed)
      /\ b \in Bdds /\ (b.ok => b = Bdd(Denotation[l2]))
  BY <1>0, <1>2, <1>3, <1>8, LiteralRight
<1>10. Denotation[l1] \in SUBSET Assignments /\ Denotation[l2] \in SUBSET Assignments
  BY <1>0, <1>2, <1>3, DenotationOfLiteral
<1> DEFINE result == GateResult(a, b, g3)
           X == Denotation[l1]
           Y == Denotation[l2]
<1>71. g3 \in LastGuards(a, b, g2)
  BY <1>7
<1> HIDE DEF a, b, X, Y
<1>11. /\ g3 \in Guarded!Guards /\ (g2.failed => g3.failed)
       /\ result \in Bdds
       /\ result.ok => result = Bdd(X \cap Y)
  <2>1. StandsFor(a, X) /\ StandsFor(b, Y)
    BY <1>8, <1>9, <1>10 DEF X, Y, StandsFor
  <2>2. /\ g3 \in Guarded!Guards /\ (g2.failed => g3.failed)
        /\ StandsFor(GateResult(a, b, g3), X \cap Y)
    BY <1>71, <1>9, <2>1, GateResultRight
  <2> QED BY <2>2 DEF StandsFor
<1>12. Denotation[2 * GateVar(i)] = X \cap Y
  BY <1>0, <1>1, DenotationOfGate DEF l1, l2, X, Y
<1>13. circuit' = circuit /\ i' = i + 1
  BY DEF BuildGate
<1>14. /\ buildGuard' = g3 /\ uses' = after
       /\ ok' = result.ok /\ buildPc' = (IF result.ok THEN "build" ELSE "finish")
       /\ map' = Release([map EXCEPT ![GateVar(i)] = result], uses, uses')
       /\ retained' = retained + (IF result.ok THEN 1 ELSE 0)
                        - Dropped([map EXCEPT ![GateVar(i)] = result], uses, uses')
  BY <1>7, Zenon DEF Leaves
<1> HIDE DEF result
<1>15. /\ result.ok => result = Bdd(Denotation[2 * GateVar(i)])
       /\ uses' = [v \in Vars |-> uses[v] - Edges(i, v)] /\ uses' \in [Vars -> Nat]
       /\ buildGuard' \in Guarded!Guards /\ (buildGuard.failed => buildGuard'.failed)
  BY <1>5, <1>8, <1>9, <1>11, <1>12, <1>14, Zenon
<1> QED
  BY <1>1, <1>4, <1>11, <1>13, <1>14, <1>15, Zenon

LEMMA PendingNow ==
  \A v : PendingUses(v) = Cardinality(GateReads(i, v))
                            + Cardinality(RootReads(Len(published) + 1, v))
BY DEF PendingUses, GateReads, RootReads

\* Reads depend on the circuit and on which gates are still to be built.
LEMMA ReadsKept ==
  ASSUME circuit' = circuit, NEW j,
         \A k \in j..NumGates : ToBuild(k)' <=> ToBuild(k), NEW v
  PROVE  /\ GateReads(j, v)' = GateReads(j, v)
         /\ \A m : RootReads(m, v)' = RootReads(m, v)
<1>1. NumGates' = NumGates /\ \A k : Fanin(k)' = Fanin(k)
  BY CircuitKept
<1>2. GateReads(j, v)' = GateReads(j, v)
  BY <1>1 DEF GateReads
<1> QED BY <1>2 DEF RootReads

\* The reads pending in the next state, when no gate from n on changes its mind.
LEMMA PendingNext ==
  ASSUME circuit' = circuit, NEW n, i' = n, NEW m, Len(published') + 1 = m,
         \A k \in n..NumGates : ToBuild(k)' <=> ToBuild(k), NEW v
  PROVE  PendingUses(v)' = Cardinality(GateReads(n, v)) + Cardinality(RootReads(m, v))
<1>1. PendingUses(v)' = Cardinality(GateReads(n, v)') + Cardinality(RootReads(m, v)')
  BY DEF PendingUses, GateReads, RootReads
<1>2. GateReads(n, v)' = GateReads(n, v) /\ RootReads(m, v)' = RootReads(m, v)
  BY ReadsKept
<1> QED BY <1>1, <1>2

\* A gate reads only variables before it.
LEMMA EdgesBelow ==
  ASSUME circuit \in Circuits, NEW k \in 1..NumGates, NEW v \in Vars, v >= GateVar(k)
  PROVE  Edges(k, v) = 0
<1>1. /\ Var(Fanin(k)[1]) \in Nat /\ Var(Fanin(k)[1]) < GateVar(k)
      /\ Var(Fanin(k)[2]) \in Nat /\ Var(Fanin(k)[2]) < GateVar(k)
      /\ NumLeaves \in Nat
  BY CircuitFacts
<1>2. v \in Nat /\ GateVar(k) \in Nat
  BY <1>1 DEF Vars, GateVar
<1>3. Var(Fanin(k)[1]) # v /\ Var(Fanin(k)[2]) # v
  BY <1>1, <1>2
<1> QED BY <1>3 DEF Edges

LEMMA BuildGateStep ==
  ASSUME BuildInv, BuildGate
  PROVE  BuildInv'
<1>0. /\ circuit \in Circuits /\ map \in [Vars -> Bdds] /\ uses \in [Vars -> Nat]
      /\ i \in Nat /\ retained \in Nat /\ published \in Seq(Bdds)
      /\ roots \in [1..Len(circuit.lits) -> Bdds]
      /\ buildPc = "build" /\ ToBuild(i) /\ published = << >>
      /\ retained = Held(map) /\ i <= NumGates
  BY DEF BuildInv, BuildTypeOK, PhaseInv, HeldWhileNeeded, BuildGate
<1>1. /\ i \in 1..NumGates /\ circuit' = circuit /\ i' = i + 1
      /\ buildGuard' \in Guarded!Guards
      /\ buildGuard.failed => buildGuard'.failed
      /\ \A v \in Vars : Edges(i, v) <= uses[v]
      /\ uses' = [v \in Vars |-> uses[v] - Edges(i, v)] /\ uses' \in [Vars -> Nat]
  BY BuildGateFacts
<1>2. PICK b \in Bdds :
        LET stored == [map EXCEPT ![GateVar(i)] = b] IN
        /\ b.ok => b = Bdd(Denotation[2 * GateVar(i)])
        /\ ok' = b.ok
        /\ buildPc' = IF b.ok THEN "build" ELSE "finish"
        /\ map' = Release(stored, uses, uses')
        /\ retained' = retained + (IF b.ok THEN 1 ELSE 0) - Dropped(stored, uses, uses')
  BY BuildGateFacts
<1> DEFINE w == GateVar(i)
           stored == [map EXCEPT ![w] = b]
<1>3. /\ NumLeaves \in Nat /\ NumGates \in Nat /\ w \in Vars /\ Vars \subseteq Nat
      /\ w = NumLeaves + i
  BY <1>0, <1>1, CircuitFacts DEF Vars, GateVar
<1>4. /\ uses[w] # 0 /\ uses[w] \in Nat /\ ~map[w].ok
  BY <1>0, <1>3 DEF ToBuild
<1>5. \A v \in Vars : v >= w => Edges(i, v) = 0
  BY <1>0, <1>1, EdgesBelow
<1>6. \A v \in Vars : Edges(i, v) \in Nat /\ uses'[v] = uses[v] - Edges(i, v) /\ uses'[v] \in Nat
                      /\ uses[v] \in Nat
  BY <1>0, <1>1 DEF Edges
<1>c. /\ NumGates' = NumGates /\ MaxVar' = MaxVar /\ Vars' = Vars
      /\ Denotation' = Denotation
      /\ \A k : Fanin(k)' = Fanin(k) /\ GateVar(k)' = GateVar(k)
  BY <1>1, CircuitKept
<1>7. /\ stored \in [Vars -> Bdds]
      /\ Held(stored) = Held(map) + (IF b.ok THEN 1 ELSE 0)
      /\ \A v \in Vars : stored[v] = IF v = w THEN b ELSE map[v]
  <2>1. stored \in [Vars -> Bdds] /\ \A v \in Vars : stored[v] = IF v = w THEN b ELSE map[v]
    BY <1>0, <1>3
  <2> QED BY <1>0, <1>3, <1>4, <2>1, HeldStore
<1> HIDE DEF stored
<1>8. /\ ok' = b.ok /\ buildPc' = (IF b.ok THEN "build" ELSE "finish")
      /\ map' = Release(stored, uses, uses')
      /\ retained' = retained + (IF b.ok THEN 1 ELSE 0) - Dropped(stored, uses, uses')
      /\ b.ok => b = Bdd(Denotation[2 * w])
  BY <1>2 DEF stored
<1> HIDE DEF w
<1>9. /\ map' \in [Vars -> Bdds] /\ Held(map') = Held(stored) - Dropped(stored, uses, uses')
      /\ Dropped(stored, uses, uses') \in Nat /\ Held(map') \in Nat
      /\ \A v \in Vars : map'[v] = IF uses[v] > 0 /\ uses'[v] = 0 THEN Invalid ELSE stored[v]
  BY <1>0, <1>7, <1>8, ReleaseCounts
<1>10. retained' = Held(map') /\ retained' \in Nat
  BY <1>0, <1>7, <1>8, <1>9
<1>i. ~Invalid.ok /\ \A S : Bdd(S).ok /\ Bdd(S).fn = S
  BY DEF Invalid, Bdd
<1>11. BuildTypeOK'
  <2>1. b.ok \in BOOLEAN /\ hostFailed' = hostFailed /\ hostFailed \in BOOLEAN
    BY DEF Bdds, BuildGate, BuildInv, BuildTypeOK
  <2>2. published' = published /\ roots' = roots /\ i' \in Nat
    BY <1>0, <1>1 DEF BuildGate
  <2> QED
    BY <1>0, <1>1, <1>8, <1>9, <1>10, <1>c, <2>1, <2>2 DEF BuildTypeOK
<1>12. PhaseInv'
  <2>1. published' = << >> /\ Len(published') = 0 /\ roots' = roots
    BY <1>0 DEF BuildGate
  <2>2. i' \in 1..(NumGates' + 1)
    BY <1>1, <1>3, <1>c
  <2>3. KnownUpTo(Len(circuit.lits))'
    BY <1>0, <1>1, <1>c DEF BuildInv, PhaseInv, KnownUpTo
  <2>4. Len(circuit.lits) \in Nat
    BY <1>0, CircuitFacts
  <2>5. \A r \in DOMAIN roots : roots[r] = Invalid
    BY <1>0 DEF BuildInv, PhaseInv
  <2> QED
    BY <1>1, <1>8, <2>1, <2>2, <2>3, <2>4, <2>5 DEF PhaseInv
<1>13. CountInv'
  BY <1>8 DEF CountInv
<1>14. UsesExact'
  <2> SUFFICES ASSUME NEW v \in Vars PROVE uses'[v] = PendingUses(v)'
    BY <1>c DEF UsesExact
  <2>1. PICK n \in Nat : n = i + 1
    BY <1>0
  <2>2. ASSUME NEW k \in n..NumGates PROVE ToBuild(k)' <=> ToBuild(k)
    <3>1. GateVar(k) \in Vars /\ GateVar(k) > w /\ GateVar(k) >= w /\ GateVar(k) # w
      BY <1>0, <1>3, <2>1 DEF GateVar, Vars, MaxVar
    <3>2. uses'[GateVar(k)] = uses[GateVar(k)]
      BY <1>5, <1>6, <3>1
    <3>3. map'[GateVar(k)] = map[GateVar(k)]
      BY <1>6, <1>7, <1>9, <3>1, <3>2
    <3> QED BY <1>c, <3>2, <3>3 DEF ToBuild
  <2>3. PendingUses(v)' = Cardinality(GateReads(n, v)) + Cardinality(RootReads(1, v))
    <3>1. i' = n /\ Len(published') + 1 = 1
      BY <1>0, <1>1, <2>1 DEF BuildGate
    <3> QED BY <1>1, <2>2, <3>1, PendingNext
  <2>4. uses[v] = Cardinality(GateReads(i, v)) + Cardinality(RootReads(1, v))
    <3>1. Len(published) + 1 = 1
      BY <1>0
    <3> QED BY <1>0, <3>1, PendingNow DEF BuildInv, UsesExact
  <2>5. Cardinality(GateReads(i, v)) = Cardinality(GateReads(n, v)) + Edges(i, v)
    BY <1>0, <1>1, <2>1, GateReadsSplit
  <2>6. Cardinality(GateReads(n, v)) \in Nat /\ Cardinality(RootReads(1, v)) \in Nat
    BY <1>0, ReadsFinite
  <2> QED BY <1>6, <2>3, <2>4, <2>5, <2>6
<1>15. HoldInv'
  <2> SUFFICES ASSUME NEW v \in Vars, map'[v].ok PROVE uses'[v] > 0
    BY <1>8, <1>c DEF HoldInv
  <2>1. stored[v].ok /\ ~(uses[v] > 0 /\ uses'[v] = 0)
    BY <1>9, <1>i
  <2>2. CASE v = w
    BY <1>3, <1>4, <1>5, <1>6, <2>2
  <2>3. CASE v # w
    <3>1. map[v].ok
      BY <1>7, <2>1, <2>3
    <3>2. uses[v] > 0
      BY <1>0, <3>1 DEF BuildInv, HoldInv
    <3> QED BY <1>6, <2>1, <3>2
  <2> QED BY <2>2, <2>3
<1>16. HeldWhileNeeded'
  <2>1. ASSUME buildPc' = "build", ~buildGuard'.failed, NEW v \in Vars
        PROVE  map'[v].ok <=> /\ uses'[v] > 0
                              /\ v < GateVar(i + 1) \/ v \in circuit.seeded
    <3>1. b.ok
      BY <1>8, <2>1
    <3>2. map[v].ok <=> uses[v] > 0 /\ (v < w \/ v \in circuit.seeded)
      BY <1>0, <1>1, <2>1 DEF BuildInv, HeldWhileNeeded, w
    <3>3. GateVar(i + 1) = w + 1 /\ v \in Nat /\ w \in Nat
      BY <1>1, <1>3 DEF GateVar
    <3>4. CASE v = w
      <4>1. uses'[v] > 0 /\ map'[v] = b /\ v < w + 1
        BY <1>3, <1>4, <1>5, <1>6, <1>7, <1>9, <3>4
      <4> QED BY <3>1, <3>3, <4>1
    <3>5. CASE v # w
      <4>1. v < w + 1 <=> v < w
        BY <3>3, <3>5
      <4>2. stored[v] = map[v]
        BY <1>7, <3>5
      <4>3. CASE uses[v] > 0 /\ uses'[v] = 0
        BY <1>9, <1>i, <4>3
      <4>4. CASE ~(uses[v] > 0 /\ uses'[v] = 0)
        <5>1. map'[v] = map[v]
          BY <1>9, <4>2, <4>4
        <5>2. uses'[v] > 0 <=> uses[v] > 0
          BY <1>6, <4>4
        <5> QED BY <3>2, <3>3, <4>1, <5>1, <5>2
      <4> QED BY <4>3, <4>4
    <3> QED BY <3>4, <3>5
  <2>2. /\ buildPc' \in {"build", "finish"} /\ GateVar(i)' = GateVar(i + 1)
        /\ circuit'.seeded = circuit.seeded
    BY <1>1, <1>8 DEF GateVar
  <2> QED BY <1>10, <1>c, <2>1, <2>2 DEF HeldWhileNeeded
<1>17. \A v \in Vars : map'[v].ok => map'[v].fn = Denotation[2 * v]
  <2> SUFFICES ASSUME NEW v \in Vars, map'[v].ok PROVE map'[v].fn = Denotation[2 * v]
    OBVIOUS
  <2>1. map'[v] = stored[v]
    BY <1>9, <1>i
  <2>2. CASE v = w
    BY <1>7, <1>8, <1>i, <2>1, <2>2
  <2>3. CASE v # w
    BY <1>7, <2>1, <2>3 DEF BuildInv, ValueInv
  <2> QED BY <2>2, <2>3
<1>18. ValueInv' /\ HandlesCorrect'
  BY <1>8, <1>c, <1>17 DEF ValueInv, HandlesCorrect
<1> QED
  BY <1>11, <1>12, <1>13, <1>14, <1>15, <1>16, <1>18 DEF BuildInv

-----------------------------------------------------------------------------
LEMMA BuildStart ==
  ASSUME BuildInit
  PROVE  BuildInv
<1>1. PICK made \in 0..NumLeaves :
        /\ map = InitialMap(made)
        /\ buildGuard \in IF made = NumLeaves THEN {Guarded!FreshGuard}
                          ELSE Guarded!Outcomes(Guarded!FreshGuard, TRUE)
                                 \ {Guarded!FreshGuard}
  BY DEF BuildInit
<1>2. /\ circuit \in Circuits /\ buildPc = "allocate" /\ ok = TRUE /\ hostFailed = FALSE
      /\ uses = [v \in Vars |-> 0] /\ i = 0 /\ retained = 0 /\ published = << >>
      /\ roots = [r \in 1..Len(circuit.lits) |-> Invalid]
  BY DEF BuildInit
<1>3. Guarded!FreshGuard \in Guarded!Guards
  BY DEF Guarded!FreshGuard, Guarded!Guards, Guarded!FailureKinds
<1>4. buildGuard \in Guarded!Guards /\ (~buildGuard.failed => made = NumLeaves)
  <2>1. CASE made = NumLeaves
    BY <1>1, <1>3, <2>1
  <2>2. CASE made # NumLeaves
    <3>1. buildGuard \in Guarded!Outcomes(Guarded!FreshGuard, TRUE)
          /\ buildGuard # Guarded!FreshGuard
      BY <1>1, <2>2
    <3>2. /\ buildGuard \in Guarded!Guards
          /\ ~buildGuard.failed => buildGuard = Guarded!FreshGuard
      BY <1>3, <3>1, OutcomeFacts
    <3> QED BY <3>1, <3>2
  <2> QED BY <2>1, <2>2
<1>5. Invalid \in Bdds /\ ~Invalid.ok /\ \A S \in SUBSET Assignments :
                                           Bdd(S) \in Bdds /\ Bdd(S).ok /\ Bdd(S).fn = S
  BY DEF Invalid, Bdd, Bdds
<1>6. ASSUME NEW v \in Vars PROVE Denotation[2 * v] \in SUBSET Assignments
  <2>1. 2 * v \in Nat /\ Var(2 * v) <= MaxVar
    <3>1. MaxVar \in Nat
      BY <1>2, CircuitFacts
    <3> QED BY <3>1 DEF Vars, Var
  <2> QED BY <1>2, <2>1, DenotationOfLiteral
<1>7. \A v \in Vars : map[v] = IF v <= made \/ v \in circuit.seeded
                                 THEN Bdd(Denotation[2 * v]) ELSE Invalid
  BY <1>1 DEF InitialMap
<1>8. map \in [Vars -> Bdds]
  <2>1. \A v \in Vars : map[v] \in Bdds
    BY <1>5, <1>6, <1>7
  <2> QED BY <1>1, <2>1 DEF InitialMap
<1>9. /\ \A v \in Vars : map[v].ok => map[v].fn = Denotation[2 * v]
      /\ \A v \in Vars : map[v].ok <=> v <= made \/ v \in circuit.seeded
  BY <1>5, <1>6, <1>7
<1>10. BuildTypeOK
  <2>1. uses \in [Vars -> Nat] /\ published \in Seq(Bdds)
        /\ roots \in [1..Len(circuit.lits) -> Bdds] /\ i \in Nat /\ retained \in Nat
    <3>1. uses \in [Vars -> Nat] /\ i \in Nat /\ retained \in Nat
      BY <1>2
    <3>2. roots \in [1..Len(circuit.lits) -> Bdds] /\ published \in Seq(Bdds)
      BY <1>2, <1>5
    <3> QED BY <3>1, <3>2
  <2>2. ok \in BOOLEAN /\ hostFailed \in BOOLEAN
    BY <1>2, Zenon
  <2> QED BY <1>2, <1>4, <1>8, <2>1, <2>2 DEF BuildTypeOK
<1>11. PhaseInv
  <2>1. Len(circuit.lits) \in Nat /\ Len(published) = 0
    BY <1>2, CircuitFacts
  <2> QED BY <1>2, <2>1 DEF PhaseInv
<1>12. HoldInv
  BY <1>2, <1>4, <1>9 DEF HoldInv
<1> QED
  BY <1>2, <1>9, <1>10, <1>11, <1>12
  DEF BuildInv, CountInv, UsesExact, HeldWhileNeeded, ValueInv, HandlesCorrect

LEMMA AllocateStep ==
  ASSUME BuildInv, Allocate \/ AllocateFails
  PROVE  BuildInv'
<1>1. /\ circuit \in Circuits /\ map \in [Vars -> Bdds] /\ circuit' = circuit
      /\ buildPc = "allocate" /\ map' = map /\ uses' = uses /\ roots' = roots
      /\ published' = published
  BY DEF BuildInv, BuildTypeOK, Allocate, AllocateFails
<1>c. /\ NumGates' = NumGates /\ MaxVar' = MaxVar /\ Vars' = Vars
      /\ Denotation' = Denotation
  BY <1>1, CircuitKept
<1>2. Held(map) \in Nat
  BY <1>1, HeldFinite
<1>3. CASE Allocate
  <2>1. BuildTypeOK'
    BY <1>1, <1>2, <1>3, <1>c DEF BuildInv, BuildTypeOK, Allocate
  <2>2. PhaseInv'
    BY <1>1, <1>3, <1>c DEF BuildInv, PhaseInv, Allocate
  <2>3. HoldInv'
    BY <1>1, <1>3, <1>c DEF BuildInv, HoldInv, Allocate
  <2> QED
    BY <1>1, <1>3, <1>c, <2>1, <2>2, <2>3
    DEF BuildInv, CountInv, UsesExact, HeldWhileNeeded, ValueInv, HandlesCorrect, Allocate
<1>4. CASE AllocateFails
  <2>1. Guarded!RecordFailure(buildGuard, "HOST") \in Guarded!Guards
    BY DEF BuildInv, BuildTypeOK, Guarded!RecordFailure, Guarded!Guards,
           Guarded!FailureKinds
  <2>2. BuildTypeOK'
    BY <1>1, <1>4, <1>c, <2>1 DEF BuildInv, BuildTypeOK, AllocateFails
  <2>3. PhaseInv'
    BY <1>1, <1>4, <1>c DEF BuildInv, PhaseInv, AllocateFails
  <2> QED
    BY <1>1, <1>4, <1>c, <2>2, <2>3
    DEF BuildInv, PhaseInv, CountInv, HoldInv, UsesExact, HeldWhileNeeded, ValueInv,
        HandlesCorrect, AllocateFails
<1> QED BY <1>3, <1>4

LEMMA CountRootsStep ==
  ASSUME BuildInv, CountRoots
  PROVE  BuildInv'
<1>1. /\ circuit \in Circuits /\ map \in [Vars -> Bdds] /\ circuit' = circuit
      /\ buildPc = "roots" /\ map' = map /\ roots' = roots /\ published' = published
      /\ buildPc' = "count" /\ i' = NumGates
  BY DEF BuildInv, BuildTypeOK, CountRoots
<1>c. /\ NumGates' = NumGates /\ MaxVar' = MaxVar /\ Vars' = Vars
      /\ Denotation' = Denotation
  BY <1>1, CircuitKept
<1>2. /\ NumGates \in Nat /\ Len(circuit.lits) \in Nat
  BY <1>1, CircuitFacts
<1> DEFINE reads(v) == {r \in 1..Len(circuit.lits) :
                          KnownUpTo(r) /\ Var(circuit.lits[r]) = v}
<1>3. \A v : reads(v) \subseteq RootReads(1, v)
  BY DEF RootReads
<1>4. \A v : IsFiniteSet(RootReads(1, v))
  BY <1>1, ReadsFinite
<1>5. \A v : Cardinality(reads(v)) \in Nat
  <2> HIDE DEF reads
  <2> QED BY <1>3, <1>4, FS_Subset, FS_CardinalityType
<1>6. uses' = [v \in Vars |-> Cardinality(reads(v))] /\ ok' = KnownUpTo(Len(circuit.lits))
  BY DEF CountRoots
<1>7. KnownUpTo(Len(circuit.lits)) => \A v : reads(v) = RootReads(1, v)
  BY <1>2 DEF KnownUpTo, RootReads
<1> HIDE DEF reads
<1>8. BuildTypeOK'
  <2>1. ok' \in BOOLEAN
    BY <1>6 DEF KnownUpTo
  <2>2. uses' \in [Vars -> Nat]
    BY <1>5, <1>6
  <2> QED BY <1>1, <1>2, <1>c, <2>1, <2>2 DEF BuildInv, BuildTypeOK, CountRoots
<1>9. PhaseInv'
  <2>1. ok' => KnownUpTo(Len(circuit.lits))'
    BY <1>1, <1>6, <1>c DEF KnownUpTo
  <2> QED BY <1>1, <1>2, <1>c, <2>1 DEF BuildInv, PhaseInv
<1>10. CountInv'
  <2> SUFFICES ASSUME ok', NEW v \in Vars
               PROVE  uses'[v] = Cardinality(GateReads(i + 1, v)') + Cardinality(RootReads(1, v)')
    BY <1>c DEF CountInv
  <2>1. RootReads(1, v)' = RootReads(1, v)
    BY <1>1 DEF RootReads
  <2>2. GateReads(i + 1, v)' = {}
    <3>1. (i + 1)'..NumGates' = {}
      BY <1>1, <1>2, <1>c
    <3> QED BY <3>1 DEF GateReads
  <2>3. uses'[v] = Cardinality(RootReads(1, v))
    BY <1>6, <1>7
  <2>4. Cardinality(RootReads(1, v)) \in Nat
    BY <1>4, FS_CardinalityType
  <2>5. Cardinality({}) = 0
    BY FS_EmptySet
  <2> QED BY <2>1, <2>2, <2>3, <2>4, <2>5
<1>11. HoldInv'
  BY <1>1, <1>c DEF BuildInv, HoldInv, CountRoots
<1> QED
  BY <1>1, <1>c, <1>8, <1>9, <1>10, <1>11
  DEF BuildInv, UsesExact, HeldWhileNeeded, ValueInv, HandlesCorrect

LEMMA CountGateStep ==
  ASSUME BuildInv, CountGate
  PROVE  BuildInv'
<1>1. /\ circuit \in Circuits /\ circuit' = circuit /\ buildPc = "count" /\ buildPc' = buildPc
      /\ ok /\ ok' = ok /\ i \in Nat /\ i > 0 /\ i <= NumGates /\ i' = i - 1
      /\ map' = map /\ roots' = roots /\ published' = published /\ uses \in [Vars -> Nat]
      /\ uses' = IF ToBuild(i) THEN [v \in Vars |-> uses[v] + Edges(i, v)] ELSE uses
  BY DEF BuildInv, BuildTypeOK, PhaseInv, CountGate
<1>c. /\ NumGates' = NumGates /\ MaxVar' = MaxVar /\ Vars' = Vars
      /\ Denotation' = Denotation
      /\ \A k : Fanin(k)' = Fanin(k) /\ GateVar(k)' = GateVar(k)
  BY <1>1, CircuitKept
<1>2. NumGates \in Nat /\ NumLeaves \in Nat /\ MaxVar = NumLeaves + NumGates
  BY <1>1, CircuitFacts
<1>3. i \in 1..NumGates /\ i' \in Nat /\ i' <= NumGates
  BY <1>1, <1>2
<1>4. \A v \in Vars : /\ Edges(i, v) \in Nat /\ uses[v] \in Nat
                      /\ uses'[v] = uses[v] + (IF ToBuild(i) THEN Edges(i, v) ELSE 0)
  <2> SUFFICES ASSUME NEW v \in Vars
               PROVE  /\ Edges(i, v) \in Nat /\ uses[v] \in Nat
                      /\ uses'[v] = uses[v] + (IF ToBuild(i) THEN Edges(i, v) ELSE 0)
    OBVIOUS
  <2>1. Edges(i, v) \in Nat /\ uses[v] \in Nat
    BY <1>1 DEF Edges
  <2>2. CASE ToBuild(i)
    BY <1>1, <2>1, <2>2
  <2>3. CASE ~ToBuild(i)
    BY <1>1, <2>1, <2>3
  <2> QED BY <2>1, <2>2, <2>3
<1>5. uses' \in [Vars -> Nat]
  <2>1. CASE ToBuild(i)
    BY <1>1, <1>4, <2>1
  <2>2. CASE ~ToBuild(i)
    BY <1>1, <2>2
  <2> QED BY <2>1, <2>2
<1>6. BuildTypeOK'
  BY <1>1, <1>3, <1>5, <1>c DEF BuildInv, BuildTypeOK, CountGate
<1>7. PhaseInv'
  <2>1. KnownUpTo(Len(circuit.lits))'
    BY <1>1, <1>c DEF BuildInv, PhaseInv, KnownUpTo
  <2> QED BY <1>1, <1>3, <1>c, <2>1 DEF BuildInv, PhaseInv
<1>8. CountInv'
  <2>1. PICK n \in Nat : n = i
    BY <1>1
  <2> SUFFICES ASSUME NEW v \in Vars
               PROVE  uses'[v] = Cardinality(GateReads(i + 1, v)') + Cardinality(RootReads(1, v)')
    BY <1>c DEF CountInv
  <2>2. ASSUME NEW k \in n..NumGates PROVE ToBuild(k)' <=> ToBuild(k)
    <3>1. GateVar(k) \in Vars /\ GateVar(k) >= GateVar(i)
      BY <1>2, <1>3, <2>1 DEF GateVar, Vars
    <3>2. Edges(i, GateVar(k)) = 0
      BY <1>1, <1>3, <3>1, EdgesBelow
    <3>3. uses'[GateVar(k)] = uses[GateVar(k)]
      BY <1>4, <3>1, <3>2
    <3> QED BY <1>1, <1>c, <3>3 DEF ToBuild
  <2>3. GateReads(n, v)' = GateReads(n, v) /\ RootReads(1, v)' = RootReads(1, v)
    BY <1>1, <2>2, ReadsKept
  <2>4. GateReads(i + 1, v)' = GateReads(n, v)'
    <3>1. (i + 1)' = n
      BY <1>1, <2>1
    <3> QED BY <3>1 DEF GateReads
  <2>5. Cardinality(GateReads(n, v)) =
          Cardinality(GateReads(n + 1, v)) + (IF ToBuild(i) THEN Edges(i, v) ELSE 0)
    BY <1>1, <1>3, <2>1, GateReadsSplit
  <2>6. uses[v] = Cardinality(GateReads(n + 1, v)) + Cardinality(RootReads(1, v))
    BY <1>1, <2>1 DEF BuildInv, CountInv
  <2>7. /\ Cardinality(GateReads(n + 1, v)) \in Nat /\ Cardinality(RootReads(1, v)) \in Nat
        /\ Cardinality(GateReads(n, v)) \in Nat
    BY <1>1, ReadsFinite
  <2> QED BY <1>4, <2>3, <2>4, <2>5, <2>6, <2>7
<1>9. HoldInv'
  BY <1>1, <1>c DEF BuildInv, HoldInv, CountGate
<1> QED
  BY <1>1, <1>c, <1>6, <1>7, <1>8, <1>9
  DEF BuildInv, UsesExact, HeldWhileNeeded, ValueInv, HandlesCorrect

LEMMA ReleaseUnusedStep ==
  ASSUME BuildInv, ReleaseUnused
  PROVE  BuildInv'
<1>1. /\ circuit \in Circuits /\ circuit' = circuit /\ buildPc = "count"
      /\ buildPc' = (IF ok' THEN "build" ELSE "finish") /\ i' = 1
      /\ roots' = roots /\ published' = published /\ uses \in [Vars -> Nat] /\ uses' = uses
      /\ map \in [Vars -> Bdds] /\ retained = Held(map) /\ buildGuard' = buildGuard
      /\ published = << >>
  BY DEF BuildInv, BuildTypeOK, PhaseInv, HoldInv, ReleaseUnused
<1>2. /\ map' = [v \in Vars |-> IF uses[v] = 0 THEN Invalid ELSE map[v]]
      /\ retained' = retained - Cardinality({v \in Vars : uses[v] = 0 /\ map[v].ok})
  BY DEF ReleaseUnused
<1>21. (ok' => ok /\ i = 0) /\ ok' \in BOOLEAN /\ hostFailed' \in BOOLEAN
  <2>1. ok \in BOOLEAN /\ hostFailed \in BOOLEAN
    BY DEF BuildInv, BuildTypeOK
  <2>2. (i = 0 \/ ~ok) /\ ((ok' = ok /\ hostFailed' = hostFailed) \/ (ok' = FALSE /\ hostFailed' = TRUE))
    BY DEF ReleaseUnused
  <2>3. CASE ok' = ok /\ hostFailed' = hostFailed
    BY <2>1, <2>2, <2>3
  <2>4. CASE ok' = FALSE /\ hostFailed' = TRUE
    BY <2>4
  <2> QED BY <2>2, <2>3, <2>4
<1>c. /\ NumGates' = NumGates /\ MaxVar' = MaxVar /\ Vars' = Vars
      /\ Denotation' = Denotation
      /\ \A k : Fanin(k)' = Fanin(k) /\ GateVar(k)' = GateVar(k)
  BY <1>1, CircuitKept
<1>3. NumGates \in Nat /\ NumLeaves \in Nat /\ MaxVar = NumLeaves + NumGates
  BY <1>1, CircuitFacts
<1>4. map' \in [Vars -> Bdds] /\ retained' = Held(map') /\ retained' \in Nat
  <2> DEFINE D == {v \in Vars : uses[v] = 0}
             kept == [v \in Vars |-> IF v \in D THEN Invalid ELSE map[v]]
  <2>1. kept \in [Vars -> Bdds]
        /\ Held(kept) = Held(map) - Cardinality({v \in Vars : v \in D /\ map[v].ok})
    <3> HIDE DEF D
    <3> QED BY <1>1, HeldDrop
  <2>2. map' = kept
    BY <1>2, Zenon
  <2>3. {v \in Vars : v \in D /\ map[v].ok} = {v \in Vars : uses[v] = 0 /\ map[v].ok}
    BY Zenon
  <2> HIDE DEF D, kept
  <2>4. Held(kept) \in Nat
    BY <1>1, <2>1, HeldFinite
  <2> QED BY <1>1, <1>2, <2>1, <2>2, <2>3, <2>4
<1>5. \A v \in Vars : /\ map'[v] = (IF uses[v] = 0 THEN Invalid ELSE map[v])
                      /\ uses[v] \in Nat /\ v \in Nat
  BY <1>1, <1>2 DEF Vars
<1>i. ~Invalid.ok
  BY DEF Invalid
<1>6. BuildTypeOK'
  BY <1>1, <1>21, <1>4, <1>c DEF BuildInv, BuildTypeOK
<1>7. PhaseInv'
  <2>1. ok' => KnownUpTo(Len(circuit.lits))'
    BY <1>1, <1>21, <1>c DEF BuildInv, PhaseInv, KnownUpTo
  <2>2. i' \in 1..(NumGates' + 1)
    BY <1>1, <1>3, <1>c
  <2> QED BY <1>1, <1>c, <2>1, <2>2 DEF BuildInv, PhaseInv
<1>8. UsesExact'
  <2> SUFFICES ASSUME ok', NEW v \in Vars PROVE uses'[v] = PendingUses(v)'
    BY <1>1, <1>c DEF UsesExact
  <2>1. ASSUME NEW k \in 1..NumGates PROVE ToBuild(k)' <=> ToBuild(k)
    <3>1. GateVar(k) \in Vars
      BY <1>1, CircuitFacts
    <3> QED BY <1>1, <1>5, <1>c, <3>1 DEF ToBuild
  <2>2. PendingUses(v)' = Cardinality(GateReads(1, v)) + Cardinality(RootReads(1, v))
    <3>1. Len(published') + 1 = 1
      BY <1>1
    <3> QED BY <1>1, <2>1, <3>1, PendingNext
  <2>3. uses[v] = Cardinality(GateReads(1, v)) + Cardinality(RootReads(1, v))
    <3>1. i + 1 = 1
      BY <1>21
    <3> QED BY <1>1, <1>21, <3>1 DEF BuildInv, CountInv
  <2> QED BY <1>1, <2>2, <2>3
<1>9. HoldInv'
  BY <1>1, <1>5, <1>i, <1>c DEF HoldInv
<1>10. HeldWhileNeeded'
  <2>1. ASSUME buildPc' = "build", ~buildGuard'.failed, NEW v \in Vars
        PROVE  map'[v].ok <=> uses'[v] > 0 /\ (v < GateVar(1) \/ v \in circuit.seeded)
    <3>1. map[v].ok <=> v <= NumLeaves \/ v \in circuit.seeded
      BY <1>1, <2>1 DEF BuildInv, HoldInv
    <3>2. v < GateVar(1) <=> v <= NumLeaves
      BY <1>3, <1>5 DEF GateVar
    <3>3. CASE uses[v] = 0
      BY <1>1, <1>5, <1>i, <3>3
    <3>4. CASE uses[v] # 0
      <4>1. uses'[v] > 0 /\ map'[v] = map[v]
        BY <1>1, <1>5, <3>4
      <4> QED BY <3>1, <3>2, <4>1
    <3> QED BY <3>3, <3>4
  <2>2. GateVar(i)' = GateVar(1) /\ circuit'.seeded = circuit.seeded
        /\ buildPc' \in {"build", "finish"}
    BY <1>1 DEF GateVar
  <2> QED BY <1>4, <1>c, <2>1, <2>2 DEF HeldWhileNeeded
<1>11. \A v \in Vars : map'[v].ok => map'[v].fn = Denotation[2 * v]
  BY <1>5, <1>i DEF BuildInv, ValueInv
<1> QED
  BY <1>1, <1>c, <1>6, <1>7, <1>8, <1>9, <1>10, <1>11
  DEF BuildInv, CountInv, ValueInv, HandlesCorrect

LEMMA SkipGateStep ==
  ASSUME BuildInv, SkipGate
  PROVE  BuildInv'
<1>1. /\ circuit \in Circuits /\ circuit' = circuit /\ buildPc = "build" /\ buildPc' = buildPc
      /\ ok /\ ok' = ok /\ i \in Nat /\ i \in 1..(NumGates + 1) /\ i <= NumGates /\ i' = i + 1
      /\ map' = map /\ roots' = roots /\ published' = published /\ uses' = uses
      /\ uses \in [Vars -> Nat] /\ published = << >> /\ ~ToBuild(i)
      /\ buildGuard' = buildGuard /\ retained' = retained
  BY DEF BuildInv, BuildTypeOK, PhaseInv, SkipGate
<1>c. /\ NumGates' = NumGates /\ MaxVar' = MaxVar /\ Vars' = Vars
      /\ Denotation' = Denotation
      /\ \A k : Fanin(k)' = Fanin(k) /\ GateVar(k)' = GateVar(k)
  BY <1>1, CircuitKept
<1>2. NumGates \in Nat /\ NumLeaves \in Nat /\ MaxVar = NumLeaves + NumGates
  BY <1>1, CircuitFacts
<1>3. i \in 1..NumGates /\ i' \in 1..(NumGates + 1) /\ i' \in Nat
  BY <1>1, <1>2
<1>4. BuildTypeOK'
  BY <1>1, <1>3, <1>c DEF BuildInv, BuildTypeOK, SkipGate
<1>5. PhaseInv'
  <2>1. KnownUpTo(Len(circuit.lits))'
    BY <1>1, <1>c DEF BuildInv, PhaseInv, KnownUpTo
  <2> QED BY <1>1, <1>3, <1>c, <2>1 DEF BuildInv, PhaseInv
<1>6. UsesExact'
  <2> SUFFICES ASSUME NEW v \in Vars PROVE uses'[v] = PendingUses(v)'
    BY <1>c DEF UsesExact
  <2>1. PICK n \in Nat : n = i + 1
    BY <1>1
  <2>2. \A k \in n..NumGates : ToBuild(k)' <=> ToBuild(k)
    BY <1>1, <1>c DEF ToBuild
  <2>3. Len(published') + 1 = 1 /\ Len(published) + 1 = 1 /\ i' = n
    BY <1>1, <2>1
  <2>4. PendingUses(v)' = Cardinality(GateReads(n, v)) + Cardinality(RootReads(1, v))
    BY <1>1, <2>2, <2>3, PendingNext
  <2>5. uses[v] = Cardinality(GateReads(i, v)) + Cardinality(RootReads(1, v))
    BY <1>1, <2>3, PendingNow DEF BuildInv, UsesExact
  <2>6. Cardinality(GateReads(i, v)) = Cardinality(GateReads(n, v)) + 0
    BY <1>1, <1>3, <2>1, GateReadsSplit
  <2>7. Cardinality(GateReads(n, v)) \in Nat
    BY <1>1, ReadsFinite
  <2> QED BY <1>1, <2>4, <2>5, <2>6, <2>7
<1>7. HoldInv'
  BY <1>1, <1>c DEF BuildInv, HoldInv
<1>8. HeldWhileNeeded'
  <2>1. ASSUME ~buildGuard'.failed, NEW v \in Vars
        PROVE  map'[v].ok <=> uses'[v] > 0 /\ (v < GateVar(i + 1) \/ v \in circuit.seeded)
    <3>1. map[v].ok <=> uses[v] > 0 /\ (v < GateVar(i) \/ v \in circuit.seeded)
      BY <1>1, <2>1 DEF BuildInv, HeldWhileNeeded
    <3>2. GateVar(i + 1) = GateVar(i) + 1 /\ v \in Nat /\ GateVar(i) \in Nat /\ uses[v] \in Nat
      BY <1>1, <1>2 DEF GateVar, Vars
    <3>3. CASE v = GateVar(i)
      <4>1. uses[v] = 0 \/ map[v].ok
        BY <1>1, <3>3 DEF ToBuild
      <4>2. v < GateVar(i + 1)
        BY <3>2, <3>3
      <4>3. uses[v] = 0 => ~(uses[v] > 0)
        BY <3>2
      <4> QED BY <1>1, <3>1, <4>1, <4>2, <4>3, Zenon
    <3>4. CASE v # GateVar(i)
      <4>1. v < GateVar(i + 1) <=> v < GateVar(i)
        BY <3>2, <3>4
      <4> QED BY <1>1, <3>1, <4>1, Zenon
    <3> QED BY <3>3, <3>4
  <2>2. GateVar(i)' = GateVar(i + 1) /\ circuit'.seeded = circuit.seeded
    BY <1>1 DEF GateVar
  <2>3. retained' = Held(map')
    BY <1>1 DEF BuildInv, HeldWhileNeeded
  <2> QED BY <1>1, <1>c, <2>1, <2>2, <2>3 DEF HeldWhileNeeded
<1> QED
  BY <1>1, <1>c, <1>4, <1>5, <1>6, <1>7, <1>8
  DEF BuildInv, CountInv, ValueInv, HandlesCorrect

LEMMA AllBuiltStep ==
  ASSUME BuildInv, AllBuilt
  PROVE  BuildInv'
<1>1. /\ circuit \in Circuits /\ circuit' = circuit /\ buildPc = "build" /\ buildPc' = "publish"
      /\ ok' = ok /\ i \in Nat /\ i \in 1..(NumGates + 1) /\ i > NumGates /\ i' = i
      /\ map' = map /\ roots' = roots /\ published' = published /\ uses' = uses
      /\ published = << >> /\ buildGuard' = buildGuard /\ retained' = retained
  BY DEF BuildInv, BuildTypeOK, PhaseInv, AllBuilt
<1>c. /\ NumGates' = NumGates /\ MaxVar' = MaxVar /\ Vars' = Vars
      /\ Denotation' = Denotation
      /\ \A k : Fanin(k)' = Fanin(k) /\ GateVar(k)' = GateVar(k)
  BY <1>1, CircuitKept
<1>2. i = NumGates + 1
  <2>1. NumGates \in Nat
    BY <1>1, CircuitFacts
  <2> QED BY <1>1, <2>1
<1>3. BuildTypeOK'
  BY <1>1, <1>c DEF BuildInv, BuildTypeOK, AllBuilt
<1>4. PhaseInv'
  <2>1. KnownUpTo(Len(circuit.lits))'
    BY <1>1, <1>c DEF BuildInv, PhaseInv, KnownUpTo
  <2> QED BY <1>1, <1>2, <1>c, <2>1 DEF BuildInv, PhaseInv
<1>5. UsesExact'
  BY <1>1, <1>c DEF BuildInv, UsesExact, PendingUses, ToBuild
<1>6. HoldInv' /\ HeldWhileNeeded'
  BY <1>1, <1>c DEF BuildInv, HoldInv, HeldWhileNeeded
<1>7. ValueInv'
  <2>1. 1..Len(published') = {}
    BY <1>1
  <2> QED BY <1>1, <1>c, <2>1 DEF BuildInv, ValueInv
<1> QED
  BY <1>1, <1>c, <1>3, <1>4, <1>5, <1>6, <1>7 DEF BuildInv, CountInv, ValueInv, HandlesCorrect

LEMMA PublishRootStep ==
  ASSUME BuildInv, PublishRoot
  PROVE  BuildInv'
<1>1. /\ circuit \in Circuits /\ circuit' = circuit /\ buildPc = "publish" /\ buildPc' = buildPc
      /\ ok /\ i \in Nat /\ i = NumGates + 1 /\ i' = i
      /\ map \in [Vars -> Bdds] /\ uses \in [Vars -> Nat] /\ buildGuard \in Guarded!Guards
      /\ \A v \in Vars : map[v].ok => map[v].fn = Denotation[2 * v]
      /\ published \in Seq(Bdds) /\ roots' = roots /\ retained = Held(map)
      /\ Len(published) < Len(circuit.lits) /\ KnownUpTo(Len(circuit.lits))
  BY DEF BuildInv, BuildTypeOK, PhaseInv, HeldWhileNeeded, ValueInv, PublishRoot
<1>c. /\ NumGates' = NumGates /\ MaxVar' = MaxVar /\ Vars' = Vars
      /\ Denotation' = Denotation
      /\ \A k : Fanin(k)' = Fanin(k) /\ GateVar(k)' = GateVar(k)
  BY <1>1, CircuitKept
<1>2. PICK n \in Nat : n = Len(published)
  BY <1>1
<1>3. /\ NumGates \in Nat /\ Len(circuit.lits) \in Nat /\ n + 1 \in 1..Len(circuit.lits)
      /\ circuit.lits \in Seq(Nat) /\ n + 1 \in Nat /\ n + 2 \in Nat
  <2>1. NumGates \in Nat /\ circuit.lits \in Seq(Nat)
    BY <1>1, CircuitFacts
  <2> QED BY <1>1, <1>2, <2>1
<1> DEFINE lit == circuit.lits[n + 1]
<1>4. lit \in Nat /\ Var(lit) <= MaxVar
  BY <1>1, <1>3 DEF KnownUpTo
<1>5. PICK g \in LiteralGuards(buildGuard, lit) :
        /\ buildGuard' = g
        /\ published' = Append(published, LiteralValue(g, lit))
        /\ ok' = LiteralValue(g, lit).ok
        /\ uses' = Consumed(uses, lit)
        /\ map' = Release(map, uses, Consumed(uses, lit))
        /\ retained' = retained - Dropped(map, uses, Consumed(uses, lit))
  BY <1>2 DEF PublishRoot
<1> DEFINE b == LiteralValue(g, lit)
<1> HIDE DEF lit
<1>6. /\ g \in Guarded!Guards /\ (buildGuard.failed => g.failed)
      /\ b \in Bdds /\ (b.ok => b = Bdd(Denotation[lit]))
  BY <1>1, <1>4, LiteralRight
<1> HIDE DEF b
<1>7. \A v \in Vars :
        /\ uses[v] = Cardinality(RootReads(n + 2, v)) + (IF Var(lit) = v THEN 1 ELSE 0)
        /\ Cardinality(RootReads(n + 2, v)) \in Nat
  <2> SUFFICES ASSUME NEW v \in Vars
               PROVE  /\ uses[v] = Cardinality(RootReads(n + 2, v)) + (IF Var(lit) = v THEN 1 ELSE 0)
                      /\ Cardinality(RootReads(n + 2, v)) \in Nat
    OBVIOUS
  <2>1. uses[v] = Cardinality(GateReads(i, v)) + Cardinality(RootReads(n + 1, v))
    BY <1>1, <1>2, PendingNow DEF BuildInv, UsesExact
  <2>2. GateReads(i, v) = {}
    BY <1>1, <1>3 DEF GateReads
  <2>3. Cardinality({}) = 0
    BY FS_EmptySet
  <2>4. Cardinality(RootReads(n + 1, v)) =
          Cardinality(RootReads(n + 1 + 1, v)) + (IF Var(lit) = v THEN 1 ELSE 0)
    BY <1>1, <1>3, RootReadsSplit DEF lit
  <2>5. n + 1 + 1 = n + 2
    OBVIOUS
  <2>6. Cardinality(RootReads(n + 2, v)) \in Nat
    BY <1>1, <1>3, ReadsFinite
  <2> QED BY <2>1, <2>2, <2>3, <2>4, <2>5, <2>6
<1>8. /\ uses' = [v \in Vars |-> uses[v] - (IF Var(lit) = v THEN 1 ELSE 0)]
      /\ uses' \in [Vars -> Nat]
  <2>1. Var(lit) # 0 => Var(lit) \in Vars
    <3>1. MaxVar \in Nat /\ Var(lit) \in Nat
      BY <1>1, <1>4, CircuitFacts, VarFacts
    <3> QED BY <1>4, <3>1 DEF Vars
  <2>2. Var(lit) # 0 => uses[Var(lit)] > 0
    BY <1>7, <2>1
  <2> QED BY <1>1, <1>4, <1>5, <2>2, ConsumedOnce
<1>9. \A v \in Vars : /\ uses'[v] = Cardinality(RootReads(n + 2, v))
                      /\ uses[v] \in Nat /\ uses'[v] \in Nat /\ uses'[v] <= uses[v]
  BY <1>1, <1>7, <1>8
<1>10. /\ map' \in [Vars -> Bdds] /\ Held(map') = Held(map) - Dropped(map, uses, uses')
       /\ Dropped(map, uses, uses') \in Nat /\ Held(map') \in Nat
       /\ \A v \in Vars : map'[v] = IF uses[v] > 0 /\ uses'[v] = 0 THEN Invalid ELSE map[v]
  BY <1>1, <1>5, ReleaseCounts
<1>11. retained' = Held(map') /\ retained' \in Nat
  BY <1>1, <1>5, <1>10
<1>i. ~Invalid.ok
  BY DEF Invalid
<1>12. /\ published' \in Seq(Bdds) /\ Len(published') = n + 1
       /\ \A r \in 1..n : published'[r] = published[r]
       /\ published'[n + 1] = b
  BY <1>1, <1>2, <1>5, <1>6 DEF b
<1>13. ok' = b.ok /\ buildGuard' = g
  BY <1>5 DEF b
<1>14. BuildTypeOK'
  <2>1. ok' \in BOOLEAN
    BY <1>6, <1>13 DEF Bdds
  <2>2. hostFailed' = hostFailed /\ hostFailed \in BOOLEAN
    BY DEF PublishRoot, BuildInv, BuildTypeOK
  <2> QED BY <1>1, <1>6, <1>8, <1>10, <1>11, <1>12, <1>13, <1>c, <2>1, <2>2
          DEF BuildInv, BuildTypeOK
<1>15. PhaseInv'
  <2>1. KnownUpTo(Len(circuit.lits))'
    BY <1>1, <1>c DEF KnownUpTo
  <2>2. Len(published') <= Len(circuit.lits)
    BY <1>3, <1>12
  <2> QED BY <1>1, <1>c, <2>1, <2>2 DEF BuildInv, PhaseInv
<1>16. UsesExact'
  <2> SUFFICES ASSUME NEW v \in Vars PROVE uses'[v] = PendingUses(v)'
    BY <1>c DEF UsesExact
  <2>1. PICK j \in Nat : j = i
    BY <1>1
  <2>2. Len(published') + 1 = n + 2 /\ i' = j /\ j..NumGates = {}
    BY <1>1, <1>3, <1>12, <2>1
  <2>3. PendingUses(v)' = Cardinality(GateReads(j, v)) + Cardinality(RootReads(n + 2, v))
    BY <1>1, <2>2, PendingNext
  <2>4. GateReads(j, v) = {} /\ Cardinality({}) = 0
    BY <2>2, FS_EmptySet DEF GateReads
  <2> QED BY <1>9, <2>3, <2>4
<1>17. HoldInv'
  <2> SUFFICES ASSUME NEW v \in Vars, map'[v].ok PROVE uses'[v] > 0
    BY <1>1, <1>c DEF HoldInv
  <2>1. map[v].ok /\ ~(uses[v] > 0 /\ uses'[v] = 0)
    BY <1>10, <1>i
  <2>2. uses[v] > 0
    BY <1>1, <2>1 DEF BuildInv, HoldInv
  <2> QED BY <1>9, <2>1, <2>2
<1>18. HeldWhileNeeded'
  <2>1. ASSUME ~buildGuard'.failed, NEW v \in Vars
        PROVE  map'[v].ok <=> uses'[v] > 0 /\ (v < GateVar(i) \/ v \in circuit.seeded)
    <3>1. map[v].ok <=> uses[v] > 0 /\ (v < GateVar(i) \/ v \in circuit.seeded)
      BY <1>1, <1>6, <1>13, <2>1 DEF BuildInv, HeldWhileNeeded
    <3>2. CASE uses[v] > 0 /\ uses'[v] = 0
      BY <1>9, <1>10, <1>i, <3>2
    <3>3. CASE ~(uses[v] > 0 /\ uses'[v] = 0)
      <4>1. map'[v] = map[v]
        BY <1>10, <3>3
      <4>2. uses'[v] > 0 <=> uses[v] > 0
        BY <1>9, <3>3
      <4> QED BY <3>1, <4>1, <4>2
    <3> QED BY <3>2, <3>3
  <2>2. GateVar(i)' = GateVar(i) /\ circuit'.seeded = circuit.seeded
    BY <1>1 DEF GateVar
  <2> QED BY <1>1, <1>11, <1>c, <2>1, <2>2 DEF HeldWhileNeeded
<1>19. \A v \in Vars : map'[v].ok => map'[v].fn = Denotation[2 * v]
  BY <1>1, <1>10, <1>i
<1>20. ASSUME ok', NEW r \in 1..Len(published')
       PROVE  published'[r] = Bdd(Denotation[circuit.lits[r]])
  <2>1. CASE r = n + 1
    BY <1>6, <1>12, <1>13, <1>20, <2>1 DEF lit
  <2>2. CASE r # n + 1
    <3>1. r \in 1..n
      BY <1>12, <2>2
    <3>2. published[r] = Bdd(Denotation[circuit.lits[r]])
      BY <1>1, <1>2, <3>1 DEF BuildInv, ValueInv
    <3> QED BY <1>12, <3>1, <3>2
  <2> QED BY <2>1, <2>2
<1>21. ValueInv'
  BY <1>1, <1>c, <1>19, <1>20 DEF ValueInv
<1> QED
  BY <1>1, <1>c, <1>14, <1>15, <1>16, <1>17, <1>18, <1>19, <1>21
  DEF BuildInv, CountInv, HandlesCorrect

LEMMA FinishStep ==
  ASSUME BuildInv, Finish
  PROVE  BuildInv'
<1>1. /\ circuit \in Circuits /\ circuit' = circuit /\ buildPc' = "done" /\ ok' = ok
      /\ map \in [Vars -> Bdds] /\ map' = map /\ uses \in [Vars -> Nat] /\ uses' = uses
      /\ retained' = retained /\ published' = << >> /\ published \in Seq(Bdds)
      /\ buildPc \in {"publish", "finish"} /\ i' = i
      /\ buildPc = "publish" => ~ok \/ Len(published) = Len(circuit.lits)
      /\ buildPc = "finish" => ~ok
      /\ roots' = IF ok THEN published ELSE roots
  BY DEF BuildInv, BuildTypeOK, PhaseInv, Finish
<1>c. /\ NumGates' = NumGates /\ MaxVar' = MaxVar /\ Vars' = Vars
      /\ Denotation' = Denotation
  BY <1>1, CircuitKept
<1>2. Len(circuit.lits) \in Nat /\ NumGates \in Nat
  BY <1>1, CircuitFacts
<1>3. roots' \in [1..Len(circuit.lits) -> Bdds]
  <2>1. CASE ok
    <3>1. roots' = published /\ Len(published) = Len(circuit.lits)
      BY <1>1, <2>1
    <3> QED BY <1>1, <3>1
  <2>2. CASE ~ok
    BY <1>1, <2>2 DEF BuildInv, BuildTypeOK
  <2> QED BY <2>1, <2>2
<1>4. BuildTypeOK'
  <2>1. published' \in Seq(Bdds)
    BY <1>1
  <2> QED BY <1>1, <1>3, <1>c, <2>1 DEF BuildInv, BuildTypeOK, Finish
<1>5. PhaseInv'
  <2>1. Len(published') = 0 /\ published' = << >>
    BY <1>1
  <2> QED BY <1>1, <1>2, <2>1 DEF PhaseInv
<1>6. ASSUME ok
      PROVE  /\ \A r \in DOMAIN roots' : roots'[r] = Bdd(Denotation[circuit.lits[r]])
             /\ retained = 0 /\ \A v \in Vars : ~map[v].ok
  <2>1. /\ buildPc = "publish" /\ Len(published) = Len(circuit.lits) /\ roots' = published
        /\ i = NumGates + 1
    BY <1>1, <1>6 DEF BuildInv, PhaseInv
  <2>2. \A r \in DOMAIN roots' : roots'[r] = Bdd(Denotation[circuit.lits[r]])
    <3>1. DOMAIN roots' = 1..Len(published)
      BY <1>1, <2>1
    <3> QED BY <1>6, <2>1, <3>1 DEF BuildInv, ValueInv
  <2>3. ASSUME NEW v \in Vars PROVE ~map[v].ok
    <3>1. uses[v] = Cardinality(GateReads(i, v)) + Cardinality(RootReads(Len(published) + 1, v))
      BY <2>1, PendingNow DEF BuildInv, UsesExact
    <3>2. GateReads(i, v) = {} /\ RootReads(Len(published) + 1, v) = {}
      BY <1>2, <2>1 DEF GateReads, RootReads
    <3>3. /\ Cardinality(GateReads(i, v)) = 0
          /\ Cardinality(RootReads(Len(published) + 1, v)) = 0
      BY <3>2, FS_EmptySet
    <3>4. uses[v] = 0 /\ ~(uses[v] > 0)
      BY <3>1, <3>3
    <3> QED BY <2>1, <3>4 DEF BuildInv, HoldInv
  <2>4. retained = 0
    <3>1. {v \in Vars : map[v].ok} = {}
      BY <2>3
    <3>2. Held(map) = 0
      BY <1>1, <3>1, HeldFinite, FS_EmptySet
    <3> QED BY <2>1, <3>2 DEF BuildInv, HeldWhileNeeded
  <2> QED BY <2>2, <2>3, <2>4
<1>7. ASSUME ~ok PROVE \A r \in DOMAIN roots' : roots'[r] = Invalid
  BY <1>1, <1>7 DEF BuildInv, PhaseInv
<1>8. \A v \in Vars : map[v].ok => map[v].fn = Denotation[2 * v]
  BY DEF BuildInv, ValueInv
<1> QED
  BY <1>1, <1>c, <1>4, <1>5, <1>6, <1>7, <1>8
  DEF BuildInv, CountInv, UsesExact, HoldInv, HeldWhileNeeded, ValueInv, HandlesCorrect

-----------------------------------------------------------------------------
LEMMA BuildInvHolds == BuildSpec => []BuildInv
<1>1. BuildInit => BuildInv
  BY BuildStart
<1>2. BuildInv /\ [BuildNext]_buildVars => BuildInv'
  <2> SUFFICES ASSUME BuildInv, [BuildNext]_buildVars PROVE BuildInv'
    OBVIOUS
  <2>1. CASE Allocate \/ AllocateFails
    BY <2>1, AllocateStep
  <2>2. CASE CountRoots
    BY <2>2, CountRootsStep
  <2>3. CASE CountGate
    BY <2>3, CountGateStep
  <2>4. CASE ReleaseUnused
    BY <2>4, ReleaseUnusedStep
  <2>5. CASE SkipGate
    BY <2>5, SkipGateStep
  <2>6. CASE BuildGate
    BY <2>6, BuildGateStep
  <2>7. CASE AllBuilt
    BY <2>7, AllBuiltStep
  <2>8. CASE PublishRoot
    BY <2>8, PublishRootStep
  <2>9. CASE Finish
    BY <2>9, FinishStep
  <2>10. CASE UNCHANGED buildVars
    <3>1. /\ buildPc' = buildPc /\ circuit' = circuit /\ buildGuard' = buildGuard /\ ok' = ok
          /\ hostFailed' = hostFailed /\ map' = map /\ uses' = uses /\ i' = i
          /\ retained' = retained /\ published' = published /\ roots' = roots
      BY <2>10 DEF buildVars
    <3>2. /\ NumGates' = NumGates /\ MaxVar' = MaxVar /\ Vars' = Vars
          /\ Denotation' = Denotation
          /\ \A k : Fanin(k)' = Fanin(k) /\ GateVar(k)' = GateVar(k)
      BY <3>1, CircuitKept
    <3>3. BuildTypeOK' /\ PhaseInv'
      BY <3>1, <3>2 DEF BuildInv, BuildTypeOK, PhaseInv, KnownUpTo
    <3>4. CountInv' /\ UsesExact'
      BY <3>1, <3>2 DEF BuildInv, CountInv, UsesExact, PendingUses, GateReads, RootReads,
                        ToBuild
    <3>5. HoldInv' /\ HeldWhileNeeded'
      BY <3>1, <3>2 DEF BuildInv, HoldInv, HeldWhileNeeded
    <3>6. ValueInv' /\ HandlesCorrect'
      BY <3>1, <3>2 DEF BuildInv, ValueInv, HandlesCorrect
    <3> QED BY <3>3, <3>4, <3>5, <3>6 DEF BuildInv
  <2> QED
    BY <2>1, <2>2, <2>3, <2>4, <2>5, <2>6, <2>7, <2>8, <2>9, <2>10 DEF BuildNext
<1> QED BY <1>1, <1>2, PTL DEF BuildSpec

\* Whatever the circuit, the seeds and the failures, oxidd_build_roots keeps an
\* operand until its last reader has read it and no longer.
THEOREM OperandsHeldAlways == BuildSpec => []OperandsHeld
<1>1. BuildInv => OperandsHeld
  BY DEF BuildInv, OperandsHeld
<1> QED BY <1>1, BuildInvHolds, PTL

\* Every handle oxidd_build_roots holds or publishes is the BDD of the literal
\* it stands for, and publication is all or nothing.
THEOREM HandlesCorrectAlways == BuildSpec => []HandlesCorrect
<1>1. BuildInv => HandlesCorrect
  BY DEF BuildInv
<1> QED BY <1>1, BuildInvHolds, PTL
=============================================================================
