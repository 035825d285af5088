------------------------------ MODULE OxiddRun ------------------------------
(***************************************************************************)
(* The guarded operation layer of oxidd_common.c: every BDD operation of   *)
(* the solvers passes through operation_begin, runs, is retried exactly    *)
(* once after a garbage collection when the node table was full, and ends  *)
(* in operation_end.  Around it: the deadline and the cancellation callback*)
(* polled before each operation, and the pressure collections that run at  *)
(* operation begins and at phase changes, spaced by next_gc.               *)
(*                                                                         *)
(* The BDD manager is external: it is modelled by its node table, `live`   *)
(* nodes held by handles and `dead` ones a collection would free.          *)
(***************************************************************************)
EXTENDS Naturals

CONSTANTS StopKinds,   \* limits armed: subset of {"DEADLINE", "CANCELLED"}
          PressureGc,  \* gc_mode = OXIDD_GC_PRESSURE
          NodeCap,     \* capacity of the node table
          Threshold,   \* gc_threshold_percent
          ShortWait,   \* operations to wait after a useful collection (256)
          LongWait,    \* operations to wait after a poor one (4096)
          Needs,       \* numbers of fresh nodes an operation may need
          Phases,      \* phase names
          MaxOps,      \* bound on the operations of one solve
          MaxGc        \* bound on the collections after which phases change

ASSUME RunConstants ==
  /\ StopKinds \subseteq {"DEADLINE", "CANCELLED"}
  /\ PressureGc \in BOOLEAN
  /\ NodeCap \in Nat /\ Threshold \in Nat
  /\ ShortWait \in Nat /\ LongWait \in Nat /\ ShortWait <= LongWait
  /\ Needs \subseteq Nat
  /\ MaxOps \in Nat /\ MaxGc \in Nat

VARIABLES pc,          \* "idle", or inside an operation: "execute", "retry"
          guard,       \* failure, failed_operation and stopped
          valid,       \* the last operation returned a valid handle
          need,        \* nodes the running operation needs
          operations, nextGc, phase,
          retries, recovered, explicitGc,
          live, dead,  \* the manager's node table
          expired,     \* the deadline lies in the past
          busy,        \* the retry's collection found a collector active
          lastGc       \* operations at this phase's last pressure collection

counters == <<retries, recovered, explicitGc>>
table == <<live, dead>>
vars == <<pc, guard, valid, need, operations, nextGc, phase, counters, table,
          expired, busy, lastGc>>

G == INSTANCE RunGuard

\* Marks that the current phase has had no pressure collection.
NoGc == MaxOps + 1

TypeOK ==
  /\ pc \in {"idle", "execute", "retry"}
  /\ guard \in G!Guards
  /\ valid \in BOOLEAN
  /\ need \in Nat
  /\ operations \in Nat /\ nextGc \in Nat
  /\ phase \in Phases
  /\ retries \in Nat /\ recovered \in Nat /\ explicitGc \in Nat
  /\ live \in Nat /\ dead \in Nat
  /\ expired \in BOOLEAN /\ busy \in BOOLEAN
  /\ lastGc \in Nat

Init ==
  /\ pc = "idle" /\ guard = G!FreshGuard /\ valid = TRUE /\ need = 0
  /\ operations = 0 /\ nextGc = 0
  /\ phase \in Phases
  /\ retries = 0 /\ recovered = 0 /\ explicitGc = 0
  /\ live = 0 /\ dead = 0
  /\ expired = FALSE /\ busy = FALSE /\ lastGc = NoGc

-----------------------------------------------------------------------------
\* The occupancy at which a pressure collection is due: Threshold percent of
\* the capacity rounded up, in the overflow-avoiding form of the code.
PressureLimit ==
  (NodeCap \div 100) * Threshold + ((NodeCap % 100) * Threshold + 99) \div 100

\* The wait before the next pressure collection, from what this one removed.
Wait(removed) ==
  IF removed = 0 \/ removed < NodeCap \div 100 THEN LongWait ELSE ShortWait

\* A collection that does not postpone the next one.
NeverWait(removed, ops) ==
  /\ dead' = dead - removed
  /\ explicitGc' = explicitGc + 1
  /\ nextGc' = ops

\* collect: `removed` is 0 when another collector holds the manager.
Collect(removed, ops) ==
  /\ dead' = dead - removed
  /\ explicitGc' = explicitGc + 1
  /\ nextGc' = ops + Wait(removed)

PressureDue(ops, next) ==
  /\ PressureGc
  /\ ops >= next
  /\ live + dead >= PressureLimit

\* oxidd_pressure_gc_checkpoint at operation count ops, with `next` the value
\* next_gc has on entry and `last` the last collection of the phase.
Checkpoint(ops, next, last) ==
  \/ /\ ~PressureDue(ops, next)
     /\ nextGc' = next
     /\ lastGc' = last
     /\ UNCHANGED <<dead, explicitGc>>
  \/ /\ PressureDue(ops, next)
     /\ \E removed \in {0, dead} : Collect(removed, ops)
     /\ lastGc' = ops

-----------------------------------------------------------------------------
\* An operation after the guard failed: operation_begin returns false.
RefuseOperation ==
  /\ pc = "idle" /\ guard.failed
  /\ valid' = FALSE
  /\ UNCHANGED <<pc, guard, need, operations, nextGc, phase, counters, table,
                 expired, busy, lastGc>>

\* operation_begin finds a limit reached: the callback asks for cancellation,
\* or it does not and the deadline has passed.
StopOperation(kind) ==
  /\ pc = "idle" /\ ~guard.failed
  /\ kind = "DEADLINE" => expired
  /\ guard' = G!RunStops(guard, kind)
  /\ valid' = FALSE
  /\ UNCHANGED <<pc, need, operations, nextGc, phase, counters, table,
                 expired, busy, lastGc>>

\* operation_begin lets the operation start; deadline and callback were quiet.
Begin ==
  /\ pc = "idle" /\ ~guard.failed
  /\ ~(expired /\ "DEADLINE" \in StopKinds)
  /\ operations < MaxOps
  /\ operations' = operations + 1
  /\ Checkpoint(operations + 1, nextGc, lastGc)

\* An operation on valid operands starts; it will need n fresh nodes.
BeginOperation(n) ==
  /\ Begin
  /\ pc' = "execute" /\ need' = n /\ busy' = FALSE
  /\ UNCHANGED <<guard, valid, phase, retries, recovered, live, expired>>

\* An operation on an invalid operand is counted, then rejected.
RejectOperands ==
  /\ Begin
  /\ guard' = G!OperandInvalid(guard)
  /\ valid' = FALSE
  /\ UNCHANGED <<pc, need, phase, retries, recovered, live, expired, busy>>

Fits == live + dead + need <= NodeCap

\* The first attempt succeeds.
Execute ==
  /\ pc = "execute" /\ Fits
  /\ live' = live + need
  /\ valid' = TRUE /\ pc' = "idle"
  /\ UNCHANGED <<guard, need, operations, nextGc, phase, counters, dead,
                 expired, busy, lastGc>>

\* The operation is repeated at once.
RetryWithoutCollecting ==
  /\ pc = "execute" /\ ~Fits
  /\ retries' = retries + 1
  /\ busy' = FALSE
  /\ pc' = "retry"
  /\ UNCHANGED <<guard, valid, need, operations, nextGc, phase, recovered,
                 explicitGc, table, expired, lastGc>>

\* The first attempt finds the table full: collect, then try again.
CollectForRetry ==
  /\ pc = "execute" /\ ~Fits
  /\ retries' = retries + 1
  /\ \E removed \in {0, dead} :
       /\ Collect(removed, operations)
       /\ busy' = (removed # dead)
  /\ pc' = "retry"
  /\ UNCHANGED <<guard, valid, need, operations, phase, recovered, live,
                 expired, lastGc>>

\* The second attempt succeeds.
Recover ==
  /\ pc = "retry" /\ Fits
  /\ live' = live + need
  /\ recovered' = recovered + 1
  /\ valid' = TRUE /\ pc' = "idle"
  /\ UNCHANGED <<guard, need, operations, nextGc, phase, retries, explicitGc,
                 dead, expired, busy, lastGc>>

\* The failure is reported but failed_operation is not set.
ForgetFailure ==
  /\ pc = "retry" /\ ~Fits
  /\ guard' = G!RecordFailure(guard, "BDD")
  /\ valid' = FALSE /\ pc' = "idle"
  /\ UNCHANGED <<need, operations, nextGc, phase, counters, table, expired,
                 busy, lastGc>>

\* The second attempt fails too: operation_end records the failure.
GiveUp ==
  /\ pc = "retry" /\ ~Fits
  /\ guard' = G!OperationFails(guard)
  /\ valid' = FALSE /\ pc' = "idle"
  /\ UNCHANGED <<need, operations, nextGc, phase, counters, table, expired,
                 busy, lastGc>>

\* oxidd_phase: a new phase may collect at once, re-entering the same one not.
Phase(p) ==
  /\ pc = "idle"
  /\ explicitGc < MaxGc
  /\ phase' = p
  /\ Checkpoint(operations,
                IF p # phase THEN operations ELSE nextGc,
                IF p # phase THEN NoGc ELSE lastGc)
  /\ UNCHANGED <<pc, guard, valid, need, operations, retries, recovered, live,
                 expired, busy>>

\* The caller drops the last result, or all it holds: those nodes are no longer
\* reachable (oxidd_bdd_unref).
Unref(n) ==
  /\ pc = "idle" /\ valid /\ n <= live /\ need # 0
  /\ live' = live - n /\ dead' = dead + n /\ need' = 0
  /\ UNCHANGED <<pc, guard, valid, operations, nextGc, phase, counters,
                 expired, busy, lastGc>>

\* The manager's own collector runs (external).
AutoGc ==
  /\ dead # 0 /\ dead' = 0
  /\ UNCHANGED <<pc, guard, valid, need, operations, nextGc, phase, counters,
                 live, expired, busy, lastGc>>

\* The monotonic clock passes deadline_mono_ns.
Expire ==
  /\ ~expired /\ expired' = TRUE
  /\ UNCHANGED <<pc, guard, valid, need, operations, nextGc, phase, counters,
                 table, busy, lastGc>>

Next ==
  \/ RefuseOperation
  \/ \E kind \in StopKinds : StopOperation(kind)
  \/ \E n \in Needs : BeginOperation(n)
  \/ RejectOperands
  \/ Execute
  \/ CollectForRetry
  \/ Recover
  \/ GiveUp
  \/ \E p \in Phases : Phase(p)
  \/ \E n \in {need, live} : Unref(n)
  \/ AutoGc
  \/ Expire

Spec == Init /\ [][Next]_vars

-----------------------------------------------------------------------------
\* The guard and the counters agree: a failed guard carries a failure, a
\* stopped one a limit, and every retry either recovered, is still running, or
\* was the one that failed the run (RUN_OPERATION retries exactly once).
RetryAccounting ==
  /\ guard.failed <=> guard.failure # "NONE"
  /\ guard.stopped => guard.failed
  /\ pc # "idle" => ~guard.failed
  /\ retries = recovered
       + (IF pc = "retry" \/ guard.failure = "BDD" THEN 1 ELSE 0)
  /\ retries <= explicitGc
  /\ retries + (IF pc = "execute" THEN 1 ELSE 0) <= operations

\* Once an operation has failed or a limit was reached, no later operation
\* reaches the manager and the recorded failure does not change.
FailureIsFinal ==
  [][guard.failed =>
       /\ guard' = guard
       /\ operations' = operations
       /\ live' <= live]_vars

\* An operation is reported as failed only when the table cannot hold it with
\* all garbage collected, unless another collector kept the retry from it.
GenuineExhaustion ==
  [][guard.failure = "NONE" /\ guard'.failure = "BDD" =>
       live + need > NodeCap \/ busy]_vars

\* Two pressure collections of one phase are at least ShortWait operations
\* apart (next_gc), however full the table stays.
PressureSpacing ==
  [][lastGc' # lastGc /\ lastGc # NoGc /\ lastGc' # NoGc /\ phase' = phase =>
       lastGc' >= lastGc + ShortWait]_vars

\* Why: before the second attempt there is no garbage left, and next_gc keeps
\* its distance from the phase's last pressure collection.
RetryIsClean == pc = "retry" /\ ~busy => dead = 0

SpacingInv ==
  /\ operations <= MaxOps
  /\ lastGc # NoGc => lastGc <= operations /\ nextGc >= lastGc + ShortWait

\* The layer implements the guard the solvers are written against: seen
\* between operations, each operation returns a valid handle and leaves the
\* guard, or fails it for good.
Promise == G!Spec
=============================================================================
