------------------------------ MODULE RunGuard ------------------------------
(***************************************************************************)
(* What the wrapped BDD operations of oxidd_common.c promise their callers *)
(* (oxidd_run_not, _and, _substitute, ...): an operation either returns a  *)
(* valid handle and leaves the guard alone, or it returns the invalid      *)
(* handle and the guard has failed for good.  The failure that reaches the *)
(* caller's OxiddFailure is the first one recorded.                        *)
(*                                                                         *)
(* The operators on guard records are shared by every solver module; the   *)
(* specification at the end is the abstract one that OxiddRun implements.  *)
(***************************************************************************)
CONSTANT StopKinds   \* limits the caller armed: "DEADLINE", "CANCELLED"

FailureKinds == {"NONE", "BDD", "HOST", "CONFIGURATION", "CONVERSION",
                 "INVALID", "DEADLINE", "CANCELLED", "ARTIFACT_LIMIT"}

\* failure: OxiddFailure.kind; failed: failed_operation is set; stopped.
Guards == [failure : FailureKinds, failed : BOOLEAN, stopped : BOOLEAN]

\* oxidd_run_init together with the reset of *opts->failure.
FreshGuard == [failure |-> "NONE", failed |-> FALSE, stopped |-> FALSE]

\* oxidd_record_failure: the first recorded failure is kept.
RecordFailure(g, kind) ==
  IF g.failure = "NONE" THEN [g EXCEPT !.failure = kind] ELSE g

\* operation_end on an invalid handle after the retry.
OperationFails(g) == [RecordFailure(g, "BDD") EXCEPT !.failed = TRUE]

\* RUN_OPERATION on an invalid operand.
OperandInvalid(g) == [RecordFailure(g, "INVALID") EXCEPT !.failed = TRUE]

\* oxidd_run_stopped when a limit is reached.
RunStops(g, kind) ==
  [RecordFailure(g, kind) EXCEPT !.failed = TRUE, !.stopped = TRUE]

\* The guards one wrapped operation may leave.  The handle it returns is valid
\* exactly when the guard it leaves has not failed.
Outcomes(g, operandsValid) ==
  IF g.failed THEN {g}
  ELSE {RunStops(g, k) : k \in StopKinds}
         \cup (IF operandsValid THEN {g, OperationFails(g)}
               ELSE {OperandInvalid(g)})

-----------------------------------------------------------------------------
VARIABLES guard,   \* the guard of the current solve
          valid    \* whether the last operation returned a valid handle

Init == guard = FreshGuard /\ valid = TRUE

Operation ==
  \E operandsValid \in BOOLEAN :
    /\ guard' \in Outcomes(guard, operandsValid)
    /\ valid' = ~guard'.failed

Spec == Init /\ [][Operation]_<<guard, valid>>
=============================================================================
