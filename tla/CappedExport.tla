---------------------------- MODULE CappedExport ----------------------------
(***************************************************************************)
(* CappedExport: the growing buffer behind an in-memory export.  Writes    *)
(* arrive in any number and size; the buffer doubles, never beyond the     *)
(* artifact limit and the byte of its terminating NUL, in arithmetic on    *)
(* size_t, whose largest value is SizeMax.                                 *)
(***************************************************************************)
EXTENDS Naturals

CONSTANTS SizeMax,   \* SIZE_MAX
          FirstCap,  \* the first capacity tried (256)
          Limits     \* artifact limits to try

ASSUME SizeAssumption ==
  /\ SizeMax \in Nat /\ FirstCap \in Nat /\ FirstCap > 0
  /\ Limits \subseteq 1..SizeMax

VARIABLES state,     \* "open", "grow" inside a write, "closed"
          limit,
          size, capacity,   \* of the data held; capacity 0: no buffer yet
          count,            \* bytes of the write being handled
          target,           \* the capacity the growth loop has reached
          failed,
          refused,          \* a write failed for its size
          output            \* the published size, or NoOutput

bufferVars == <<state, limit, size, capacity, count, target, failed, refused, output>>

NoOutput == SizeMax + 1

Wrap(n) == n % (SizeMax + 1)

\* The most the buffer may hold: the limit and the NUL.
Maximum == IF limit = SizeMax THEN SizeMax ELSE limit + 1
Needed == Wrap(size + count + 1)

BufferInit ==
  /\ state = "open" /\ limit \in Limits
  /\ size = 0 /\ capacity = 0 /\ count = 0 /\ target = 0
  /\ failed = FALSE /\ refused = FALSE /\ output = NoOutput

\* The room for the NUL is not looked at.
OverLimit(n) == n > limit - size

\* A write up to the limit is refused.
AtLimit(n) == n >= limit - size \/ n = SizeMax - size

\* The write is beyond the limit, or leaves no room for the NUL.
TooLarge(n) == n > limit - size \/ n = SizeMax - size

\* After a failure, this or another, nothing is written any more.
WriteRefused(n) ==
  /\ state = "open" /\ ~failed /\ TooLarge(n)
  /\ failed' = TRUE /\ refused' = TRUE /\ count' = n
  /\ UNCHANGED <<state, limit, size, capacity, target, output>>

\* The bytes fit the buffer as it is.
WriteFits(n) ==
  /\ state = "open" /\ ~failed /\ ~TooLarge(n)
  /\ Wrap(size + n + 1) <= capacity
  /\ size' = size + n /\ count' = n
  /\ UNCHANGED <<state, limit, capacity, target, failed, refused, output>>

\* They do not: find a larger capacity.
WriteGrows(n) ==
  /\ state = "open" /\ ~failed /\ ~TooLarge(n)
  /\ Wrap(size + n + 1) > capacity
  /\ count' = n
  /\ LET start == IF capacity = 0 THEN FirstCap ELSE capacity
     IN  target' = IF start > Maximum THEN Maximum ELSE start
  /\ state' = "grow"
  /\ UNCHANGED <<limit, size, capacity, failed, refused, output>>

Double ==
  /\ state = "grow" /\ target < Needed
  /\ target' = IF target > Maximum \div 2 THEN Maximum ELSE target * 2
  /\ UNCHANGED <<state, limit, size, capacity, count, failed, refused, output>>

\* realloc, then the copy.
Reallocate ==
  /\ state = "grow" /\ target >= Needed
  /\ capacity' = target
  /\ size' = size + count
  /\ state' = "open"
  /\ UNCHANGED <<limit, count, target, failed, refused, output>>

ReallocateFails ==
  /\ state = "grow" /\ target >= Needed
  /\ failed' = TRUE
  /\ state' = "open"
  /\ UNCHANGED <<limit, size, capacity, count, target, refused, output>>

\* The NUL is written behind the data and the buffer handed out; an empty export
\* gets a buffer of its own for it.
Close ==
  /\ state = "open" /\ ~failed
  /\ capacity' = IF capacity = 0 THEN 1 ELSE capacity
  /\ output' = size
  /\ state' = "closed"
  /\ UNCHANGED <<limit, size, count, target, failed, refused>>

CloseFails ==
  /\ state = "open" /\ (failed \/ capacity = 0)
  /\ state' = "closed"
  /\ UNCHANGED <<limit, size, capacity, count, target, failed, refused, output>>

BufferNext ==
  \/ \E n \in 0..SizeMax : WriteRefused(n) \/ WriteFits(n) \/ WriteGrows(n)
  \/ Double \/ Reallocate \/ ReallocateFails
  \/ Close \/ CloseFails

BufferSpec == BufferInit /\ [][BufferNext]_bufferVars

-----------------------------------------------------------------------------
BufferTypeOK ==
  /\ state \in {"open", "grow", "closed"}
  /\ limit \in Limits
  /\ size \in 0..SizeMax /\ capacity \in 0..SizeMax
  /\ count \in 0..SizeMax /\ target \in 0..SizeMax
  /\ failed \in BOOLEAN /\ refused \in BOOLEAN
  /\ output \in 0..NoOutput

\* Every byte written, the NUL at the end included, lies in the buffer, and the
\* data never exceeds the limit.
BufferFits ==
  /\ size <= limit
  /\ capacity > 0 => size < capacity
  /\ state = "closed" /\ output # NoOutput => output = size /\ size < capacity

\* While growing, the size asked for has not wrapped around and can be reached:
\* the maximum is enough.
GrowthReachable ==
  state = "grow" =>
    /\ Needed = size + count + 1
    /\ Needed <= Maximum
    /\ 0 < target /\ target <= Maximum

\* capped_export_write never writes beyond the buffer, nor spins in its growth
\* loop on a size it cannot reach.
BufferSound == BufferFits /\ GrowthReachable

\* A write is refused only when it does not fit the limit, or fits no buffer
\* of this machine with its NUL; and then nothing is handed out.
RefusedForSize ==
  /\ refused => size + count > limit \/ size + count >= SizeMax
  /\ failed => output = NoOutput
=============================================================================
