-------------------------- MODULE AtomicityProofs ---------------------------
(***************************************************************************)
(* Three parts that must not leave half a result behind, for every value   *)
(* of their constants.                                                     *)
(*                                                                         *)
(* Publication of exports: no file lost and no torn one, for every number  *)
(* of files, every subset requested and every pattern of failing calls;    *)
(* the buffer of an in-memory export is safe on every machine word, for    *)
(* every limit and every first capacity.                                   *)
(*                                                                         *)
(* Interning tables: records are found and bytes accounted for every set   *)
(* of keys and every hash, through growth that may stop in the middle.     *)
(*                                                                         *)
(* Staged expansion: all or nothing for every pair of evaluators.          *)
(*                                                                         *)
(* None of the checked properties is inductive: each invariant says how    *)
(* far the files, the new index or the formulas have come.                 *)
(***************************************************************************)
EXTENDS PublishExports, CappedExport, DpaTable, ExpandRun,
        FiniteSetTheorems, WellFoundedInduction, TLAPS

-----------------------------------------------------------------------------
\* Publication.

Before(f) == IF f \in hadFile THEN "old" ELSE "absent"

\* Nothing has happened to the file.
Untouched(f) ==
  /\ f \notin published /\ f \notin hadOriginal
  /\ path[f] = Before(f) /\ backup[f] = "absent"

\* It is in its backup and the path is free.
Away(f) ==
  /\ f \in hadFile /\ f \in hadOriginal /\ f \notin published
  /\ path[f] = "absent" /\ backup[f] = "old"

\* The new file is in place, the old one in its backup.
Placed(f) ==
  /\ f \in published
  /\ f \in hadFile => f \in hadOriginal
  /\ path[f] = "new" /\ backup[f] = Before(f)

Restored(f) == path[f] = Before(f) /\ backup[f] = "absent"

Safe(f) ==
  /\ f \in hadFile => path[f] = "old" \/ backup[f] = "old"
  /\ path[f] # "partial"

StageInv(f) ==
  /\ ok /\ Untouched(f)
  /\ f < i /\ f \in requested => temporary[f] = "new"

PublishInv(f) ==
  /\ ok
  /\ f < i /\ f \in requested => Placed(f)
  /\ f = i => Untouched(f) \/ Away(f)
  /\ f > i \/ f \notin requested => Untouched(f)
  /\ f >= i /\ f \in requested => temporary[f] = "new"

UndoInv(f) ==
  /\ ~ok /\ Safe(f)
  /\ f <= i => Untouched(f) \/ Away(f) \/ Placed(f)
  /\ f > i /\ ~undoFailed => Restored(f)

RemoveInv(f) ==
  /\ ok => path[f] = IF f \in requested THEN "new" ELSE "absent"
  /\ ~ok => Safe(f)
  /\ ~ok /\ ~undoFailed => Restored(f)
  /\ f < i /\ ~littered => temporary[f] = "absent"
  /\ f < i /\ ~littered /\ ok => backup[f] = "absent"

Progress ==
  /\ pc = "stage" => \A f \in Files : StageInv(f)
  /\ pc = "publish" => \A f \in Files : PublishInv(f)
  /\ pc = "undo" => \A f \in Files : UndoInv(f)
  /\ pc \in {"remove", "done"} => \A f \in Files : RemoveInv(f)
  /\ pc = "done" => i > N

Inv == TypeOK /\ Progress

LEMMA InitInv == Init => Inv
<1> SUFFICES ASSUME Init PROVE Inv
  OBVIOUS
<1> USE FilesAssumption
<1>1. path \in [Files -> Contents] /\ temporary \in [Files -> Contents]
      /\ backup \in [Files -> Contents]
  BY DEF Init, Contents
<1>2. requested \subseteq Files /\ hadFile \subseteq requested
      /\ published \subseteq requested /\ hadOriginal \subseteq hadFile
  BY DEF Init
<1>3. ok \in BOOLEAN /\ undoFailed \in BOOLEAN /\ littered \in BOOLEAN
      /\ pc \in {"stage", "publish", "undo", "remove", "done"}
  BY Zenon DEF Init
<1>4. i \in 0..(N + 1)
  BY DEF Init
<1>5. TypeOK
  BY <1>1, <1>2, <1>3, <1>4, Zenon DEF TypeOK
<1>6. ASSUME NEW f \in Files PROVE StageInv(f)
  BY <1>6 DEF Init, StageInv, Untouched, Before, Files
<1>7. pc = "stage"
  BY DEF Init
<1> QED BY <1>5, <1>6, <1>7 DEF Inv, Progress

\* The types of the step's new state; one case per action.
LEMMA StepTypes == Inv /\ [Next]_vars => TypeOK'
<1> SUFFICES ASSUME TypeOK, Progress, [Next]_vars PROVE TypeOK'
  BY DEF Inv
<1> USE FilesAssumption DEF TypeOK, Files, Contents, inputs
<1>1. CASE Skip
  BY <1>1 DEF Skip
<1>2. CASE Stage
  BY <1>2 DEF Stage
<1>3. CASE StageFails
  <2>1. ok' \in BOOLEAN /\ undoFailed' \in BOOLEAN /\ littered' \in BOOLEAN
    BY <1>3, Zenon DEF StageFails
  <2>2. i' \in 0..(N + 1) /\ temporary' \in [Files -> Contents]
    BY <1>3 DEF StageFails
  <2> QED BY <1>3, <2>1, <2>2, Zenon DEF StageFails
<1>4. CASE AllStaged
  BY <1>4 DEF AllStaged
<1>5. CASE Backup
  <2>1. i \in hadFile
    BY <1>5 DEF Backup, Progress, PublishInv, Untouched, Away, Before
  <2> QED BY <1>5, <2>1 DEF Backup
<1>6. CASE PublishFile
  BY <1>6 DEF PublishFile
<1>7. CASE PublishFails
  <2>1. ok' \in BOOLEAN /\ undoFailed' \in BOOLEAN /\ littered' \in BOOLEAN
    BY <1>7, Zenon DEF PublishFails
  <2>2. i' \in 0..(N + 1)
    BY <1>7 DEF PublishFails
  <2> QED BY <1>7, <2>1, <2>2, Zenon DEF PublishFails
<1>8. CASE AllPublished
  BY <1>8 DEF AllPublished
<1>9. CASE Undo
  <2>1. ok' \in BOOLEAN /\ undoFailed' \in BOOLEAN /\ littered' \in BOOLEAN
    BY <1>9, Zenon DEF Undo
  <2>2. i' \in 0..(N + 1)
    BY <1>9 DEF Undo
  <2>3. path' \in [Files -> Contents] /\ backup' \in [Files -> Contents]
    BY <1>9 DEF Undo
  <2> QED BY <1>9, <2>1, <2>2, <2>3, Zenon DEF Undo
<1>10. CASE Undone
  BY <1>10 DEF Undone
<1>11. CASE Remove
  BY <1>11 DEF Remove
<1>12. CASE Finish
  BY <1>12 DEF Finish
<1>13. CASE UNCHANGED vars
  BY <1>13 DEF vars
<1> QED BY <1>1, <1>2, <1>3, <1>4, <1>5, <1>6, <1>7, <1>8, <1>9, <1>10, <1>11,
           <1>12, <1>13 DEF Next

\* One case per action; each is about the files on either side of the index.
LEMMA StepProgress == Inv /\ [Next]_vars => Progress'
<1> SUFFICES ASSUME TypeOK, Progress, [Next]_vars PROVE Progress'
  BY DEF Inv
<1> USE FilesAssumption DEF Files, inputs
<1>1. CASE Skip
  BY <1>1 DEF Skip, TypeOK, Progress, StageInv, PublishInv, Untouched, Away,
              Placed, Before
<1>2. CASE Stage
  BY <1>2 DEF Stage, TypeOK, Progress, StageInv, Untouched, Before
<1>3. CASE StageFails
  BY <1>3 DEF StageFails, TypeOK, Progress, StageInv, UndoInv, Untouched, Before,
              Safe, Restored
<1>4. CASE AllStaged
  BY <1>4 DEF AllStaged, TypeOK, Progress, StageInv, PublishInv, Untouched, Before
<1>5. CASE Backup
  BY <1>5 DEF Backup, TypeOK, Progress, PublishInv, Untouched, Away, Placed, Before
<1>6. CASE PublishFile
  BY <1>6 DEF PublishFile, TypeOK, Progress, PublishInv, Untouched, Away, Placed,
              Before
<1>7. CASE PublishFails
  BY <1>7 DEF PublishFails, TypeOK, Progress, PublishInv, UndoInv, Untouched,
              Away, Placed, Before, Safe
<1>8. CASE AllPublished
  BY <1>8 DEF AllPublished, TypeOK, Progress, PublishInv, RemoveInv, Untouched,
              Placed, Before
<1>9. CASE Undo
  BY <1>9 DEF Undo, TypeOK, Progress, UndoInv, Untouched, Away, Placed, Before,
              Safe, Restored
<1>10. CASE Undone
  BY <1>10 DEF Undone, TypeOK, Progress, UndoInv, RemoveInv, Restored, Safe, Before
<1>11. CASE Remove
  BY <1>11 DEF Remove, TypeOK, Progress, RemoveInv, Restored, Safe, Before
<1>12. CASE Finish
  BY <1>12 DEF Finish, TypeOK, Progress, RemoveInv, Restored, Safe, Before
<1>13. CASE UNCHANGED vars
  BY <1>13 DEF vars, Progress, StageInv, PublishInv, UndoInv, RemoveInv,
               Untouched, Away, Placed, Before, Safe, Restored
<1> QED BY <1>1, <1>2, <1>3, <1>4, <1>5, <1>6, <1>7, <1>8, <1>9, <1>10, <1>11,
           <1>12, <1>13 DEF Next

LEMMA InvAlways == Spec => []Inv
<1>1. Inv /\ [Next]_vars => Inv'
  BY StepTypes, StepProgress DEF Inv
<1> QED BY InitInv, <1>1, PTL DEF Spec

\* Whenever the process dies or a call of the undoing fails, each old file is at
\* its path or in its backup, unless the whole export is in place, and no path
\* holds a partly written file.
THEOREM CrashSafety == Spec => []CrashSafe
<1>1. Inv => NothingLost
  BY DEF Inv, Progress, TypeOK, NothingLost, StageInv, PublishInv, UndoInv,
         RemoveInv, Untouched, Away, Placed, Before, Safe, Files
<1>2. Inv => NeverPartial
  BY FilesAssumption
     DEF Inv, Progress, TypeOK, NeverPartial, StageInv, PublishInv, UndoInv,
         RemoveInv, Untouched, Away, Placed, Before, Safe, Files
<1> QED BY <1>1, <1>2, InvAlways, PTL DEF CrashSafe

\* At the end the export is complete, or undone, unless the undoing failed.
THEOREM Atomicity == Spec => []AllOrNothing
<1>1. Inv => AllOrNothing
  BY FilesAssumption
     DEF Inv, Progress, TypeOK, AllOrNothing, RemoveInv, Restored, Before, Files
<1> QED BY <1>1, InvAlways, PTL

-----------------------------------------------------------------------------
\* The buffer.


\* The capacity stays below the maximum, without a buffer there is no data, and
\* nothing is handed out before the export is closed; the rest of the induction
\* is in the checked invariants.
CapacityBounded ==
  /\ capacity <= Maximum
  /\ capacity = 0 => size = 0
  /\ state # "closed" => output = NoOutput

BufferInv == BufferTypeOK /\ BufferFits /\ GrowthReachable /\ CapacityBounded

\* Arithmetic below SizeMax does not wrap.
LEMMA NoWrap ==
  ASSUME NEW n \in 0..SizeMax PROVE Wrap(n) = n
BY SizeAssumption, SMTT(30) DEF Wrap

LEMMA MaximumType ==
  ASSUME limit \in Limits
  PROVE  Maximum \in 1..SizeMax /\ limit <= Maximum /\ limit \in 1..SizeMax
         /\ (limit # SizeMax => Maximum = limit + 1)
BY SizeAssumption DEF Maximum

\* A write that is let through has room for its bytes and the NUL.
LEMMA RoomForWrite ==
  ASSUME BufferTypeOK, BufferFits, NEW n \in 0..SizeMax, ~TooLarge(n)
  PROVE  /\ size + n <= limit
         /\ size + n + 1 \in 1..SizeMax
         /\ size + n + 1 <= Maximum
         /\ Wrap(size + n + 1) = size + n + 1
<1> USE SizeAssumption
<1>1. /\ size + n <= limit
      /\ size + n + 1 \in 1..SizeMax
      /\ size + n + 1 <= Maximum
  BY MaximumType DEF TooLarge, BufferTypeOK, BufferFits
<1> QED BY <1>1, NoWrap

LEMMA BufferInitInv == BufferInit => BufferInv
<1> SUFFICES ASSUME BufferInit PROVE BufferInv
  OBVIOUS
<1> USE SizeAssumption
<1>1. limit \in Limits /\ limit \in 1..SizeMax /\ Maximum \in 1..SizeMax
  BY MaximumType DEF BufferInit
<1>2. BufferTypeOK
  <2>1. size \in 0..SizeMax /\ capacity \in 0..SizeMax
        /\ count \in 0..SizeMax /\ target \in 0..SizeMax
    BY DEF BufferInit
  <2>2. output \in 0..NoOutput
    BY DEF BufferInit, NoOutput
  <2>3. failed \in BOOLEAN /\ refused \in BOOLEAN /\ state \in {"open", "grow", "closed"}
    BY Zenon DEF BufferInit
  <2> QED BY <1>1, <2>1, <2>2, <2>3, Zenon DEF BufferTypeOK
<1>3. BufferFits /\ GrowthReachable /\ CapacityBounded
  BY <1>1 DEF BufferInit, BufferFits, GrowthReachable, CapacityBounded
<1> QED BY <1>2, <1>3 DEF BufferInv

\* One case per action; only growing needs the arithmetic above.
LEMMA BufferStepInv == BufferInv /\ [BufferNext]_bufferVars => BufferInv'
<1> SUFFICES ASSUME BufferInv, [BufferNext]_bufferVars PROVE BufferInv'
  OBVIOUS
<1> USE SizeAssumption
<1> USE DEF BufferInv
<1>m. /\ Maximum \in 1..SizeMax /\ limit <= Maximum /\ limit \in 1..SizeMax
      /\ limit # SizeMax => Maximum = limit + 1
  BY MaximumType DEF BufferTypeOK
<1>l. limit' = limit => Maximum' = Maximum
  BY DEF Maximum
<1>1. ASSUME NEW n \in 0..SizeMax, WriteRefused(n) PROVE BufferInv'
  BY <1>1, <1>m, <1>l
     DEF WriteRefused, BufferTypeOK, BufferFits, GrowthReachable, CapacityBounded, NoOutput
<1>2. ASSUME NEW n \in 0..SizeMax, WriteFits(n) PROVE BufferInv'
  <2>1. /\ size + n <= limit
        /\ size + n + 1 \in 1..SizeMax
        /\ Wrap(size + n + 1) = size + n + 1
    BY <1>2, RoomForWrite DEF WriteFits
  <2> QED
    BY <1>2, <2>1, <1>m, <1>l
       DEF WriteFits, BufferTypeOK, BufferFits, GrowthReachable, CapacityBounded, NoOutput
<1>3. ASSUME NEW n \in 0..SizeMax, WriteGrows(n) PROVE BufferInv'
  <2>1. /\ size + n <= limit
        /\ size + n + 1 \in 1..SizeMax
        /\ size + n + 1 <= Maximum
        /\ Wrap(size + n + 1) = size + n + 1
    BY <1>3, RoomForWrite DEF WriteGrows
  <2>2. target' \in 1..SizeMax /\ target' <= Maximum
    BY <1>3, <1>m DEF WriteGrows, BufferTypeOK
  <2>3. Needed' = size + n + 1
    BY <1>3, <2>1 DEF WriteGrows, Needed, Wrap
  <2> QED
    BY <1>3, <2>1, <2>2, <2>3, <1>m, <1>l
       DEF WriteGrows, BufferTypeOK, BufferFits, GrowthReachable, CapacityBounded, NoOutput
<1>4. CASE Double
  <2>1. target' \in 1..SizeMax /\ target' <= Maximum
    BY <1>4, <1>m DEF Double, BufferTypeOK, GrowthReachable
  <2>2. Needed' = Needed
    BY <1>4 DEF Double, Needed, Wrap
  <2> QED
    BY <1>4, <2>1, <2>2, <1>m, <1>l
       DEF Double, BufferTypeOK, BufferFits, GrowthReachable, CapacityBounded, NoOutput
<1>5. CASE Reallocate
  <2>1. /\ size + count + 1 <= target
        /\ target <= Maximum
    BY <1>5, <1>m DEF Reallocate, GrowthReachable, BufferTypeOK
  <2>2. size + count <= limit
    BY <2>1, <1>m, <1>5 DEF Reallocate, GrowthReachable, BufferTypeOK, BufferFits, Maximum
  <2> QED
    BY <1>5, <2>1, <2>2, <1>m, <1>l
       DEF Reallocate, BufferTypeOK, BufferFits, GrowthReachable, CapacityBounded, NoOutput
<1>6. CASE ReallocateFails
  BY <1>6, <1>m, <1>l
     DEF ReallocateFails, BufferTypeOK, BufferFits, GrowthReachable, CapacityBounded, NoOutput
<1>7. CASE Close
  BY <1>7, <1>m, <1>l
     DEF Close, BufferTypeOK, BufferFits, GrowthReachable, CapacityBounded, NoOutput
<1>8. CASE CloseFails
  BY <1>8, <1>m, <1>l
     DEF CloseFails, BufferTypeOK, BufferFits, GrowthReachable, CapacityBounded, NoOutput
<1>9. CASE UNCHANGED bufferVars
  BY <1>9, <1>m, <1>l
     DEF bufferVars, BufferTypeOK, BufferFits, GrowthReachable, CapacityBounded, NoOutput,
         Needed, Wrap
<1> QED BY <1>1, <1>2, <1>3, <1>4, <1>5, <1>6, <1>7, <1>8, <1>9 DEF BufferNext

LEMMA BufferInvAlways == BufferSpec => []BufferInv
BY BufferInitInv, BufferStepInv, PTL DEF BufferSpec

\* Every byte an export writes, its NUL included, lies in the buffer, no artifact
\* exceeds its limit (capped_export_write, capped_export_close), and the growth
\* loop asks for a capacity that has not wrapped around and that the maximum
\* suffices for.
THEOREM BufferSafety == BufferSpec => []BufferSound
BY BufferInvAlways, PTL DEF BufferInv, BufferSound

\* A failure, for the size or another, is the last thing that happens to the
\* buffer but its closing: no growth is under way, and the size and the count
\* the refusal was about are still there.
RefusalFinal ==
  /\ failed => state # "grow" /\ output = NoOutput
  /\ refused => /\ failed
                /\ size + count > limit \/ size + count >= SizeMax

LEMMA RefusalStep ==
  BufferInv /\ RefusalFinal /\ [BufferNext]_bufferVars => RefusalFinal'
<1> SUFFICES ASSUME BufferInv, RefusalFinal, [BufferNext]_bufferVars PROVE RefusalFinal'
  OBVIOUS
<1> USE SizeAssumption
<1> USE DEF RefusalFinal
<1>m. limit \in 1..SizeMax
  BY MaximumType DEF BufferInv, BufferTypeOK
<1>t. /\ size \in 0..SizeMax /\ count \in 0..SizeMax /\ size <= limit
      /\ state # "closed" => output = NoOutput
  BY DEF BufferInv, BufferTypeOK, BufferFits, CapacityBounded
<1>n. NoOutput' = NoOutput
  BY DEF NoOutput
<1>1. ASSUME NEW n \in 0..SizeMax, WriteRefused(n) PROVE RefusalFinal'
  <2>1. size + n > limit \/ size + n >= SizeMax
    BY <1>1, <1>m, <1>t DEF WriteRefused, TooLarge
  <2> QED BY <1>1, <2>1, <1>t, <1>n DEF WriteRefused
<1>2. ASSUME NEW n \in 0..SizeMax, WriteFits(n) \/ WriteGrows(n) PROVE RefusalFinal'
  BY <1>2, <1>n DEF WriteFits, WriteGrows
<1>3. CASE Double \/ Reallocate
  BY <1>3, <1>n DEF Double, Reallocate
<1>4. CASE ReallocateFails
  BY <1>4, <1>t, <1>n DEF ReallocateFails
<1>5. CASE Close \/ CloseFails
  BY <1>5, <1>n DEF Close, CloseFails
<1>6. CASE UNCHANGED bufferVars
  BY <1>6, <1>n DEF bufferVars
<1> QED BY <1>1, <1>2, <1>3, <1>4, <1>5, <1>6 DEF BufferNext

\* A write is refused only for a size that neither the limit nor the machine has
\* room for, and an export that failed hands nothing out (capped_export_write,
\* capped_export_close).
THEOREM RefusalJustified == BufferSpec => []RefusedForSize
<1>1. BufferInit => RefusalFinal
  BY DEF BufferInit, RefusalFinal
<1>2. RefusalFinal => RefusedForSize
  BY DEF RefusalFinal, RefusedForSize
<1> QED BY <1>1, <1>2, RefusalStep, BufferInvAlways, PTL DEF BufferSpec

-----------------------------------------------------------------------------
\* The interning tables: probing visits every slot, once per round.

LEMMA Quotient ==
  ASSUME NEW x \in Nat, NEW b \in Nat \ {0}
  PROVE  x \div b \in Nat /\ x % b \in 0..(b - 1) /\ x = b * (x \div b) + (x % b)
<1>1. x % b \in 0..(b - 1)
  OBVIOUS
<1>2. x = b * (x \div b) + (x % b)
  OBVIOUS
<1>3. x \div b \in Int
  OBVIOUS
<1>4. ~(x \div b < 0)
  <2> DEFINE l == x \div b
             j == 0 - l - 1
  <2> SUFFICES ASSUME l < 0 PROVE FALSE
    OBVIOUS
  <2>1. x = b * l + (x % b) /\ l \in Int
    BY <1>2, <1>3
  <2> HIDE DEF l
  <2>2. j \in Nat /\ l = 0 - 1 - j
    BY <2>1
  <2> HIDE DEF j
  <2>3. b * j \in Nat /\ b * l = 0 - b - b * j
    BY <2>2
  <2> DEFINE bj == b * j
             bl == b * l
  <2>4. bj \in Nat /\ bl = 0 - b - bj /\ x = bl + (x % b)
    BY <2>1, <2>3
  <2> HIDE DEF bj, bl
  <2> QED BY <2>4, <1>1
<1> QED BY <1>1, <1>2, <1>3, <1>4

\* The remainder is the only one.
LEMMA Remainder ==
  ASSUME NEW b \in Nat \ {0}, NEW m \in Nat, NEW q \in 0..(b - 1)
  PROVE  (b * m + q) % b = q
<1> DEFINE x == b * m + q
           l == x \div b
           r == x % b
<1>1. b * m \in Nat /\ x \in Nat
  OBVIOUS
<1>2. l \in Nat /\ r \in 0..(b - 1) /\ x = b * l + r
  BY <1>1, Quotient
<1> HIDE DEF l, r
<1>3. ASSUME NEW u \in Nat, NEW v \in Nat, u < v PROVE b * u + b <= b * v
  <2>1. PICK j \in Nat : v = u + 1 + j
    <3>1. v - u - 1 \in Nat /\ v = u + 1 + (v - u - 1)
      BY <1>3
    <3> QED BY <3>1
  <2>2. b * v = b * u + b + b * j /\ b * u \in Nat /\ b * j \in Nat
    BY <2>1
  <2> QED BY <2>2
<1>4. ~(l < m)
  <2> SUFFICES ASSUME l < m PROVE FALSE
    OBVIOUS
  <2>1. b * l + b <= b * m /\ b * l \in Nat /\ b * m \in Nat
    BY <1>2, <1>3
  <2> HIDE DEF x
  <2>2. x = b * m + q
    BY DEF x
  <2> DEFINE bl == b * l
             bm == b * m
  <2> HIDE DEF bl, bm
  <2>3. bl + b <= bm /\ bl \in Nat /\ bm \in Nat /\ x = bm + q /\ x = bl + r
    BY <2>1, <2>2, <1>2 DEF bl, bm
  <2> QED BY <2>3, <1>2
<1>5. ~(m < l)
  <2> SUFFICES ASSUME m < l PROVE FALSE
    OBVIOUS
  <2>1. b * m + b <= b * l /\ b * l \in Nat /\ b * m \in Nat
    BY <1>2, <1>3
  <2> HIDE DEF x
  <2>2. x = b * m + q
    BY DEF x
  <2> DEFINE bl == b * l
             bm == b * m
  <2> HIDE DEF bl, bm
  <2>3. bm + b <= bl /\ bl \in Nat /\ bm \in Nat /\ x = bm + q /\ x = bl + r
    BY <2>1, <2>2, <1>2 DEF bl, bm
  <2> QED BY <2>3, <1>2
<1>6. l = m
  BY <1>2, <1>4, <1>5
<1>7. x = b * m + r
  BY <1>2, <1>6
<1>8. r = q
  <2> DEFINE bm == b * m
  <2>1. bm \in Nat /\ x = bm + r /\ x = bm + q
    BY <1>1, <1>7
  <2> HIDE DEF bm, x
  <2> QED BY <2>1, <1>2
<1> QED BY <1>8 DEF r

\* From any home slot every slot is reached.
LEMMA Reached ==
  ASSUME NEW h \in Nat, NEW b \in Nat \ {0}, NEW q \in 0..(b - 1)
  PROVE  \E d \in 0..(b - 1) : (h + d) % b = q
<1> DEFINE l == h \div b
           r == h % b
<1>1. l \in Nat /\ r \in 0..(b - 1) /\ h = b * l + r
  BY Quotient
<1> HIDE DEF l, r
<1>2. CASE r <= q
  <2>1. q - r \in 0..(b - 1) /\ h + (q - r) = b * l + q
    <3> DEFINE bl == b * l
    <3>1. bl \in Nat /\ h = bl + r
      BY <1>1
    <3> HIDE DEF bl
    <3>2. q - r \in 0..(b - 1) /\ h + (q - r) = bl + q
      BY <3>1, <1>1, <1>2
    <3> QED BY <3>2 DEF bl
  <2>2. (b * l + q) % b = q
    BY <1>1, Remainder
  <2> QED BY <2>1, <2>2
<1>3. CASE r > q
  <2>1. q - r + b \in 0..(b - 1) /\ h + (q - r + b) = b * (l + 1) + q
    <3> DEFINE bl == b * l
    <3>1. bl \in Nat /\ h = bl + r /\ b * (l + 1) = bl + b
      BY <1>1
    <3> HIDE DEF bl
    <3>2. q - r + b \in 0..(b - 1) /\ h + (q - r + b) = bl + b + q
      BY <3>1, <1>1, <1>3
    <3> QED BY <3>1, <3>2
  <2>2. (b * (l + 1) + q) % b = q
    BY <1>1, Remainder
  <2> QED BY <2>1, <2>2
<1> QED BY <1>1, <1>2, <1>3

\* Every non-empty set of naturals has a least element.
LEMMA LeastNatural ==
  ASSUME NEW T \in SUBSET Nat, T # {}
  PROVE  \E x \in T : \A y \in T : x <= y
<1> DEFINE R == {p \in Nat \X Nat : p[1] < p[2]}
<1>1. IsWellFoundedOn(R, Nat)
  BY NatLessThanWellFounded, Zenon DEF OpToRel
<1>2. \A x, y \in Nat : ~(<<y, x>> \in R) => x <= y
  OBVIOUS
<1> HIDE DEF R
<1>3. \E x \in T : \A y \in T : ~(<<y, x>> \in R)
  BY <1>1, WFMin, Zenon
<1> QED
  BY <1>2, <1>3, Zenon

LEMMA LeastOf ==
  ASSUME NEW T \in SUBSET Nat, T # {}
  PROVE  Least(T) \in T /\ \A y \in T : Least(T) <= y
BY LeastNatural, Zenon DEF Least

-----------------------------------------------------------------------------
\* An index of the first n records.

\* No record has two slots, and each is reached from its home slot through
\* slots that are taken.
Indexes(s, its, n) ==
  /\ Bins(s) \in Nat /\ s \in [Offsets(s) -> 0..n]
  /\ \A p, q \in Offsets(s) : s[p] = s[q] /\ s[p] # 0 => p = q
  /\ \A id \in 1..n : \E d \in Offsets(s) :
       /\ s[Probed(s, its[id], d)] = id
       /\ \A e \in 0..(d - 1) : s[Probed(s, its[id], e)] # 0

LEMMA ProbedType ==
  ASSUME NEW s, Bins(s) \in Nat, NEW k \in Keys, NEW d \in Nat, Bins(s) # 0
  PROVE  Probed(s, k, d) \in Offsets(s)
<1>1. Home[k] \in Nat
  BY TableAssumption
<1> DEFINE x == Home[k] + d
<1>2. x \in Nat
  BY <1>1
<1> HIDE DEF x
<1>3. x % Bins(s) \in 0..(Bins(s) - 1)
  BY <1>2, Quotient
<1> QED BY <1>3 DEF Probed, Offsets, x

LEMMA OffsetsNat ==
  ASSUME NEW s, Bins(s) \in Nat
  PROVE  Offsets(s) \subseteq Nat /\ IsFiniteSet(Offsets(s)) /\ Cardinality(Offsets(s)) = Bins(s)
<1>1. 0..(Bins(s) - 1) \subseteq Nat
  BY DEF Offsets
<1>2. Bins(s) - 1 \in Int
  OBVIOUS
<1>3. IsFiniteSet(0..(Bins(s) - 1)) /\ Cardinality(0..(Bins(s) - 1)) = Bins(s)
  BY <1>2, FS_Interval
<1> QED BY <1>1, <1>3 DEF Offsets

\* An index that is not full has an empty slot (pigeonhole), and every search
\* meets one.
LEMMA EmptySlot ==
  ASSUME NEW s, NEW its, NEW n \in Nat, Indexes(s, its, n), n < Bins(s)
  PROVE  /\ \E p \in Offsets(s) : s[p] = 0
         /\ \A k \in Keys : Empty(s, k) # {}
<1>1. Bins(s) \in Nat /\ s \in [Offsets(s) -> 0..n]
  BY DEF Indexes
<1>2. IsFiniteSet(Offsets(s)) /\ Cardinality(Offsets(s)) = Bins(s) /\ Offsets(s) \subseteq Nat
  BY <1>1, OffsetsNat
<1>3. IsFiniteSet(1..n) /\ Cardinality(1..n) = n
  BY FS_Interval
<1>4. \E p \in Offsets(s) : s[p] = 0
  <2> SUFFICES ASSUME \A p \in Offsets(s) : s[p] # 0 PROVE FALSE
    OBVIOUS
  <2>1. \A p \in Offsets(s) : s[p] \in 1..n
    BY <1>1
  <2>2. s \in [Offsets(s) -> 1..n]
    BY <1>1, <2>1
  <2>3. \E x, y \in Offsets(s) : x # y /\ s[x] = s[y]
    BY <1>2, <1>3, <2>2, FS_PigeonHole
  <2> QED BY <2>3 DEF Indexes
<1>5. ASSUME NEW k \in Keys PROVE Empty(s, k) # {}
  <2>1. PICK p \in Offsets(s) : s[p] = 0
    BY <1>4
  <2>2. Home[k] \in Nat /\ Bins(s) \in Nat \ {0} /\ p \in 0..(Bins(s) - 1)
    BY <1>1, TableAssumption DEF Offsets
  <2>3. PICK d \in 0..(Bins(s) - 1) : (Home[k] + d) % Bins(s) = p
    BY <2>2, Reached
  <2>4. d \in Empty(s, k)
    BY <2>1, <2>3 DEF Empty, Probed, Offsets
  <2> QED BY <2>4
<1> QED BY <1>4, <1>5

\* The slot table_slot takes: empty, behind slots that are taken.
LEMMA FreeSlot ==
  ASSUME NEW s, NEW its, NEW n \in Nat, Indexes(s, its, n), n < Bins(s), NEW k \in Keys
  PROVE  LET d == Least(Empty(s, k))
         IN  /\ d \in Offsets(s) /\ Probed(s, k, d) \in Offsets(s)
             /\ s[Probed(s, k, d)] = 0
             /\ \A e \in 0..(d - 1) : /\ Probed(s, k, e) \in Offsets(s)
                                      /\ s[Probed(s, k, e)] # 0
<1> DEFINE d == Least(Empty(s, k))
<1>1. Bins(s) \in Nat /\ Offsets(s) \subseteq Nat /\ Bins(s) # 0
  BY OffsetsNat DEF Indexes
<1>2. Empty(s, k) \in SUBSET Nat /\ Empty(s, k) # {}
  BY <1>1, EmptySlot DEF Empty
<1>3. d \in Empty(s, k) /\ \A y \in Empty(s, k) : d <= y
  BY <1>2, LeastOf
<1> HIDE DEF d
<1>4. d \in Offsets(s) /\ s[Probed(s, k, d)] = 0
  BY <1>3 DEF Empty
<1>5. ASSUME NEW e \in 0..(d - 1)
      PROVE  Probed(s, k, e) \in Offsets(s) /\ s[Probed(s, k, e)] # 0
  <2>1. d \in Nat /\ e \in Nat /\ e < d /\ e \in Offsets(s)
    BY <1>1, <1>4 DEF Offsets
  <2>2. e \notin Empty(s, k)
    BY <1>2, <1>3, <2>1
  <2> QED BY <2>1, <2>2, <1>1, ProbedType DEF Empty
<1>6. Probed(s, k, d) \in Offsets(s)
  BY <1>1, <1>4, ProbedType
<1> QED BY <1>4, <1>5, <1>6 DEF d

\* Adding the next record to an index.
LEMMA SlottedIndexes ==
  ASSUME NEW s, NEW its, NEW n \in Nat, Indexes(s, its, n), n < Bins(s),
         NEW its2, \A id \in 1..n : its2[id] = its[id] /\ its[id] \in Keys,
         its2[n + 1] \in Keys
  PROVE  /\ Indexes(Slotted(s, its2[n + 1], n + 1), its2, n + 1)
         /\ Bins(Slotted(s, its2[n + 1], n + 1)) = Bins(s)
<1> DEFINE k == its2[n + 1]
           f == Least(Empty(s, k))
           home == Probed(s, k, f)
           t == Slotted(s, k, n + 1)
<1>0. k \in Keys
  OBVIOUS
<1>1. Bins(s) \in Nat /\ s \in [Offsets(s) -> 0..n] /\ Bins(s) # 0 /\ Offsets(s) \subseteq Nat
  BY OffsetsNat DEF Indexes
<1>2. /\ f \in Offsets(s) /\ home \in Offsets(s) /\ s[home] = 0
      /\ \A e \in 0..(f - 1) : Probed(s, k, e) \in Offsets(s) /\ s[Probed(s, k, e)] # 0
  BY <1>0, FreeSlot
<1>3. t = [s EXCEPT ![home] = n + 1]
  BY DEF Slotted
<1> HIDE DEF k, f, t
<1>4. /\ DOMAIN t = DOMAIN s
      /\ \A p \in Offsets(s) : t[p] = IF p = home THEN n + 1 ELSE s[p]
  BY <1>1, <1>3
<1>5. Bins(t) = Bins(s) /\ Offsets(t) = Offsets(s)
  BY <1>4 DEF Bins, Offsets
<1>6. \A key \in Keys, d \in Nat : Probed(t, key, d) = Probed(s, key, d)
  BY <1>5 DEF Probed
<1> HIDE DEF home
<1>7. t \in [Offsets(t) -> 0..(n + 1)]
  <2>1. n + 1 \in 0..(n + 1) /\ \A v \in 0..n : v \in 0..(n + 1)
    OBVIOUS
  <2>2. s \in [Offsets(s) -> 0..(n + 1)]
    BY <1>1, <2>1
  <2> QED BY <2>1, <2>2, <1>3, <1>5
<1>8. \A p, q \in Offsets(t) : t[p] = t[q] /\ t[p] # 0 => p = q
  <2> SUFFICES ASSUME NEW p \in Offsets(s), NEW q \in Offsets(s), t[p] = t[q], t[p] # 0
               PROVE  p = q
    BY <1>5
  <2>1. s[p] \in 0..n /\ s[q] \in 0..n
    BY <1>1
  <2>2. s[p] # n + 1 /\ s[q] # n + 1
    BY <2>1
  <2>3. CASE p = home
    BY <2>3, <2>2, <1>4
  <2>4. CASE q = home
    BY <2>4, <2>2, <1>4
  <2>5. CASE p # home /\ q # home
    BY <2>5, <1>4 DEF Indexes
  <2> QED BY <2>3, <2>4, <2>5
<1>9. ASSUME NEW id \in 1..(n + 1)
      PROVE  \E d \in Offsets(t) : /\ t[Probed(t, its2[id], d)] = id
                                   /\ \A e \in 0..(d - 1) : t[Probed(t, its2[id], e)] # 0
  <2>1. CASE id = n + 1
    <3>1. Offsets(t) = Offsets(s) /\ its2[id] = k /\ f \in Nat
      BY <2>1, <1>1, <1>2, <1>5 DEF k
    <3>2. t[Probed(t, k, f)] = n + 1
      BY <3>1, <1>0, <1>2, <1>4, <1>6 DEF home
    <3>3. ASSUME NEW e \in 0..(f - 1) PROVE t[Probed(t, k, e)] # 0
      <4>1. e \in Nat
        BY <3>1
      <4>2. Probed(t, k, e) = Probed(s, k, e)
        BY <4>1, <1>6, <1>0
      <4> QED BY <4>2, <1>2, <1>4
    <3> QED BY <3>1, <3>2, <3>3, <1>2, <2>1
  <2>2. CASE id \in 1..n
    <3>1. PICK d \in Offsets(s) : /\ s[Probed(s, its[id], d)] = id
                                  /\ \A e \in 0..(d - 1) : s[Probed(s, its[id], e)] # 0
      BY <2>2 DEF Indexes
    <3>2. its2[id] = its[id] /\ its[id] \in Keys /\ d \in Nat
      BY <2>2, <1>1
    <3>3. ASSUME NEW e \in Nat, s[Probed(s, its[id], e)] # 0
          PROVE  t[Probed(t, its2[id], e)] = s[Probed(s, its[id], e)]
      <4>1. Probed(s, its[id], e) \in Offsets(s)
        BY <3>2, <1>1, ProbedType
      <4>2. Probed(t, its2[id], e) = Probed(s, its[id], e)
        BY <3>2, <1>6
      <4> QED BY <3>3, <4>1, <4>2, <1>2, <1>4
    <3>4. t[Probed(t, its2[id], d)] = id
      BY <3>1, <3>2, <3>3, <2>2
    <3>5. ASSUME NEW e \in 0..(d - 1) PROVE t[Probed(t, its2[id], e)] # 0
      <4>1. e \in Nat
        BY <3>2
      <4> QED BY <4>1, <3>1, <3>3
    <3> QED BY <3>4, <3>5, <1>5
  <2> QED BY <2>1, <2>2
<1>10. Indexes(t, its2, n + 1)
  <2>1. Bins(t) \in Nat
    BY <1>1, <1>5
  <2>2. \A id \in 1..(n + 1) : \E d \in Offsets(t) :
          /\ t[Probed(t, its2[id], d)] = id
          /\ \A e \in 0..(d - 1) : t[Probed(t, its2[id], e)] # 0
    BY <1>9
  <2> QED BY <2>1, <2>2, <1>7, <1>8, Zenon DEF Indexes
<1> QED BY <1>10, <1>5 DEF t, k

Distinct(its) == \A p, q \in DOMAIN its : its[p] = its[q] => p = q

\* A record is found under its own identifier, whatever its neighbours: the
\* search reaches it before an empty slot, and stops at no other record.
LEMMA FoundAt ==
  ASSUME NEW s, NEW its \in Seq(Keys), Indexes(s, its, Len(its)), Distinct(its),
         NEW id \in DOMAIN its
  PROVE  Find(its, s, its[id]) = id
<1> DEFINE k == its[id]
           n == Len(its)
<1>1. n \in Nat /\ DOMAIN its = 1..n /\ id \in 1..n /\ k \in Keys
  OBVIOUS
<1>2. Bins(s) \in Nat /\ s \in [Offsets(s) -> 0..n] /\ Offsets(s) \subseteq Nat
  BY OffsetsNat DEF Indexes
<1>3. PICK d \in Offsets(s) : /\ s[Probed(s, k, d)] = id
                              /\ \A e \in 0..(d - 1) : s[Probed(s, k, e)] # 0
  BY <1>1 DEF Indexes
<1>4. d \in Nat /\ Bins(s) # 0
  BY <1>2, <1>3 DEF Offsets
<1> HIDE DEF k
<1>5. ASSUME NEW e \in Empty(s, k) PROVE d < e
  <2>1. e \in Offsets(s) /\ s[Probed(s, k, e)] = 0 /\ e \in Nat
    BY <1>2 DEF Empty
  <2>2. d # e
    BY <2>1, <1>1, <1>3
  <2>3. ~(e < d)
    <3> SUFFICES ASSUME e < d PROVE FALSE
      OBVIOUS
    <3>1. e \in 0..(d - 1)
      BY <2>1, <1>4
    <3> QED BY <3>1, <2>1, <1>3
  <2> QED BY <2>1, <2>2, <2>3, <1>4
<1>6. d \in Hits(its, s, k)
  <2>1. its[s[Probed(s, k, d)]] = k
    BY <1>3 DEF k
  <2> QED BY <2>1, <1>3, <1>5 DEF Hits
<1>7. ASSUME NEW x \in Hits(its, s, k) PROVE s[Probed(s, k, x)] = id
  <2>1. /\ x \in Offsets(s) /\ its[s[Probed(s, k, x)]] = k
        /\ \A e \in Empty(s, k) : x < e
    BY DEF Hits
  <2>2. x \in Nat /\ ~(x < x)
    BY <2>1, <1>2
  <2>3. x \notin Empty(s, k)
    BY <2>1, <2>2
  <2>4. Probed(s, k, x) \in Offsets(s)
    BY <2>2, <1>1, <1>2, <1>4, ProbedType
  <2>5. s[Probed(s, k, x)] \in 1..n
    <3>1. s[Probed(s, k, x)] \in 0..n /\ s[Probed(s, k, x)] # 0
      BY <2>1, <2>3, <2>4, <1>2 DEF Empty
    <3> QED BY <3>1, <1>1
  <2> QED BY <2>1, <2>5, <1>1 DEF Distinct, k
<1>8. Hits(its, s, k) \in SUBSET Nat /\ Hits(its, s, k) # {}
  BY <1>2, <1>6 DEF Hits
<1>9. Least(Hits(its, s, k)) \in Hits(its, s, k)
  BY <1>8, LeastOf
<1> QED BY <1>7, <1>8, <1>9 DEF Find, k

\* A fresh index of any size holds no record yet.
LEMMA EmptyIndexes ==
  ASSUME NEW bins \in Nat, NEW its
  PROVE  Indexes(EmptySlots(bins), its, 0) /\ Bins(EmptySlots(bins)) = bins
<1>1. IsFiniteSet(0..(bins - 1)) /\ Cardinality(0..(bins - 1)) = bins
  <2>1. bins - 1 \in Int
    OBVIOUS
  <2> QED BY <2>1, FS_Interval
<1>2. Bins(EmptySlots(bins)) = bins /\ Offsets(EmptySlots(bins)) = 0..(bins - 1)
  BY <1>1 DEF Bins, Offsets, EmptySlots
<1> QED BY <1>2 DEF Indexes, EmptySlots

LEMMA NoIndex == NoSlots = EmptySlots(0) /\ Bins(NoSlots) = 0
<1>1. 0..(0 - 1) = {}
  OBVIOUS
<1>2. NoSlots = EmptySlots(0)
  BY <1>1 DEF NoSlots, EmptySlots
<1> QED BY <1>2, EmptyIndexes

\* Only the records it holds matter to an index.
LEMMA SameRecords ==
  ASSUME NEW s, NEW its, NEW its2, NEW n \in Nat, Indexes(s, its, n),
         \A id \in 1..n : its2[id] = its[id]
  PROVE  Indexes(s, its2, n)
<1>1. \A id \in 1..n : \E d \in Offsets(s) :
         /\ s[Probed(s, its2[id], d)] = id
         /\ \A e \in 0..(d - 1) : s[Probed(s, its2[id], e)] # 0
  BY DEF Indexes
<1> QED BY <1>1, Zenon DEF Indexes

-----------------------------------------------------------------------------
\* The bytes held: records with the one being added, the array, both indexes.
Held == Len(items) + (IF stage = "idle" THEN 0 ELSE 1) + cap + Bins(slots) + Bins(fresh)

TableTypeOK ==
  /\ items \in Seq(Keys) /\ cap \in Nat /\ bytes \in Nat
  /\ alive \in BOOLEAN /\ stage \in {"idle", "index", "place"}
  /\ adding \in Keys /\ indexed \in Nat

Accounted == /\ bytes <= MaxBytes
             /\ alive => bytes = Held

\* The index of the records is never full, and there is room in the array.
IndexInv ==
  /\ Distinct(items) /\ Len(items) <= cap
  /\ Indexes(slots, items, Len(items))
  /\ Len(items) < Bins(slots) \/ Len(items) = 0

\* What an insertion has established so far.
InsertionInv ==
  /\ stage # "idle" => /\ alive /\ Len(items) < cap
                       /\ \A id \in DOMAIN items : items[id] # adding
  /\ stage = "index" => /\ indexed <= Len(items) /\ Bins(fresh) = cap * 2
                        /\ Indexes(fresh, items, indexed)
  /\ stage # "index" => fresh = NoSlots /\ indexed = 0
  /\ stage = "place" => Len(items) + 1 < Bins(slots)

TableInv == TableTypeOK /\ Accounted /\ IndexInv /\ InsertionInv

LEMMA TableInvFindable == TableInv => Findable
<1> SUFFICES ASSUME TableInv PROVE Findable
  OBVIOUS
<1>1. items \in Seq(Keys) /\ Len(items) \in Nat
  BY DEF TableInv, TableTypeOK
<1>2. \A id \in DOMAIN items : Find(items, slots, items[id]) = id
  BY <1>1, FoundAt DEF TableInv, IndexInv
<1>3. items # <<>> => \E p \in DOMAIN slots : slots[p] = 0
  <2> SUFFICES ASSUME items # <<>> PROVE \E p \in DOMAIN slots : slots[p] = 0
    OBVIOUS
  <2>1. Len(items) < Bins(slots) /\ Indexes(slots, items, Len(items))
    BY <1>1 DEF TableInv, IndexInv
  <2>2. \E p \in Offsets(slots) : slots[p] = 0
    BY <1>1, <2>1, EmptySlot
  <2>3. DOMAIN slots = Offsets(slots)
    BY <2>1 DEF Indexes
  <2> QED BY <2>2, <2>3
<1> QED BY <1>2, <1>3 DEF Findable

LEMMA TableInitInv == TableInit => TableInv
<1> SUFFICES ASSUME TableInit PROVE TableInv
  OBVIOUS
<1>1. items = <<>> /\ items \in Seq(Keys) /\ Len(items) = 0 /\ DOMAIN items = {}
  BY DEF TableInit
<1>2. Bins(NoSlots) = 0 /\ Indexes(NoSlots, items, 0)
  BY NoIndex, EmptyIndexes
<1>3. TableTypeOK
  BY <1>1 DEF TableInit, TableTypeOK
<1>4. Accounted
  BY <1>1, <1>2, TableAssumption DEF TableInit, Accounted, Held
<1>5. IndexInv
  BY <1>1, <1>2 DEF TableInit, IndexInv, Distinct
<1>6. InsertionInv
  BY DEF TableInit, InsertionInv
<1> QED BY <1>3, <1>4, <1>5, <1>6 DEF TableInv

-----------------------------------------------------------------------------
\* The steps.

\* A key the index does not know has no record.
LEMMA UnknownKey ==
  ASSUME TableInv, NEW k \in Keys, Find(items, slots, k) = 0
  PROVE  \A id \in DOMAIN items : items[id] # k
<1> SUFFICES ASSUME NEW id \in DOMAIN items, items[id] = k PROVE FALSE
  OBVIOUS
<1>1. Find(items, slots, items[id]) = id
  BY FoundAt DEF TableInv, TableTypeOK, IndexInv
<1>2. id \in 1..Len(items)
  BY DEF TableInv, TableTypeOK
<1> QED BY <1>1, <1>2

\* An insertion that gives up.
LEMMA RefusedStep ==
  ASSUME TableInv, alive, stage = "idle", NEW used \in Nat, NEW room \in Nat,
         Refused(used, room), used <= MaxBytes, cap <= room
  PROVE  TableInv'
<1>1. /\ alive' = FALSE /\ bytes' = used /\ cap' = room
      /\ UNCHANGED <<items, slots, stage, adding, fresh, indexed>>
  BY DEF Refused, insertion
<1>2. TableTypeOK'
  BY <1>1 DEF TableInv, TableTypeOK
<1>3. Accounted'
  BY <1>1 DEF Accounted
<1>4. IndexInv'
  <2>1. Len(items) \in Nat /\ cap \in Nat /\ Len(items) <= cap
    BY DEF TableInv, TableTypeOK, IndexInv
  <2>2. Len(items) <= room
    BY <2>1
  <2> QED BY <1>1, <2>2 DEF TableInv, IndexInv
<1>5. InsertionInv'
  BY <1>1 DEF TableInv, InsertionInv
<1> QED BY <1>2, <1>3, <1>4, <1>5 DEF TableInv

LEMMA InsertStep ==
  ASSUME TableInv, alive, stage = "idle", NEW k \in Keys,
         Find(items, slots, k) = 0, Insert(k)
  PROVE  TableInv'
<1> DEFINE n == Len(items)
           newCap == IF n < cap THEN cap ELSE IF cap = 0 THEN FirstItems ELSE cap * 2
           more == IF newCap = cap THEN 0 ELSE newCap
           bins == newCap * 2
           withRecord == bytes + 1
           released == IF newCap = cap THEN withRecord ELSE withRecord + newCap - cap
<1>1. /\ items \in Seq(Keys) /\ n \in Nat /\ cap \in Nat /\ n <= cap /\ bytes \in Nat
      /\ bytes <= MaxBytes /\ FirstItems \in Nat \ {0} /\ MaxBytes \in Nat
      /\ Bins(slots) \in Nat /\ (n < Bins(slots) \/ n = 0)
      /\ fresh = NoSlots /\ indexed = 0 /\ Bins(fresh) = 0
      /\ bytes = n + cap + Bins(slots)
  <2>1. items \in Seq(Keys) /\ n \in Nat /\ cap \in Nat /\ n <= cap /\ bytes \in Nat
    BY DEF TableInv, TableTypeOK, IndexInv
  <2>2. fresh = NoSlots /\ indexed = 0 /\ Bins(fresh) = 0
    BY NoIndex DEF TableInv, InsertionInv
  <2>3. Bins(slots) \in Nat /\ (n < Bins(slots) \/ n = 0)
    BY DEF TableInv, IndexInv, Indexes
  <2>4. bytes <= MaxBytes /\ bytes = Held
    BY DEF TableInv, Accounted
  <2>5. bytes = n + cap + Bins(slots)
    BY <2>1, <2>2, <2>3, <2>4 DEF Held
  <2> QED BY <2>1, <2>2, <2>3, <2>4, <2>5, TableAssumption
<1>2. \A id \in DOMAIN items : items[id] # k
  BY UnknownKey
<1>3. newCap \in Nat /\ cap <= newCap /\ n < newCap
  BY <1>1
<1>c. \/ Refused(bytes, cap) /\ ~Fits(bytes, 1)
      \/ /\ Refused(withRecord, cap) /\ Fits(bytes, 1)
      \/ /\ Fits(bytes, 1) /\ Fits(withRecord, more)
         /\ ~Crowded(n, Bins(slots))
         /\ cap' = newCap /\ bytes' = released
         /\ stage' = "place" /\ adding' = k
         /\ UNCHANGED <<items, slots, alive, fresh, indexed>>
      \/ /\ Fits(bytes, 1) /\ Fits(withRecord, more)
         /\ Refused(released, newCap)
      \/ /\ Fits(bytes, 1) /\ Fits(withRecord, more) /\ Fits(released, bins)
         /\ cap' = newCap /\ bytes' = released + bins
         /\ stage' = "index" /\ adding' = k
         /\ fresh' = EmptySlots(bins) /\ indexed' = 0
         /\ UNCHANGED <<items, slots, alive>>
  BY Zenon DEF Insert
<1>4. withRecord \in Nat /\ released \in Nat /\ bins \in Nat /\ more \in Nat
  BY <1>1, <1>3
<1>5. Fits(bytes, 1) => withRecord <= MaxBytes
  BY <1>1 DEF Fits
<1>6. Fits(bytes, 1) /\ Fits(withRecord, more) => released <= MaxBytes
  BY <1>1, <1>3, <1>5 DEF Fits
<1>7. released = n + 1 + newCap + Bins(slots)
  BY <1>1, <1>3
<1> HIDE DEF newCap, more, withRecord, released, bins
<1>8. CASE Refused(bytes, cap)
  BY <1>1, <1>8, RefusedStep
<1>9. CASE Refused(withRecord, cap) /\ Fits(bytes, 1)
  BY <1>1, <1>4, <1>5, <1>9, RefusedStep
<1>10. CASE Refused(released, newCap) /\ Fits(bytes, 1) /\ Fits(withRecord, more)
  BY <1>1, <1>3, <1>4, <1>6, <1>10, RefusedStep
<1>i. ASSUME UNCHANGED <<items, slots>>, cap' = newCap PROVE IndexInv'
  BY <1>i, <1>1, <1>3 DEF TableInv, IndexInv
<1>11. CASE /\ Fits(bytes, 1) /\ Fits(withRecord, more)
            /\ ~Crowded(n, Bins(slots))
            /\ cap' = newCap /\ bytes' = released
            /\ stage' = "place" /\ adding' = k
            /\ UNCHANGED <<items, slots, alive, fresh, indexed>>
  <2>1. TableTypeOK'
    BY <1>11, <1>3, <1>4 DEF TableInv, TableTypeOK
  <2>2. Bins(slots)' = Bins(slots) /\ Bins(fresh)' = 0
    BY <1>11, <1>1
  <2>3. Held' = n + 1 + newCap + Bins(slots) + 0
    BY <1>11, <2>2 DEF Held
  <2>4. Accounted'
    BY <1>11, <1>1, <1>3, <1>6, <1>7, <2>3 DEF Accounted
  <2>5. n + 1 < Bins(slots)
    <3>1. ~(n >= Bins(slots) \div 2)
      BY <1>11 DEF Crowded
    <3>2. \A b \in Nat, m \in Nat : ~(m >= b \div 2) => m + 1 < b
      OBVIOUS
    <3> QED BY <3>1, <3>2, <1>1
  <2>6. InsertionInv'
    BY <1>1, <1>2, <1>3, <1>11, <2>2, <2>5 DEF InsertionInv
  <2> QED BY <1>11, <1>i, <2>1, <2>4, <2>6 DEF TableInv
<1>12. CASE /\ Fits(bytes, 1) /\ Fits(withRecord, more) /\ Fits(released, bins)
            /\ cap' = newCap /\ bytes' = released + bins
            /\ stage' = "index" /\ adding' = k
            /\ fresh' = EmptySlots(bins) /\ indexed' = 0
            /\ UNCHANGED <<items, slots, alive>>
  <2>1. TableTypeOK'
    BY <1>12, <1>3, <1>4 DEF TableInv, TableTypeOK
  <2>2. Bins(slots)' = Bins(slots) /\ Bins(fresh)' = bins /\ Indexes(fresh', items', 0)
    BY <1>12, <1>4, EmptyIndexes
  <2>3. Held' = n + 1 + newCap + Bins(slots) + bins
    BY <1>12, <2>2 DEF Held
  <2>4. Accounted'
    BY <1>12, <1>1, <1>3, <1>4, <1>7, <2>3 DEF Accounted, Fits
  <2>5. bins = newCap * 2
    BY DEF bins
  <2>6. InsertionInv'
    BY <1>1, <1>2, <1>3, <1>12, <2>2, <2>5 DEF InsertionInv
  <2> QED BY <1>12, <1>i, <2>1, <2>4, <2>6 DEF TableInv
<1> QED BY <1>c, <1>8, <1>9, <1>10, <1>11, <1>12

LEMMA ReindexStep == TableInv /\ Reindex => TableInv'
<1> SUFFICES ASSUME TableInv, Reindex PROVE TableInv'
  OBVIOUS
<1> DEFINE k == items[indexed + 1]
<1>1. /\ stage = "index" /\ indexed < Len(items)
      /\ fresh' = Slotted(fresh, k, indexed + 1) /\ indexed' = indexed + 1
      /\ UNCHANGED <<items, cap, slots, bytes, alive, stage, adding>>
  BY DEF Reindex, table
<1>2. /\ items \in Seq(Keys) /\ Len(items) \in Nat /\ cap \in Nat /\ indexed \in Nat
      /\ Len(items) < cap /\ Bins(fresh) = cap * 2 /\ Indexes(fresh, items, indexed)
  BY <1>1 DEF TableInv, TableTypeOK, InsertionInv
<1>3. indexed < Bins(fresh) /\ k \in Keys /\ \A id \in 1..indexed : items[id] \in Keys
  BY <1>1, <1>2
<1>4. Indexes(fresh', items, indexed + 1) /\ Bins(fresh') = Bins(fresh)
  BY <1>1, <1>2, <1>3, SlottedIndexes
<1>5. TableTypeOK'
  BY <1>1, <1>2 DEF TableInv, TableTypeOK
<1>6. Accounted'
  BY <1>1, <1>4 DEF TableInv, Accounted, Held
<1>7. IndexInv'
  BY <1>1 DEF TableInv, IndexInv
<1>8. InsertionInv'
  <2>1. indexed' <= Len(items)
    BY <1>1, <1>2
  <2>2. Indexes(fresh, items, indexed)' /\ Bins(fresh)' = Bins(fresh)
    BY <1>1, <1>4
  <2> QED BY <1>1, <1>2, <2>1, <2>2 DEF TableInv, InsertionInv
<1> QED BY <1>5, <1>6, <1>7, <1>8 DEF TableInv

LEMMA SwapIndexStep == TableInv /\ SwapIndex => TableInv'
<1> SUFFICES ASSUME TableInv, SwapIndex PROVE TableInv'
  OBVIOUS
<1>1. /\ stage = "index" /\ indexed = Len(items)
      /\ slots' = fresh /\ bytes' = bytes - Bins(slots)
      /\ fresh' = NoSlots /\ indexed' = 0 /\ stage' = "place"
      /\ UNCHANGED <<items, cap, alive, adding>>
  BY DEF SwapIndex
<1>2. /\ items \in Seq(Keys) /\ Len(items) \in Nat /\ cap \in Nat /\ bytes \in Nat
      /\ alive /\ Len(items) < cap /\ Bins(fresh) = cap * 2 /\ Indexes(fresh, items, Len(items))
  BY <1>1 DEF TableInv, TableTypeOK, InsertionInv
<1>3. Bins(slots) \in Nat /\ bytes <= MaxBytes
  BY DEF TableInv, IndexInv, Indexes, Accounted
<1>4. bytes = Len(items) + 1 + cap + Bins(slots) + Bins(fresh)
  BY <1>1, <1>2 DEF TableInv, Accounted, Held
<1>5. bytes' = Len(items) + 1 + cap + Bins(fresh) /\ bytes' \in Nat /\ bytes' <= MaxBytes
  BY <1>1, <1>2, <1>3, <1>4, TableAssumption
<1>6. Bins(fresh)' = 0 /\ Bins(slots)' = Bins(fresh)
  BY <1>1, NoIndex
<1>7. TableTypeOK'
  BY <1>1, <1>2, <1>5 DEF TableInv, TableTypeOK
<1>8. Accounted'
  <2>1. Held' = Len(items) + 1 + cap + Bins(fresh) + 0
    BY <1>1, <1>6 DEF Held
  <2> QED BY <1>2, <1>5, <2>1 DEF Accounted
<1>9. IndexInv'
  BY <1>1, <1>2 DEF TableInv, IndexInv
<1>10. InsertionInv'
  BY <1>1, <1>2, <1>6 DEF TableInv, InsertionInv
<1> QED BY <1>7, <1>8, <1>9, <1>10 DEF TableInv

LEMMA PlaceStep == TableInv /\ Place => TableInv'
<1> SUFFICES ASSUME TableInv, Place PROVE TableInv'
  OBVIOUS
<1> DEFINE n == Len(items)
           its == Append(items, adding)
<1>1. /\ stage = "place" /\ items' = its /\ stage' = "idle"
      /\ slots' = Slotted(slots, adding, n + 1)
      /\ UNCHANGED <<cap, bytes, alive, adding, fresh, indexed>>
  BY DEF Place, insertion
<1>2. /\ items \in Seq(Keys) /\ n \in Nat /\ cap \in Nat /\ bytes \in Nat /\ adding \in Keys
      /\ alive /\ n < cap /\ n + 1 < Bins(slots) /\ \A id \in DOMAIN items : items[id] # adding
      /\ fresh = NoSlots /\ indexed = 0
  BY <1>1 DEF TableInv, TableTypeOK, InsertionInv
<1>3. Bins(slots) \in Nat /\ Indexes(slots, items, n) /\ Distinct(items)
  BY DEF TableInv, IndexInv, Indexes
<1>4. /\ its \in Seq(Keys) /\ Len(its) = n + 1 /\ its[n + 1] = adding
      /\ \A id \in 1..n : its[id] = items[id] /\ items[id] \in Keys
      /\ DOMAIN its = 1..(n + 1) /\ DOMAIN items = 1..n
  BY <1>2
<1> HIDE DEF its
<1>5. n < Bins(slots)
  BY <1>2, <1>3
<1>6. Indexes(slots', its, n + 1) /\ Bins(slots') = Bins(slots)
  BY <1>1, <1>2, <1>3, <1>4, <1>5, SlottedIndexes
<1>7. Distinct(its)
  <2> SUFFICES ASSUME NEW p \in 1..(n + 1), NEW q \in 1..(n + 1), its[p] = its[q]
               PROVE  p = q
    BY <1>4 DEF Distinct
  <2>1. CASE p \in 1..n /\ q \in 1..n
    BY <2>1, <1>3, <1>4 DEF Distinct
  <2>2. CASE p = n + 1 /\ q \in 1..n
    BY <2>2, <1>2, <1>4
  <2>3. CASE q = n + 1 /\ p \in 1..n
    BY <2>3, <1>2, <1>4
  <2>4. CASE p = n + 1 /\ q = n + 1
    BY <2>4
  <2> QED BY <2>1, <2>2, <2>3, <2>4, <1>2
<1>8. TableTypeOK'
  BY <1>1, <1>2, <1>4 DEF TableInv, TableTypeOK
<1>9. Accounted'
  <2>1. bytes = n + 1 + cap + Bins(slots) + Bins(fresh) /\ bytes <= MaxBytes
    BY <1>1, <1>2 DEF TableInv, Accounted, Held
  <2>2. Held' = Len(its) + 0 + cap + Bins(slots) + Bins(fresh)
    BY <1>1, <1>6 DEF Held
  <2>3. Held' = bytes
    BY <2>1, <2>2, <1>2, <1>3, <1>4, NoIndex
  <2> QED BY <1>1, <2>1, <2>3 DEF Accounted
<1>10. IndexInv'
  <2>1. Len(its) <= cap /\ Len(its) < Bins(slots')
    BY <1>2, <1>4, <1>6
  <2>2. Indexes(slots', its, Len(its))
    BY <1>4, <1>6
  <2> QED BY <1>1, <1>7, <2>1, <2>2 DEF IndexInv
<1>11. InsertionInv'
  BY <1>1, <1>2 DEF InsertionInv
<1> QED BY <1>8, <1>9, <1>10, <1>11 DEF TableInv

\* The only record is in its home slot, so emptying that slot empties the index.
LEMMA RekeyStep ==
  ASSUME TableInv, NEW k \in Keys, Rekey(k) PROVE TableInv'
<1> DEFINE home == Home[items[1]] % Bins(slots)
           s == [slots EXCEPT ![home] = 0]
           its == <<k>>
<1>1. /\ alive /\ stage = "idle" /\ Len(items) = 1
      /\ items' = its /\ slots' = Slotted(s, k, 1)
      /\ UNCHANGED <<cap, bytes, alive, stage, adding, fresh, indexed>>
  BY DEF Rekey, insertion
<1>2. /\ items \in Seq(Keys) /\ cap \in Nat /\ 1 <= cap /\ Indexes(slots, items, 1)
      /\ 1 < Bins(slots) /\ Bins(slots) \in Nat /\ items[1] \in Keys
  BY <1>1 DEF TableInv, TableTypeOK, IndexInv, Indexes
<1>3. Home[items[1]] \in Nat /\ Home[items[1]] + 0 = Home[items[1]]
  BY <1>2, TableAssumption
<1>4. Probed(slots, items[1], 0) = home
  BY <1>3 DEF Probed
<1> HIDE DEF home
<1>5. home \in Offsets(slots)
  BY <1>2, <1>4, ProbedType
<1>6. slots \in [Offsets(slots) -> 0..1] /\ Offsets(slots) \subseteq Nat
  BY <1>2, OffsetsNat DEF Indexes
<1>7. slots[home] = 1
  <2>1. PICK d \in Offsets(slots) : /\ slots[Probed(slots, items[1], d)] = 1
                                    /\ \A e \in 0..(d - 1) : slots[Probed(slots, items[1], e)] # 0
    BY <1>2 DEF Indexes
  <2>2. CASE d = 0
    BY <2>1, <2>2, <1>4
  <2>3. CASE d # 0
    <3>1. 0 \in 0..(d - 1)
      BY <2>3, <1>6
    <3>2. slots[home] # 0 /\ slots[home] \in 0..1
      BY <3>1, <2>1, <1>4, <1>5, <1>6
    <3> QED BY <3>2
  <2> QED BY <2>2, <2>3
<1>8. \A p \in Offsets(slots) : s[p] = 0
  <2> SUFFICES ASSUME NEW p \in Offsets(slots), p # home PROVE slots[p] = 0
    BY <1>5, <1>6
  <2>1. slots[p] \in 0..1 /\ (slots[p] = 1 => p = home)
    BY <1>2, <1>5, <1>6, <1>7 DEF Indexes
  <2> QED BY <2>1
<1>9. DOMAIN s = DOMAIN slots /\ Bins(s) = Bins(slots) /\ Offsets(s) = Offsets(slots)
  BY DEF Bins, Offsets
<1>10. Indexes(s, its, 0)
  <2> HIDE DEF its
  <2>1. s \in [Offsets(slots) -> 0..1] /\ 0 \in 0..0
    <3>1. 0 \in 0..1 /\ 0 \in 0..0
      OBVIOUS
    <3> QED BY <1>5, <1>6, <3>1
  <2> HIDE DEF s
  <2>2. s \in [Offsets(slots) -> 0..0]
    BY <2>1, <1>8
  <2>3. \A p, q \in Offsets(s) : s[p] = s[q] /\ s[p] # 0 => p = q
    BY <1>8, <1>9
  <2>4. \A id \in 1..0 : FALSE
    OBVIOUS
  <2> QED BY <1>2, <1>9, <2>2, <2>3, <2>4 DEF Indexes
<1>11. its \in Seq(Keys) /\ Len(its) = 1 /\ its[1] = k /\ DOMAIN its = 1..1
  OBVIOUS
<1> HIDE DEF s, its
<1>12. Indexes(slots', its, 1) /\ Bins(slots') = Bins(slots)
  <2>1. 0 < Bins(s) /\ its[0 + 1] = k /\ 0 + 1 = 1 /\ \A id \in 1..0 : FALSE
    BY <1>2, <1>9, <1>11
  <2>2. /\ Indexes(Slotted(s, its[0 + 1], 0 + 1), its, 0 + 1)
        /\ Bins(Slotted(s, its[0 + 1], 0 + 1)) = Bins(s)
    BY <1>10, <2>1, SlottedIndexes
  <2> QED BY <1>1, <1>9, <2>1, <2>2
<1>13. TableTypeOK'
  BY <1>1, <1>11 DEF TableInv, TableTypeOK
<1>14. Accounted'
  BY <1>1, <1>11, <1>12 DEF TableInv, Accounted, Held
<1>15. IndexInv'
  BY <1>1, <1>2, <1>11, <1>12 DEF IndexInv, Distinct
<1>16. InsertionInv'
  BY <1>1 DEF TableInv, InsertionInv
<1> QED BY <1>13, <1>14, <1>15, <1>16 DEF TableInv

LEMMA TableStopStep == TableInv /\ TableStop => TableInv'
<1> SUFFICES ASSUME TableInv, TableStop PROVE TableInv'
  OBVIOUS
<1>1. /\ alive /\ alive' = FALSE /\ stage' = "idle" /\ fresh' = NoSlots /\ indexed' = 0
      /\ bytes' = bytes - Bins(fresh) /\ UNCHANGED <<items, cap, slots, adding>>
  BY DEF TableStop, table
<1>2. Bins(fresh) \in Nat
  <2>1. CASE stage = "index"
    BY <2>1 DEF TableInv, InsertionInv, Indexes
  <2>2. CASE stage # "index"
    BY <2>2, NoIndex DEF TableInv, InsertionInv
  <2> QED BY <2>1, <2>2
<1>3. /\ Len(items) \in Nat /\ cap \in Nat /\ bytes \in Nat /\ Bins(slots) \in Nat
      /\ bytes <= MaxBytes /\ bytes = Held /\ MaxBytes \in Nat
  BY <1>1, TableAssumption DEF TableInv, TableTypeOK, IndexInv, Indexes, Accounted
<1>4. bytes' \in Nat /\ bytes' <= MaxBytes
  BY <1>1, <1>2, <1>3 DEF Held
<1>5. TableTypeOK'
  BY <1>1, <1>4 DEF TableInv, TableTypeOK
<1>6. Accounted'
  BY <1>1, <1>4 DEF Accounted
<1>7. IndexInv'
  BY <1>1 DEF TableInv, IndexInv
<1>8. InsertionInv'
  BY <1>1 DEF TableInv, InsertionInv
<1> QED BY <1>5, <1>6, <1>7, <1>8 DEF TableInv

LEMMA TableClearStep == TableInv /\ TableClear => TableInv'
<1> SUFFICES ASSUME TableInv, TableClear PROVE TableInv'
  OBVIOUS
<1>1. /\ alive /\ stage = "idle" /\ items' = <<>> /\ cap' = 0 /\ slots' = NoSlots
      /\ bytes' = 0 /\ UNCHANGED <<alive, stage, adding, fresh, indexed>>
  BY DEF TableClear, insertion
<1>2. Bins(NoSlots) = 0 /\ Indexes(NoSlots, items', 0)
  BY NoIndex, EmptyIndexes
<1>3. fresh = NoSlots /\ Len(items') = 0 /\ DOMAIN items' = {} /\ items' \in Seq(Keys)
  BY <1>1 DEF TableInv, InsertionInv
<1>4. TableTypeOK'
  BY <1>1, <1>3 DEF TableInv, TableTypeOK
<1>5. Accounted'
  BY <1>1, <1>2, <1>3, TableAssumption DEF Accounted, Held
<1>6. IndexInv'
  BY <1>1, <1>2, <1>3 DEF IndexInv, Distinct
<1>7. InsertionInv'
  BY <1>1 DEF TableInv, InsertionInv
<1> QED BY <1>4, <1>5, <1>6, <1>7 DEF TableInv

LEMMA TableStep == TableInv /\ [TableNext]_tableVars => TableInv'
<1> SUFFICES ASSUME TableInv, [TableNext]_tableVars PROVE TableInv'
  OBVIOUS
<1>1. ASSUME UNCHANGED tableVars PROVE TableInv'
  BY <1>1 DEF tableVars, table, insertion, TableInv, TableTypeOK, Accounted, Held,
              IndexInv, InsertionInv
<1>2. ASSUME NEW k \in Keys, Intern(k) PROVE TableInv'
  BY <1>1, <1>2, InsertStep DEF Intern
<1>3. ASSUME NEW k \in Keys, Rekey(k) PROVE TableInv'
  BY <1>3, RekeyStep
<1> QED BY <1>1, <1>2, <1>3, ReindexStep, SwapIndexStep, PlaceStep, TableStopStep,
           TableClearStep DEF TableNext

LEMMA TableInvAlways == TableSpec => []TableInv
BY TableInitInv, TableStep, PTL DEF TableSpec

\* For every set of keys, every hash and every budget: whatever was interned, in
\* whatever order and through whatever growth, every record is found under its
\* own identifier, no key has two records, and every search ends (dpa_probe,
\* table_slot, dpa_insert).
THEOREM InternedFindable == TableSpec => []Findable
BY TableInvAlways, TableInvFindable, PTL

\* dpa_alloc and dpa_release keep exact accounts of what a living context holds,
\* growth included, and never allow more than the budget.
THEOREM BytesAccounted == TableSpec => []Accounted
BY TableInvAlways, PTL DEF TableInv

\* Interning, with its index, its growth and every failure, is the abstract
\* interner: identifiers are stable and no key ever has two (dpa_state,
\* dpa_class, dpa_atom, which compare identifiers in place of records).
THEOREM TableImplementsInterner == TableSpec => Interner
<1> DEFINE Step == AllGone \/ \E k \in Keys : NewRecord(k) \/ KeyedAnew(k)
<1>1. TableInit => items = <<>>
  BY DEF TableInit
<1>2. TableInv /\ [TableNext]_tableVars => [Step]_items
  <2> SUFFICES ASSUME TableInv, [TableNext]_tableVars, items' # items PROVE Step
    OBVIOUS
  <2>1. ASSUME NEW k \in Keys, Intern(k) PROVE FALSE
    <3>1. Insert(k) => items' = items
      BY Zenon DEF Insert, Refused
    <3>2. UNCHANGED tableVars => items' = items
      BY DEF tableVars, table
    <3> QED BY <2>1, <3>1, <3>2 DEF Intern
  <2>2. ASSUME NEW k \in Keys, Rekey(k) PROVE Step
    BY <2>2 DEF Rekey, KeyedAnew
  <2>3. CASE Place
    <3>1. adding \in Keys /\ stage = "place" /\ items' = Append(items, adding)
      BY <2>3 DEF Place, TableInv, TableTypeOK
    <3>2. \A id \in DOMAIN items : items[id] # adding
      BY <3>1 DEF TableInv, InsertionInv
    <3> QED BY <3>1, <3>2 DEF NewRecord
  <2>4. CASE TableClear
    BY <2>4 DEF TableClear, AllGone
  <2>5. ~Reindex /\ ~SwapIndex /\ ~TableStop /\ ~UNCHANGED tableVars
    BY DEF Reindex, SwapIndex, TableStop, table, tableVars
  <2> QED BY <2>1, <2>2, <2>3, <2>4, <2>5 DEF TableNext
<1>3. TableSpec => []TableInv /\ [][TableNext]_tableVars
  BY TableInvAlways, PTL DEF TableSpec
<1> QED BY <1>1, <1>2, <1>3, PTL DEF TableSpec, Interner

-----------------------------------------------------------------------------
\* The staged expansion.

Fields == {"params", "defs", "declared", "buses", "scalars", "labels", "formulas"}

\* The copy has every field, and as many formulas as were given.
CopyKept ==
  Fields \subseteq DOMAIN staged /\ DOMAIN staged.formulas = DOMAIN given.spec.formulas

\* The nodes that carry an id are those that did and those this call stamped.
IdsTracked ==
  /\ stamped = given.stamped \cup changes
  /\ changes \cap given.stamped = {}

\* How far the call has come.
ExpandInv ==
  /\ given.spec \in Specs
  /\ given.stamped # {} => given.provenance
  /\ expandPc \in {"copy", "ids", "params", "buses", "formulas", "publish", "undo",
                   "failed", "done"}
  /\ expandPc # "done" => spec = given.spec
  /\ expandPc \in {"copy", "ids"} => stamped = given.stamped /\ changes = {}
  /\ expandPc \in {"ids", "params", "buses", "formulas", "publish"} => CopyKept
  /\ expandPc \in {"params", "buses", "formulas", "publish", "undo"} => IdsTracked
  /\ expandPc = "ids" => given.provenance
  /\ expandPc \in {"params", "buses", "formulas", "publish", "done"} =>
       stamped = IF given.provenance THEN SourceNodes ELSE given.stamped
  /\ expandPc = "publish" => staged.params = <<>> /\ staged.defs = <<>>
  /\ expandPc = "failed" => stamped = given.stamped
  /\ expandPc = "done" => /\ DOMAIN spec.formulas = DOMAIN given.spec.formulas
                          /\ spec.params = <<>> /\ spec.defs = <<>>

LEMMA ExpandInitInv == ExpandInit => ExpandInv
<1> SUFFICES ASSUME NEW g \in [spec : Specs, overrides : Overrides,
                               provenance : BOOLEAN, stamped : SUBSET SourceNodes],
                    g.stamped # {} => g.provenance, ExpandCalled(g)
             PROVE  ExpandInv
  BY DEF ExpandInit
<1> QED BY DEF ExpandCalled, ExpandInv

LEMMA CopyStep == ExpandInv /\ Copy => ExpandInv'
<1> SUFFICES ASSUME ExpandInv, Copy PROVE ExpandInv'
  OBVIOUS
<1>1. /\ expandPc = "copy" /\ staged' = spec /\ spec = given.spec
      /\ expandPc' = IF given.provenance THEN "ids" ELSE "params"
      /\ UNCHANGED <<given, spec, stamped, changes, at>>
  BY DEF ExpandInv, Copy, ids
<1>2. CopyKept'
  BY <1>1, SpecsAssumption DEF ExpandInv, CopyKept, Fields
<1>3. given.stamped # {} => given.provenance
  BY DEF ExpandInv
<1> QED BY <1>1, <1>2, <1>3 DEF ExpandInv, IdsTracked

LEMMA AssignStep == ExpandInv /\ AssignSourceIds => ExpandInv'
<1> SUFFICES ASSUME ExpandInv, AssignSourceIds PROVE ExpandInv'
  OBVIOUS
<1>1. PICK some \in SUBSET (SourceNodes \ stamped) :
        /\ expandPc = "ids" /\ changes' = some /\ stamped' = stamped \cup some
        /\ expandPc' = IF stamped' = SourceNodes THEN "params" ELSE "undo"
        /\ UNCHANGED <<given, spec, staged, at>>
  BY DEF AssignSourceIds
<1>2. stamped = given.stamped /\ given.provenance /\ CopyKept
  BY <1>1 DEF ExpandInv
<1>3. IdsTracked'
  BY <1>1, <1>2 DEF IdsTracked
<1>4. CopyKept'
  BY <1>1, <1>2 DEF CopyKept
<1> QED BY <1>1, <1>2, <1>3, <1>4 DEF ExpandInv

\* The steps on the copy alone: they go on, or to the undoing.
LEMMA CopyOnly ==
  ASSUME ExpandInv, expandPc \in {"params", "buses", "formulas"},
         UNCHANGED <<given, spec, stamped, changes>>,
         expandPc' \in {"buses", "formulas", "publish", "undo"},
         CopyKept',
         expandPc' = "publish" => staged'.params = <<>> /\ staged'.defs = <<>>
  PROVE  ExpandInv'
<1>1. IdsTracked'
  BY DEF ExpandInv, IdsTracked
<1> QED BY <1>1 DEF ExpandInv

LEMMA FieldSet ==
  ASSUME NEW s, Fields \subseteq DOMAIN s, NEW x \in Fields \ {"formulas"}, NEW v
  PROVE  LET t == [s EXCEPT ![x] = v]
         IN  Fields \subseteq DOMAIN t /\ t.formulas = s.formulas /\ t[x] = v
BY DEF Fields

LEMMA ResolveParamsStep == ExpandInv /\ ResolveParams => ExpandInv'
<1> SUFFICES ASSUME ExpandInv, ResolveParams PROVE ExpandInv'
  OBVIOUS
<1>1. /\ expandPc = "params" /\ UNCHANGED <<given, spec, stamped, changes, at>>
      /\ expandPc' \in {"buses", "undo"}
      /\ staged' = staged \/ \E v : staged' = [staged EXCEPT !.params = v]
  BY DEF ResolveParams, ids
<1>2. CopyKept
  BY <1>1 DEF ExpandInv
<1>3. CopyKept'
  BY <1>1, <1>2, FieldSet DEF CopyKept, Fields
<1> QED BY <1>1, <1>3, CopyOnly

LEMMA ResolveBusesStep == ExpandInv /\ ResolveBuses => ExpandInv'
<1> SUFFICES ASSUME ExpandInv, ResolveBuses PROVE ExpandInv'
  OBVIOUS
<1>1. /\ expandPc = "buses" /\ UNCHANGED <<given, spec, stamped, changes, at>>
      /\ expandPc' \in {"formulas", "undo"}
      /\ staged' = staged \/ \E v : staged' = [staged EXCEPT !.buses = v]
  BY DEF ResolveBuses, ids
<1>2. CopyKept
  BY <1>1 DEF ExpandInv
<1>3. CopyKept'
  BY <1>1, <1>2, FieldSet DEF CopyKept, Fields
<1> QED BY <1>1, <1>3, CopyOnly

LEMMA ExpandFormulaStep == ExpandInv /\ ExpandFormula => ExpandInv'
<1> SUFFICES ASSUME ExpandInv, ExpandFormula PROVE ExpandInv'
  OBVIOUS
<1>1. /\ expandPc = "formulas" /\ UNCHANGED <<given, spec, stamped, changes>>
      /\ expandPc' \in {"formulas", "undo"}
      /\ staged' = staged \/ \E v : staged' = [staged EXCEPT !.formulas[at] = v]
  BY DEF ExpandFormula, ids
<1>2. CopyKept
  BY <1>1 DEF ExpandInv
<1>3. ASSUME NEW v, staged' = [staged EXCEPT !.formulas[at] = v]
      PROVE  /\ DOMAIN staged' = DOMAIN staged
             /\ DOMAIN staged'.formulas = DOMAIN staged.formulas
  BY <1>2, <1>3 DEF CopyKept, Fields
<1>4. CopyKept'
  BY <1>1, <1>2, <1>3 DEF CopyKept
<1> QED BY <1>1, <1>4, CopyOnly

LEMMA ExplodeStep == ExpandInv /\ ExplodeSignals => ExpandInv'
<1> SUFFICES ASSUME ExpandInv, ExplodeSignals PROVE ExpandInv'
  OBVIOUS
<1>1. /\ expandPc = "formulas" /\ UNCHANGED <<given, spec, stamped, changes, at>>
      /\ expandPc' = "publish"
      /\ staged' = [staged EXCEPT !.scalars = Exploded(staged), !.params = <<>>, !.defs = <<>>]
  BY DEF ExplodeSignals, ids
<1>2. CopyKept
  BY <1>1 DEF ExpandInv
<1> DEFINE s1 == [staged EXCEPT !.scalars = Exploded(staged)]
           s2 == [s1 EXCEPT !.params = <<>>]
           s3 == [s2 EXCEPT !.defs = <<>>]
<1>3. Fields \subseteq DOMAIN s1 /\ s1.formulas = staged.formulas
  BY <1>2, FieldSet DEF CopyKept, Fields
<1>4. staged' = s3
  BY <1>1
<1> HIDE DEF s1
<1>5. Fields \subseteq DOMAIN s2 /\ s2.formulas = staged.formulas /\ s2.params = <<>>
  BY <1>3, FieldSet DEF Fields
<1> HIDE DEF s2
<1>6. /\ Fields \subseteq DOMAIN s3 /\ s3.formulas = staged.formulas /\ s3.defs = <<>>
      /\ s3.params = s2.params
  BY <1>5, FieldSet DEF Fields
<1> HIDE DEF s3
<1>7. CopyKept'
  BY <1>1, <1>2, <1>4, <1>6 DEF CopyKept
<1> QED BY <1>1, <1>4, <1>5, <1>6, <1>7, CopyOnly

LEMMA ExpandStep == ExpandInv /\ [ExpandNext]_expandVars => ExpandInv'
<1> SUFFICES ASSUME ExpandInv, [ExpandNext]_expandVars PROVE ExpandInv'
  OBVIOUS
<1>1. CASE Publish
  BY <1>1 DEF ExpandInv, Publish, ids, CopyKept
<1>2. CASE OutOfMemory
  BY <1>2 DEF ExpandInv, OutOfMemory, ids, CopyKept, IdsTracked
<1>3. CASE UndoIds
  BY <1>3 DEF ExpandInv, UndoIds, CopyKept, IdsTracked
<1>4. CASE UNCHANGED expandVars
  BY <1>4 DEF expandVars, ExpandInv, CopyKept, IdsTracked
<1> QED BY <1>1, <1>2, <1>3, <1>4, CopyStep, AssignStep, ResolveParamsStep,
           ResolveBusesStep, ExpandFormulaStep, ExplodeStep DEF ExpandNext

\* Whatever the evaluators return and wherever memory runs out, expand() hands
\* its caller either the specification and the nodes it passed or a complete
\* expansion with the ids it asked for (expand, expand_impl, assign_source_ids).
THEOREM ExpansionStaged == ExpandSpecification => []StagedUntilPublished
<1>1. ExpandInv => StagedUntilPublished
  BY DEF ExpandInv, StagedUntilPublished
<1> QED BY <1>1, ExpandInitInv, ExpandStep, PTL DEF ExpandSpecification

\* The fields no phase before the last one touches.
LateFields == {"defs", "declared", "scalars", "labels"}

\* What a formula of the list becomes: the evaluator's result for it, in the
\* specification of the call with its parameters at their final values.
ExpandedIn(g, f, k) ==
  /\ f # NoValue
  /\ \E S : /\ \A x \in LateFields : S[x] = g.spec[x]
            /\ S.params = Overridden(g.spec.params, g.overrides)
            /\ f = NodeIn(S, g.spec.formulas[k], ParamEnv(S))

GivenFormulas == 1..Len(given.spec.formulas)

\* The formulas before the current one are expanded, the others are as given.
Advanced ==
  /\ Fields \subseteq DOMAIN staged
  /\ Len(staged.formulas) = Len(given.spec.formulas)
  /\ DOMAIN staged.formulas = GivenFormulas
  /\ \A k \in GivenFormulas :
       IF k < at THEN ExpandedIn(given, staged.formulas[k], k)
       ELSE staged.formulas[k] = given.spec.formulas[k]

Unexploded == \A x \in LateFields : staged[x] = given.spec[x]

FormulasInv ==
  /\ at \in Nat /\ at > 0
  /\ Len(given.spec.formulas) \in Nat
  /\ expandPc \in {"copy", "ids", "params", "buses", "formulas", "publish", "undo",
                   "failed", "done"}
  /\ expandPc \in {"copy", "ids", "params", "buses"} => at = 1
  /\ expandPc \in {"ids", "params", "buses", "formulas", "publish"} => Advanced
  /\ expandPc \in {"ids", "params", "buses", "formulas"} => Unexploded
  /\ expandPc \in {"ids", "params"} => staged.params = given.spec.params
  /\ expandPc \in {"buses", "formulas"} =>
       staged.params = Overridden(given.spec.params, given.overrides)
  /\ expandPc = "publish" => at > Len(given.spec.formulas)
  /\ expandPc = "done" => \A k \in GivenFormulas : ExpandedIn(given, spec.formulas[k], k)

\* Changing one element of a list keeps its length.
LEMMA SameLength ==
  ASSUME NEW s, Len(s) \in Nat, DOMAIN s = 1..Len(s), NEW x, NEW v
  PROVE  Len([s EXCEPT ![x] = v]) = Len(s)
<1> DEFINE n == Len(s)
           t == [s EXCEPT ![x] = v]
           A == {s[k] : k \in 1..n} \cup {v}
<1>1. t \in [1..n -> A]
  OBVIOUS
<1> HIDE DEF t, A, n
<1>2. n \in Nat
  BY DEF n
<1>3. Len(t) = n
  BY <1>1, <1>2
<1> QED BY <1>3 DEF t, n

LEMMA FieldKept ==
  ASSUME NEW s, Fields \subseteq DOMAIN s, NEW x \in Fields, NEW v, NEW y \in Fields \ {x}
  PROVE  [s EXCEPT ![x] = v][y] = s[y]
OBVIOUS

LEMMA FormulasInit == ExpandInit => FormulasInv
<1> SUFFICES ASSUME NEW g \in [spec : Specs, overrides : Overrides,
                               provenance : BOOLEAN, stamped : SUBSET SourceNodes],
                    ExpandCalled(g)
             PROVE  FormulasInv
  BY DEF ExpandInit
<1> QED BY SpecsAssumption DEF ExpandCalled, FormulasInv

\* Nothing about the formulas depends on the ids.
LEMMA SameCall ==
  ASSUME UNCHANGED <<given, staged, at>>
  PROVE  /\ Advanced' <=> Advanced
         /\ Unexploded' <=> Unexploded
BY DEF Advanced, Unexploded, GivenFormulas

LEMMA FormulasCopied == ExpandInv /\ FormulasInv /\ Copy => FormulasInv'
<1> SUFFICES ASSUME ExpandInv, FormulasInv, Copy PROVE FormulasInv'
  OBVIOUS
<1>1. /\ expandPc = "copy" /\ staged' = given.spec /\ at = 1
      /\ expandPc' \in {"ids", "params"}
      /\ UNCHANGED <<given, at>>
  BY DEF ExpandInv, FormulasInv, Copy, ids
<1>2. Advanced'
  BY <1>1, SpecsAssumption DEF ExpandInv, FormulasInv, Advanced, GivenFormulas, Fields
<1>3. Unexploded'
  BY <1>1 DEF Unexploded
<1> QED BY <1>1, <1>2, <1>3 DEF FormulasInv

\* A change of one field other than the formulas.
LEMMA OtherField ==
  ASSUME FormulasInv, Advanced, NEW x \in Fields \ {"formulas"}, NEW v,
         staged' = [staged EXCEPT ![x] = v], UNCHANGED <<given, at>>
  PROVE  /\ Advanced'
         /\ x \notin LateFields /\ Unexploded => Unexploded'
         /\ staged'[x] = v
         /\ \A y \in Fields \ {x} : staged'[y] = staged[y]
<1>1. Fields \subseteq DOMAIN staged' /\ staged'.formulas = staged.formulas /\ staged'[x] = v
  BY FieldSet DEF Advanced
<1>2. \A y \in Fields \ {x} : staged'[y] = staged[y]
  BY FieldKept DEF Advanced
<1>3. Advanced'
  BY <1>1 DEF Advanced, GivenFormulas
<1>4. ASSUME x \notin LateFields, Unexploded PROVE Unexploded'
  BY <1>2, <1>4 DEF Unexploded, LateFields, Fields
<1> QED BY <1>1, <1>2, <1>3, <1>4

LEMMA FormulasResolved == FormulasInv /\ ResolveParams => FormulasInv'
<1> SUFFICES ASSUME FormulasInv, ResolveParams PROVE FormulasInv'
  OBVIOUS
<1> DEFINE ps == Overridden(staged.params, given.overrides)
<1>1. /\ expandPc = "params" /\ UNCHANGED <<given, at, spec>> /\ at = 1
      /\ Advanced /\ Unexploded /\ staged.params = given.spec.params
      /\ \/ expandPc' = "undo" /\ UNCHANGED staged
         \/ expandPc' = "buses" /\ staged' = [staged EXCEPT !.params = ps]
  BY DEF FormulasInv, ResolveParams, ids
<1>2. CASE expandPc' = "undo"
  BY <1>1, <1>2 DEF FormulasInv
<1>3. CASE expandPc' = "buses" /\ staged' = [staged EXCEPT !.params = ps]
  <2>1. "params" \in Fields \ {"formulas"} /\ "params" \notin LateFields
    BY DEF Fields, LateFields
  <2> HIDE DEF ps
  <2>2. Advanced' /\ Unexploded' /\ staged'.params = ps
    BY <1>1, <1>3, <2>1, OtherField
  <2>3. ps = Overridden(given.spec.params, given.overrides)
    BY <1>1 DEF ps
  <2>4. staged'.params = Overridden(given'.spec.params, given'.overrides)
    BY <1>1, <2>2, <2>3
  <2>5. (staged.params = Overridden(given.spec.params, given.overrides))'
    BY <2>4
  <2> QED BY <1>1, <1>3, <2>2, <2>5 DEF FormulasInv
<1> QED BY <1>1, <1>2, <1>3

LEMMA FormulasBounded == FormulasInv /\ ResolveBuses => FormulasInv'
<1> SUFFICES ASSUME FormulasInv, ResolveBuses PROVE FormulasInv'
  OBVIOUS
<1>1. /\ expandPc = "buses" /\ UNCHANGED <<given, at, spec>> /\ at = 1
      /\ Advanced /\ Unexploded
      /\ staged.params = Overridden(given.spec.params, given.overrides)
      /\ \/ expandPc' = "undo" /\ UNCHANGED staged
         \/ expandPc' = "formulas" /\ \E v : staged' = [staged EXCEPT !.buses = v]
  BY DEF FormulasInv, ResolveBuses, ids
<1>2. CASE expandPc' = "undo"
  BY <1>1, <1>2 DEF FormulasInv
<1>3. ASSUME expandPc' = "formulas", NEW v, staged' = [staged EXCEPT !.buses = v]
      PROVE  FormulasInv'
  <2>1. "buses" \in Fields \ {"formulas"} /\ "buses" \notin LateFields
    BY DEF Fields, LateFields
  <2>2. Advanced' /\ Unexploded' /\ \A y \in Fields \ {"buses"} : staged'[y] = staged[y]
    BY <1>1, <1>3, <2>1, OtherField
  <2>3. staged'.params = staged.params
    BY <2>2 DEF Fields
  <2>4. (staged.params = Overridden(given.spec.params, given.overrides))'
    BY <1>1, <2>3
  <2> QED BY <1>1, <1>3, <2>2, <2>4 DEF FormulasInv
<1> QED BY <1>1, <1>2, <1>3

LEMMA FormulasAdvanced == FormulasInv /\ ExpandFormula => FormulasInv'
<1> SUFFICES ASSUME FormulasInv, ExpandFormula PROVE FormulasInv'
  OBVIOUS
<1> DEFINE f == NodeIn(staged, staged.formulas[at], ParamEnv(staged))
<1>1. /\ expandPc = "formulas" /\ UNCHANGED <<given, spec>> /\ at <= Len(staged.formulas)
      /\ Advanced /\ Unexploded
      /\ staged.params = Overridden(given.spec.params, given.overrides)
      /\ \/ expandPc' = "undo" /\ UNCHANGED <<staged, at>>
         \/ /\ expandPc' = "formulas" /\ f # NoValue
            /\ staged' = [staged EXCEPT !.formulas[at] = f] /\ at' = at + 1
  BY DEF FormulasInv, ExpandFormula, ids
<1>2. CASE expandPc' = "undo"
  BY <1>1, <1>2 DEF FormulasInv
<1>3. CASE /\ expandPc' = "formulas" /\ f # NoValue
           /\ staged' = [staged EXCEPT !.formulas[at] = f] /\ at' = at + 1
  <2>1. at \in Nat /\ at > 0 /\ at \in GivenFormulas /\ Len(given.spec.formulas) \in Nat
    BY <1>1 DEF FormulasInv, Advanced, GivenFormulas
  <2>2. ExpandedIn(given, f, at)
    <3>1. staged.formulas[at] = given.spec.formulas[at]
      BY <1>1, <2>1 DEF Advanced
    <3>2. f = NodeIn(staged, given.spec.formulas[at], ParamEnv(staged))
      BY <3>1
    <3> HIDE DEF f
    <3> QED BY <1>1, <1>3, <3>2 DEF ExpandedIn, Unexploded
  <2> HIDE DEF f
  <2> DEFINE fs == [staged.formulas EXCEPT ![at] = f]
  <2>3. staged' = [staged EXCEPT !.formulas = fs]
    BY <1>3
  <2>4. /\ Len(fs) = Len(staged.formulas)
        /\ DOMAIN fs = DOMAIN staged.formulas
        /\ fs[at] = f
        /\ \A k \in GivenFormulas \ {at} : fs[k] = staged.formulas[k]
    <3>1. DOMAIN staged.formulas = GivenFormulas /\ Len(staged.formulas) = Len(given.spec.formulas)
      BY <1>1 DEF Advanced
    <3> QED BY <2>1, <3>1, SameLength DEF GivenFormulas
  <2> HIDE DEF fs
  <2>5. Fields \subseteq DOMAIN staged' /\ staged'.formulas = fs
    BY <1>1, <2>3 DEF Advanced, Fields
  <2>6. \A y \in Fields \ {"formulas"} : staged'[y] = staged[y]
    BY <1>1, <2>3, FieldKept DEF Advanced, Fields
  <2>7. ASSUME NEW k \in GivenFormulas
        PROVE  IF k < at + 1 THEN ExpandedIn(given, fs[k], k) ELSE fs[k] = given.spec.formulas[k]
    <3>1. k \in Nat /\ (k < at + 1 <=> k < at \/ k = at)
      BY <2>1 DEF GivenFormulas
    <3>2. IF k < at THEN ExpandedIn(given, staged.formulas[k], k)
          ELSE staged.formulas[k] = given.spec.formulas[k]
      BY <1>1 DEF Advanced
    <3>3. CASE k = at
      BY <2>2, <2>4, <3>1, <3>3
    <3>4. CASE k # at
      <4>1. fs[k] = staged.formulas[k]
        BY <2>4, <3>4
      <4> QED BY <3>1, <3>2, <3>4, <4>1
    <3> QED BY <3>3, <3>4
  <2>8. Advanced'
    BY <1>1, <1>3, <2>4, <2>5, <2>7 DEF Advanced, GivenFormulas
  <2>9. Unexploded'
    BY <1>1, <2>6 DEF Unexploded, LateFields, Fields
  <2>10. (staged.params = Overridden(given.spec.params, given.overrides))'
    BY <1>1, <2>6 DEF Fields
  <2> QED BY <1>1, <1>3, <2>1, <2>8, <2>9, <2>10 DEF FormulasInv
<1> QED BY <1>1, <1>2, <1>3

LEMMA FormulasExploded == FormulasInv /\ ExplodeSignals => FormulasInv'
<1> SUFFICES ASSUME FormulasInv, ExplodeSignals PROVE FormulasInv'
  OBVIOUS
<1>1. /\ expandPc = "formulas" /\ UNCHANGED <<given, spec, at>>
      /\ at > Len(staged.formulas) /\ Advanced /\ expandPc' = "publish"
      /\ staged' = [staged EXCEPT !.scalars = Exploded(staged), !.params = <<>>, !.defs = <<>>]
  BY DEF FormulasInv, ExplodeSignals, ids
<1>2. Fields \subseteq DOMAIN staged' /\ staged'.formulas = staged.formulas
  BY <1>1 DEF Advanced, Fields
<1>3. Advanced'
  BY <1>1, <1>2 DEF Advanced, GivenFormulas
<1> QED BY <1>1, <1>3 DEF FormulasInv, Advanced

LEMMA FormulasStep == ExpandInv /\ FormulasInv /\ [ExpandNext]_expandVars => FormulasInv'
<1> SUFFICES ASSUME ExpandInv, FormulasInv, [ExpandNext]_expandVars PROVE FormulasInv'
  OBVIOUS
<1>1. CASE Publish
  <2>1. /\ expandPc = "publish" /\ expandPc' = "done" /\ spec' = staged
        /\ UNCHANGED <<given, staged, at>>
    BY <1>1 DEF Publish
  <2>2. \A k \in GivenFormulas : ExpandedIn(given, staged.formulas[k], k)
    BY <2>1 DEF FormulasInv, Advanced, GivenFormulas
  <2>3. (\A k \in GivenFormulas : ExpandedIn(given, spec.formulas[k], k))'
    BY <2>1, <2>2 DEF GivenFormulas
  <2> QED BY <2>1, <2>3 DEF FormulasInv
<1>2. CASE AssignSourceIds
  <2>1. /\ expandPc = "ids" /\ expandPc' \in {"params", "undo"} /\ UNCHANGED <<given, spec, staged, at>>
    BY <1>2 DEF AssignSourceIds
  <2>2. (staged.params = given.spec.params)' <=> staged.params = given.spec.params
    BY <2>1
  <2> QED BY <2>1, <2>2, SameCall DEF FormulasInv
<1>3. CASE OutOfMemory
  BY <1>3 DEF OutOfMemory, FormulasInv
<1>4. CASE UndoIds
  BY <1>4 DEF UndoIds, FormulasInv
<1>5. CASE UNCHANGED expandVars
  BY <1>5 DEF expandVars, FormulasInv, Advanced, Unexploded, GivenFormulas
<1> QED BY <1>1, <1>2, <1>3, <1>4, <1>5, FormulasCopied, FormulasResolved,
           FormulasBounded, FormulasAdvanced, FormulasExploded DEF ExpandNext

\* A published formula is the evaluator's answer for the formula that was given
\* at its place, with the parameters already at their final values: no formula
\* is skipped, expanded twice, or expanded in an environment that later changes
\* (expand_impl, phases 1 to 3).
THEOREM FormulasExpanded ==
  ExpandSpecification =>
    [](expandPc = "done" => \A k \in GivenFormulas : ExpandedIn(given, spec.formulas[k], k))
<1>1. FormulasInv =>
        (expandPc = "done" => \A k \in GivenFormulas : ExpandedIn(given, spec.formulas[k], k))
  BY DEF FormulasInv
<1> QED BY <1>1, ExpandInitInv, ExpandStep, FormulasInit, FormulasStep, PTL
        DEF ExpandSpecification
=============================================================================
