--------------------------- MODULE PublishExports ---------------------------
(***************************************************************************)
(* publish_exports: the files of one export replace the caller's files all *)
(* together or not at all.  Each is written to a temporary beside its      *)
(* path; then, file by file, the old file is renamed to a backup and the   *)
(* temporary to the path; a failure undoes what was done, backwards.       *)
(* Every system call may fail, those of the undoing too; the process may   *)
(* die between any two of them, so what must survive a crash is an         *)
(* invariant.  The file system is external: a rename is atomic.            *)
(***************************************************************************)
EXTENDS Integers

CONSTANTS N   \* number of files of an export, in publication order

ASSUME FilesAssumption == N \in Nat

Files == 1..N

VARIABLES pc, i, ok,
          requested,      \* files with a path
          hadFile,        \* paths that held a file before
          path,           \* what the path holds
          temporary, backup,
          published, hadOriginal,
          undoFailed,     \* a system call of the undoing failed
          littered        \* a removal at the end failed

vars == <<pc, i, ok, requested, hadFile, path, temporary, backup, published,
          hadOriginal, undoFailed, littered>>

Init ==
  /\ pc = "stage" /\ i = 1 /\ ok = TRUE
  /\ requested \in SUBSET Files /\ hadFile \in SUBSET requested
  /\ path = [f \in Files |-> IF f \in hadFile THEN "old" ELSE "absent"]
  /\ temporary = [f \in Files |-> "absent"]
  /\ backup = [f \in Files |-> "absent"]
  /\ published = {} /\ hadOriginal = {}
  /\ undoFailed = FALSE /\ littered = FALSE

inputs == <<requested, hadFile>>

\* A file that was not requested is skipped by every loop.
Skip ==
  /\ pc \in {"stage", "publish"} /\ i \in Files \ requested
  /\ i' = i + 1
  /\ UNCHANGED <<pc, ok, inputs, path, temporary, backup, published,
                 hadOriginal, undoFailed, littered>>

\* The temporary is made and written, and closed.
Stage ==
  /\ pc = "stage" /\ i \in requested
  /\ temporary' = [temporary EXCEPT ![i] = "new"]
  /\ i' = i + 1
  /\ UNCHANGED <<pc, ok, inputs, path, backup, published, hadOriginal,
                 undoFailed, littered>>

\* It cannot be made, or not be written whole.
StageFails ==
  /\ pc = "stage" /\ i \in requested
  /\ \E content \in {"absent", "partial"} :
       temporary' = [temporary EXCEPT ![i] = content]
  /\ ok' = FALSE /\ pc' = "undo" /\ i' = N
  /\ UNCHANGED <<inputs, path, backup, published, hadOriginal, undoFailed,
                 littered>>

AllStaged ==
  /\ pc = "stage" /\ i > N
  /\ pc' = "publish" /\ i' = 1
  /\ UNCHANGED <<ok, inputs, path, temporary, backup, published, hadOriginal,
                 undoFailed, littered>>

\* The old file is renamed out of the way, to a name nobody else has.
Backup ==
  /\ pc = "publish" /\ i \in requested
  /\ path[i] # "absent" /\ i \notin hadOriginal
  /\ backup' = [backup EXCEPT ![i] = path[i]]
  /\ path' = [path EXCEPT ![i] = "absent"]
  /\ hadOriginal' = hadOriginal \cup {i}
  /\ UNCHANGED <<pc, i, ok, inputs, temporary, published, undoFailed, littered>>

\* The temporary is renamed to the path.
PublishFile ==
  /\ pc = "publish" /\ i \in requested /\ path[i] = "absent"
  /\ path' = [path EXCEPT ![i] = temporary[i]]
  /\ temporary' = [temporary EXCEPT ![i] = "absent"]
  /\ published' = published \cup {i}
  /\ i' = i + 1
  /\ UNCHANGED <<pc, ok, inputs, backup, hadOriginal, undoFailed, littered>>

\* No backup name, or one of the two renames fails.
PublishFails ==
  /\ pc = "publish" /\ i \in requested
  /\ ok' = FALSE /\ pc' = "undo" /\ i' = N
  /\ UNCHANGED <<inputs, path, temporary, backup, published, hadOriginal,
                 undoFailed, littered>>

AllPublished ==
  /\ pc = "publish" /\ i > N
  /\ pc' = "remove" /\ i' = 1
  /\ UNCHANGED <<ok, inputs, path, temporary, backup, published, hadOriginal,
                 undoFailed, littered>>

\* Only what was published is undone; a file renamed away and not replaced
\* stays away.
UndoPublishedOnly ==
  /\ pc = "undo" /\ i > 0
  /\ LET removed == i \in published
         restored == i \in hadOriginal \cap published
     IN  /\ path' = [path EXCEPT ![i] = IF restored THEN backup[i]
                                        ELSE IF removed THEN "absent" ELSE @]
         /\ backup' = [backup EXCEPT ![i] = IF restored THEN "absent" ELSE @]
         /\ UNCHANGED undoFailed
  /\ i' = i - 1
  /\ UNCHANGED <<pc, ok, inputs, temporary, published, hadOriginal, littered>>

\* Undo file i: remove what was published, rename the backup back.  Neither
\* result is looked at.
Undo ==
  /\ pc = "undo" /\ i > 0
  /\ \E removed, restored \in BOOLEAN :
       /\ removed => i \in published
       /\ restored => i \in hadOriginal
       /\ path' = [path EXCEPT ![i] = IF restored THEN backup[i]
                                      ELSE IF removed THEN "absent" ELSE @]
       /\ backup' = [backup EXCEPT ![i] = IF restored THEN "absent" ELSE @]
       /\ undoFailed' = (\/ undoFailed
                         \/ i \in published /\ ~removed /\ ~restored
                         \/ i \in hadOriginal /\ ~restored)
  /\ i' = i - 1
  /\ UNCHANGED <<pc, ok, inputs, temporary, published, hadOriginal, littered>>

Undone ==
  /\ pc = "undo" /\ i = 0
  /\ pc' = "remove" /\ i' = 1
  /\ UNCHANGED <<ok, inputs, path, temporary, backup, published, hadOriginal,
                 undoFailed, littered>>

\* The backup goes although the export failed.
RemoveBoth ==
  /\ pc = "remove" /\ i \in Files
  /\ temporary' = [temporary EXCEPT ![i] = "absent"]
  /\ backup' = [backup EXCEPT ![i] = "absent"]
  /\ i' = i + 1
  /\ UNCHANGED <<pc, ok, inputs, path, published, hadOriginal, undoFailed, littered>>

\* The temporary goes, and the backup if the export stands.
Remove ==
  /\ pc = "remove" /\ i \in Files
  /\ \E kept \in BOOLEAN :
       /\ temporary' = IF kept THEN temporary
                       ELSE [temporary EXCEPT ![i] = "absent"]
       /\ backup' = IF kept \/ ~ok THEN backup
                    ELSE [backup EXCEPT ![i] = "absent"]
       /\ littered' = (littered \/ kept)
  /\ i' = i + 1
  /\ UNCHANGED <<pc, ok, inputs, path, published, hadOriginal, undoFailed>>

Finish ==
  /\ pc = "remove" /\ i > N
  /\ pc' = "done"
  /\ UNCHANGED <<i, ok, inputs, path, temporary, backup, published,
                 hadOriginal, undoFailed, littered>>

Next ==
  \/ Skip \/ Stage \/ StageFails \/ AllStaged
  \/ Backup \/ PublishFile \/ PublishFails \/ AllPublished
  \/ Undo \/ Undone \/ Remove \/ Finish

Spec == Init /\ [][Next]_vars

-----------------------------------------------------------------------------
Contents == {"absent", "old", "new", "partial"}

TypeOK ==
  /\ pc \in {"stage", "publish", "undo", "remove", "done"}
  /\ i \in 0..(N + 1) /\ ok \in BOOLEAN
  /\ requested \subseteq Files /\ hadFile \subseteq requested
  /\ path \in [Files -> Contents]
  /\ temporary \in [Files -> Contents] /\ backup \in [Files -> Contents]
  /\ published \subseteq requested /\ hadOriginal \subseteq hadFile
  /\ undoFailed \in BOOLEAN /\ littered \in BOOLEAN

\* Whenever the process dies, and whatever call of the undoing fails: each old
\* file is at its path or in its backup, unless the whole export is in place.
NothingLost ==
  \A f \in hadFile :
    \/ path[f] = "old" \/ backup[f] = "old"
    \/ \A g \in requested : path[g] = "new"

\* A reader of a path sees the old file, the whole new one or none.
NeverPartial == \A f \in Files : path[f] # "partial"

\* What publish_exports keeps at every point where the process may die: no old
\* file is lost and no path shows a torn one.
CrashSafe == NothingLost /\ NeverPartial

\* At the end the export stands and is complete, or every path is as it was
\* before, unless the undoing itself failed; nothing else is left behind.
AllOrNothing ==
  pc = "done" =>
    /\ ok => \A f \in Files : path[f] = IF f \in requested THEN "new" ELSE "absent"
    /\ ~ok /\ ~undoFailed =>
         \A f \in Files : path[f] = IF f \in hadFile THEN "old" ELSE "absent"
    /\ ~littered =>
         \A f \in Files : /\ temporary[f] = "absent"
                          /\ ~undoFailed => backup[f] = "absent"
=============================================================================
