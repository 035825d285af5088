------------------------------ MODULE MCExports ------------------------------
(***************************************************************************)
(* The two ways an export leaves the solver: as files, any of them         *)
(* requested and any of them there before, or in a growing buffer.  A run  *)
(* takes one of them; the other machine rests.                             *)
(***************************************************************************)
EXTENDS PublishExports, CappedExport

VARIABLE export   \* "files" or "memory"

ExportInit ==
  \/ /\ export = "files"
     /\ Init
     /\ BufferInit /\ limit = CHOOSE l \in Limits : TRUE
  \/ /\ export = "memory"
     /\ BufferInit
     /\ Init /\ requested = {}

ExportNext ==
  \/ export = "files" /\ Next /\ UNCHANGED <<export, bufferVars>>
  \/ export = "memory" /\ BufferNext /\ UNCHANGED <<export, vars>>

ExportSpec == ExportInit /\ [][ExportNext]_<<export, vars, bufferVars>>
=============================================================================
