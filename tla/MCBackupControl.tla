--------------------------- MODULE MCBackupControl ---------------------------
(***************************************************************************)
(* Instances of BackupControl for TLC: one destination, so directory runs  *)
(* queue for its lock, and a machine run takes none.                       *)
(***************************************************************************)
EXTENDS BackupControl

OneDestination == [r \in Runs |-> "pbs"]
===============================================================================
