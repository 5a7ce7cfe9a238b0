------------------------------- MODULE MCRuns -------------------------------
(***************************************************************************)
(* A backup run at its four scales, of which each behaviour follows one    *)
(* (scale; the others stay in an initial state): the split of a backup as  *)
(* the window runs it, a batch of folders, one folder, and one disk.       *)
(*                                                                         *)
(* Two parts; three folders, one after the other (the option left at 0),   *)
(* two at a time, or more slots than folders; an archive of three chunks   *)
(* in two batches, one of them twice, one of them known from the snapshot  *)
(* before, and a catalog that shares a chunk with it; two workers and a    *)
(* disk of five blocks with two chunks twice and one known, and a size     *)
(* that is right or much too small.                                        *)
(***************************************************************************)
EXTENDS FolderBackup, FoldersRun, UploadWorker, GuiRun

CONSTANTS c1, c2, c3

VARIABLE scale

MCContent == [s \in Streams |-> IF s = "archive" THEN <<c1, c2, c1>> ELSE <<c2, c3>>]
MCParallels == {0, 2, 4}
MCDevice == <<c1, c2, c1, c3, c2>>
MCSizes == {1, 4, 5}

ASSUME FoldersAssumption /\ UploadAssumption /\ GuiAssumption

MCInit ==
  /\ scale \in {"window", "batch", "folder", "disk"}
  /\ Init /\ (scale # "folder" => session = "none")
  /\ BatchInit /\ (scale # "batch" => parallel = 0 /\ ~useVSS)
  /\ DiskInit /\ (scale # "disk" => size = 5 /\ knownChunks = {})
  /\ SplitInit /\ (scale # "window" => mode = "service" /\ entry[Foreign] = "none")

MCNext ==
  /\ UNCHANGED scale
  /\ \/ scale = "folder" /\ Next /\ UNCHANGED <<batchVars, diskVars, splitVars>>
     \/ scale = "batch" /\ BatchNext /\ UNCHANGED <<vars, diskVars, splitVars>>
     \/ scale = "disk" /\ DiskNext /\ UNCHANGED <<vars, batchVars, splitVars>>
     \/ scale = "window" /\ SplitNext /\ UNCHANGED <<vars, batchVars, diskVars>>

\* The fairness of each module, asked of the scale that is followed.  For a folder it holds
\* the assumption that the server answers (ServerAnswers of FolderBackup).
MCFairness ==
  /\ WF_vars(scale = "folder" /\ LocalStep)
  /\ WF_vars(scale = "folder" /\ RequestStep)
  /\ WF_vars(scale = "folder" /\ Tick)
  /\ WF_vars(scale = "folder" /\ Reap)
  /\ WF_batchVars(scale = "batch" /\ Dispatch)
  /\ \A f \in Folders :
       /\ WF_batchVars(scale = "batch" /\ CreateShadow(f))
       /\ WF_batchVars(scale = "batch" /\ FolderEnds(f))
  /\ WF_diskVars(scale = "disk" /\ Read)
  /\ WF_diskVars(scale = "disk" /\ Collect)
  /\ \A w \in Workers : WF_diskVars(scale = "disk" /\ Work(w))
  /\ WF_splitVars(scale = "window" /\ Window)
  /\ \A j \in Jobs :
       /\ WF_splitVars(scale = "window" /\ Poll(j))
       /\ WF_splitVars(scale = "window" /\ Ends(j))
  /\ WF_splitVars(scale = "window" /\ SendStop)

MCSpec == MCInit /\ [][MCNext]_<<scale, vars, batchVars, diskVars, splitVars>> /\ MCFairness

----------------------------------------------------------------------------

FolderRunEnds == scale = "folder" => RunEnds
BatchRunEnds == scale = "batch" => BatchEnds
DiskRunEnds == scale = "disk" => Returns
SplitRunEnds == scale = "window" => SplitEnds
==============================================================================
