------------------------------ MODULE FoldersRun ------------------------------
(***************************************************************************)
(* A backup of several folders: RunBackupInline's aggregate and            *)
(* runFoldersParallel (gui/backup_inline.go, gui/backup_status.go).  A      *)
(* dispatcher starts the folders in order, some of them at a time, out of   *)
(* one set of shadow copies when it can be had; each folder is a goroutine  *)
(* that merges its result into the aggregate.                              *)
(*                                                                         *)
(* A folder is what Snapshot promises: FolderBackup shows that the code     *)
(* keeps that promise.                                                     *)
(***************************************************************************)
EXTENDS Naturals, FiniteSets

CONSTANTS N,         \* folders, in the order they were selected
          Parallels, \* what opts.Parallel may ask for
          Unreported

FoldersAssumption == N \in Nat \ {0, 1} /\ Parallels \subseteq Nat /\ Parallels # {}

Folders == 1 .. N

VARIABLES
  dispatcher,       \* where it is
  parallel, useVSS, \* the options of the run
  cancelled,        \* opts.Ctx is cancelled
  lock,             \* the destination lock is held
  shadowMode,       \* "plain", "batch" (one shadow set) or "single" (one for each folder)
  shadows,          \* shadow copies that exist: "batch", or the folder they were taken for
  next,             \* the next folder to start
  folderPc,         \* of the goroutine of each folder
  committed,        \* what each folder committed
  result,           \* what each folder reported
  aggOutcome,       \* agg.Outcome
  perDirErrors,     \* of folders, "cancelled", "release"
  report            \* the one OnComplete and return value of the run

options == <<parallel, useVSS>>
folderVars == <<folderPc, committed, result>>
aggregate == <<aggOutcome, perDirErrors>>
batchVars == <<dispatcher, options, cancelled, lock, shadowMode, shadows, next, folderVars,
               aggregate, report>>

Folder(f) == INSTANCE Snapshot WITH
  Whole <- f, NoReport <- Unreported, committed <- committed[f], report <- result[f]

Missing == {"excluded", "unreadable"}
Reports == {"verified_success", "success_with_policy_exclusions", "partial", "failed",
            "cancelled"}
Success(o) == o \in {"verified_success", "success_with_policy_exclusions"}

Rank(o) == CASE o = "failed" -> 0
             [] o = "partial" -> 1
             [] o = "success_with_policy_exclusions" -> 2
             [] o = "verified_success" -> 3

WorstOutcome(a, b) == IF Rank(a) <= Rank(b) THEN a ELSE b

InFlight == {f \in Folders : folderPc[f] \in {"creating", "running"}}
StartedFolders == {f \in Folders : folderPc[f] # "idle"}

Batch == 0  \* the shadow set of the batch; folders are numbered from 1

BatchInit ==
  /\ dispatcher = "start"
  /\ parallel \in Parallels /\ useVSS \in BOOLEAN
  /\ cancelled = FALSE /\ lock = FALSE
  /\ shadowMode = "plain" /\ shadows = {} /\ next = 1
  /\ folderPc = [f \in Folders |-> "idle"]
  /\ committed = [f \in Folders |-> <<>>]
  /\ result = [f \in Folders |-> Unreported]
  /\ aggOutcome = "verified_success" /\ perDirErrors = {}
  /\ report = Unreported

Error(f, why) == [folder |-> f, why |-> why]

\* An error that leaves something backed up makes the run partial at best.
CapAtPartial(o) == IF Rank(o) > Rank("partial") THEN "partial" ELSE o

----------------------------------------------------------------------------
(* Before the folders *)

CancelledBeforeStart ==
  /\ dispatcher \in {"start", "locked"} /\ cancelled
  /\ dispatcher' = "leaving"
  /\ aggOutcome' = "failed"
  /\ perDirErrors' = {Error(Batch, "cancelled")}
  /\ UNCHANGED <<options, cancelled, lock, shadowMode, shadows, next, folderVars, report>>

WaitForLock ==
  /\ dispatcher = "start" /\ ~cancelled /\ dispatcher' = "waiting"
  /\ UNCHANGED <<options, cancelled, lock, shadowMode, shadows, next, folderVars, aggregate,
                 report>>

AcquireLock ==
  /\ dispatcher = "waiting" /\ dispatcher' = "locked"
  /\ lock' = TRUE
  /\ UNCHANGED <<options, cancelled, shadowMode, shadows, next, folderVars, aggregate, report>>

Prepare ==
  /\ dispatcher = "locked" /\ ~cancelled
  /\ dispatcher' = IF useVSS THEN "creating" ELSE "dispatching"
  /\ UNCHANGED <<options, cancelled, lock, shadowMode, shadows, next, folderVars, aggregate,
                 report>>

\* CreateVSSSnapshot: one set for every folder, or none; then each folder takes its own.
CreateShadowSet ==
  /\ dispatcher = "creating" /\ dispatcher' = "dispatching"
  /\ \/ shadowMode' = "batch" /\ shadows' = {Batch}
     \/ shadowMode' = "single" /\ UNCHANGED shadows
  /\ UNCHANGED <<options, cancelled, lock, next, folderVars, aggregate, report>>

----------------------------------------------------------------------------
(* The folders *)

\* Mutant: the option is taken as it comes.
SlotsUnchecked == IF shadowMode = "single" THEN 1 ELSE parallel

Slots == IF shadowMode = "single" \/ parallel = 0 THEN 1 ELSE IF parallel > N THEN N ELSE parallel

StartFolder ==
  /\ dispatcher = "dispatching" /\ next <= N
  /\ Cardinality(InFlight) < Slots
  /\ ~cancelled
  /\ folderPc' = [folderPc EXCEPT ![next] = IF shadowMode = "single" THEN "creating" ELSE "running"]
  /\ next' = next + 1
  /\ UNCHANGED <<dispatcher, options, cancelled, lock, shadowMode, shadows, committed, result,
                 aggregate, report>>

\* Mutant: the folders that were not started are not an error.
StopDispatchSilent ==
  /\ dispatcher = "dispatching" /\ next <= N
  /\ Cardinality(InFlight) < Slots
  /\ cancelled
  /\ dispatcher' = "draining"
  /\ UNCHANGED <<options, cancelled, lock, shadowMode, shadows, next, folderVars, aggregate,
                 report>>

\* A cancelled run starts no more folders, and says so.
StopDispatch ==
  /\ dispatcher = "dispatching" /\ next <= N
  /\ Cardinality(InFlight) < Slots
  /\ cancelled
  /\ dispatcher' = "draining"
  /\ perDirErrors' = perDirErrors \cup {Error(Batch, "cancelled")}
  /\ UNCHANGED <<options, cancelled, lock, shadowMode, shadows, next, folderVars, aggOutcome,
                 report>>

EndDispatch ==
  /\ dispatcher = "dispatching" /\ next = N + 1 /\ dispatcher' = "draining"
  /\ UNCHANGED <<options, cancelled, lock, shadowMode, shadows, next, folderVars, aggregate,
                 report>>

\* backupDirectory takes the shadow copy of its folder.
CreateShadow(f) ==
  /\ folderPc[f] = "creating"
  /\ folderPc' = [folderPc EXCEPT ![f] = "running"]
  /\ \/ shadows' = shadows \cup {f}
     \/ UNCHANGED shadows
  /\ UNCHANGED <<dispatcher, options, cancelled, lock, shadowMode, next, committed, result,
                 aggregate, report>>

Readable(f) == shadowMode = "plain" \/ Batch \in shadows \/ f \in shadows

FolderCommits(f) ==
  /\ folderPc[f] = "running" /\ committed[f] = <<>> /\ Readable(f)
  /\ \E missing \in SUBSET Missing :
       committed' = [committed EXCEPT ![f] = <<[content |-> f, missing |-> missing]>>]
  /\ UNCHANGED <<dispatcher, options, cancelled, lock, shadowMode, shadows, next, folderPc,
                 result, aggregate, report>>

\* What a folder may report: an honest outcome, or that the user stopped it.
FolderReport(f, r) == Folder(f)!Honest(r) /\ (r = "cancelled" => cancelled)

\* The folder returns, its result is merged under the mutex and its slot is free again.
\* A cancelled folder, or one that panicked, has no status: the run failed.
FolderEnds(f) ==
  /\ folderPc[f] = "running"
  /\ \E r \in Reports :
       /\ FolderReport(f, r)
       /\ result' = [result EXCEPT ![f] = r]
       /\ aggOutcome' = IF r = "cancelled" THEN "failed" ELSE WorstOutcome(aggOutcome, r)
       /\ perDirErrors' = IF Success(r) THEN perDirErrors ELSE perDirErrors \cup {Error(f, "failed")}
  /\ folderPc' = [folderPc EXCEPT ![f] = "merged"]
  /\ shadows' \in {shadows \ {f}, shadows}
  /\ UNCHANGED <<dispatcher, options, cancelled, lock, shadowMode, next, committed, report>>

----------------------------------------------------------------------------
(* After the folders *)

\* Mutant: the shadow set is not kept for the folders that still read it.
DrainEarly ==
  /\ dispatcher = "draining"
  /\ dispatcher' = IF shadowMode = "batch" THEN "releasing" ELSE "closing"
  /\ UNCHANGED <<options, cancelled, lock, shadowMode, shadows, next, folderVars, aggregate,
                 report>>

\* wg.Wait.
Drain ==
  /\ dispatcher = "draining" /\ InFlight = {}
  /\ dispatcher' = IF shadowMode = "batch" THEN "releasing" ELSE "closing"
  /\ UNCHANGED <<options, cancelled, lock, shadowMode, shadows, next, folderVars, aggregate,
                 report>>

\* The shadow set goes, or a later start of the service will have to remove it.  A failed
\* release counts, unless folders failed already: errFoldersFailed hides it.
ReleaseShadowSet ==
  /\ dispatcher = "releasing" /\ dispatcher' = "closing"
  /\ shadows' \in {shadows \ {Batch}, shadows}
  /\ \/ UNCHANGED aggregate
     \/ /\ perDirErrors = {}
        /\ perDirErrors' = {Error(Batch, "release")}
        /\ aggOutcome' = IF StartedFolders = {} THEN "failed" ELSE CapAtPartial(aggOutcome)
  /\ UNCHANGED <<options, cancelled, lock, shadowMode, next, folderVars, report>>

\* "Cancelled or VSS-failed before every folder ran: never a success."
CloseAggregate ==
  /\ dispatcher = "closing" /\ dispatcher' = "leaving"
  /\ aggOutcome' = IF perDirErrors = {} \/ StartedFolders = Folders THEN aggOutcome
                ELSE IF StartedFolders = {} THEN "failed" ELSE CapAtPartial(aggOutcome)
  /\ UNCHANGED <<options, cancelled, lock, shadowMode, shadows, next, folderVars, perDirErrors,
                 report>>

\* The lock is given back and RunBackupInline reports, once for all the folders.
Leave ==
  /\ dispatcher = "leaving" /\ dispatcher' = "done"
  /\ lock' = FALSE
  /\ report' = [success |-> Success(aggOutcome), error |-> perDirErrors # {}]
  /\ UNCHANGED <<options, cancelled, shadowMode, shadows, next, folderVars, aggregate>>

\* The user stops the run.
CancelBatch ==
  /\ ~cancelled /\ dispatcher # "done"
  /\ cancelled' = TRUE
  /\ UNCHANGED <<dispatcher, options, lock, shadowMode, shadows, next, folderVars, aggregate,
                 report>>

Dispatch ==
  \/ CancelledBeforeStart \/ WaitForLock \/ AcquireLock \/ Prepare \/ CreateShadowSet
  \/ StartFolder \/ StopDispatch \/ EndDispatch
  \/ Drain \/ ReleaseShadowSet \/ CloseAggregate \/ Leave

BatchNext ==
  \/ Dispatch
  \/ \E f \in Folders : CreateShadow(f) \/ FolderCommits(f) \/ FolderEnds(f)
  \/ CancelBatch

BatchSpec == BatchInit /\ [][BatchNext]_batchVars

\* The dispatcher goes on, and every folder ends (FolderBackup's RunEnds, with what it
\* assumes of the server).
FairBatchSpec ==
  /\ BatchSpec
  /\ WF_batchVars(Dispatch)
  /\ \A f \in Folders : WF_batchVars(CreateShadow(f)) /\ WF_batchVars(FolderEnds(f))

----------------------------------------------------------------------------
(* Properties *)

\* A run that says success has a snapshot of every folder, with nothing missing but what
\* the user excluded ("a cancelled run must never be reported as a success").
SuccessIsWhole ==
  report # Unreported /\ (report.success \/ ~report.error) =>
    \A f \in Folders : committed[f] # <<>> /\ committed[f][1].missing \subseteq {"excluded"}

\* The shadow set outlives every folder that reads it ("pulling it from under the folders
\* already running").
ShadowsKeptWhileRead == shadowMode = "batch" /\ InFlight # {} => Batch \in shadows

\* The run ends whatever the number of slots asked for.
BatchEnds == <>(dispatcher = "done")

(* What the comments promise and the code does not keep *)

\* OutcomeFailed, "no directory committed", against OutcomePartial, "at least one directory
\* failed": a run with a folder that reports a usable snapshot is not failed.
FailedMeansNothing ==
  report # Unreported /\ aggOutcome = "failed" => \A f \in Folders : ~Success(result[f])
===============================================================================
