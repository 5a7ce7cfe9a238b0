---------------------------- MODULE RunsProofs ----------------------------
(***************************************************************************)
(* What holds of a run: of a batch of folders whatever their number, the   *)
(* number of slots, the order in which they end, and when it is stopped;   *)
(* of the backup of a disk whatever its content, the number of workers,    *)
(* the size it was announced with, and the requests refused; and of a      *)
(* split backup whatever the number of parts, jobs and errors that are     *)
(* tolerated, and whichever calls are lost.                                *)
(***************************************************************************)
EXTENDS FoldersRun, UploadWorker, GuiRun, FiniteSetTheorems, TLAPS

----------------------------------------------------------------------------
(* A batch of folders: the inductive invariants *)

Outcomes == Reports \ {"cancelled"}
After == {"draining", "releasing", "closing", "leaving", "done"}

FoldersTypes ==
  /\ dispatcher \in {"start", "waiting", "locked", "creating", "dispatching"} \cup After
  /\ shadowMode \in {"plain", "batch", "single"}
  /\ next \in 1 .. N + 1
  /\ folderPc \in [Folders -> {"idle", "creating", "running", "merged"}]
  /\ DOMAIN committed = Folders /\ DOMAIN result = Folders
  /\ aggOutcome \in Outcomes

\* A folder is started when its turn has come, and only while the dispatcher has
\* not waited for all of them.
TurnInv ==
  /\ \A f \in Folders : folderPc[f] = "idle" <=> f >= next
  /\ dispatcher \in {"start", "waiting", "locked", "creating"} => next = 1
  /\ dispatcher \in {"releasing", "closing", "leaving", "done"} => InFlight = {}

Whole(f) == committed[f] # <<>> /\ committed[f][1].missing \subseteq {"excluded"}

\* A folder that was merged as a success is whole, and any other has left its mark
\* on the outcome and on the errors.
MergeInv ==
  \A f \in Folders : folderPc[f] = "merged" =>
    \/ Whole(f)
    \/ ~Success(aggOutcome) /\ perDirErrors # {}

\* A run that ends before all folders were started has an error, which the
\* aggregate does not outlive as a success.
EndInv ==
  /\ dispatcher \in After /\ next <= N => perDirErrors # {}
  /\ dispatcher \in {"leaving", "done"} /\ next <= N => ~Success(aggOutcome)
  /\ report # Unreported =>
       dispatcher = "done" /\ report = [success |-> Success(aggOutcome), error |-> perDirErrors # {}]

\* The set is there from its creation until it is released.
ShadowInv ==
  /\ dispatcher \in {"start", "waiting", "locked", "creating"} => shadowMode = "plain"
  /\ shadowMode = "batch" /\ dispatcher \in {"dispatching", "draining", "releasing"} => Batch \in shadows

FoldersInv == FoldersTypes /\ TurnInv /\ MergeInv /\ EndInv /\ ShadowInv

----------------------------------------------------------------------------
(* Outcomes *)

\* The worst of two outcomes is one, and a success only when both are.
LEMMA Worst ==
  ASSUME NEW a \in Outcomes, NEW b \in Outcomes
  PROVE  /\ WorstOutcome(a, b) \in Outcomes
         /\ Success(WorstOutcome(a, b)) => Success(a) /\ Success(b)
  BY DEF Outcomes, Reports, WorstOutcome, Rank, Success

\* A capped outcome is no success.
LEMMA Capped ==
  ASSUME NEW o \in Outcomes
  PROVE  CapAtPartial(o) \in Outcomes /\ ~Success(CapAtPartial(o))
  BY DEF Outcomes, Reports, CapAtPartial, Rank, Success

\* A folder that honestly reports a success has committed all but what was excluded.
LEMMA HonestIsWhole ==
  ASSUME NEW f \in Folders, NEW r, FolderReport(f, r), Success(r)
  PROVE  Whole(f)
  BY DEF FolderReport, Folder!Honest, Success, Whole

----------------------------------------------------------------------------
(* The invariant *)

LEMMA FoldersStart ==
  ASSUME FoldersAssumption, BatchInit
  PROVE  FoldersInv
  BY DEF FoldersAssumption, BatchInit, FoldersInv, FoldersTypes, TurnInv, MergeInv, EndInv, ShadowInv,
         Folders, Outcomes, Reports, After, InFlight

\* The steps of the dispatcher that start no folder.
LEMMA DispatcherStep ==
  ASSUME FoldersAssumption, FoldersInv,
         \/ CancelledBeforeStart \/ WaitForLock \/ AcquireLock \/ Prepare \/ CreateShadowSet
         \/ StopDispatch \/ EndDispatch \/ Drain
  PROVE  FoldersInv'
  <1>1. UNCHANGED <<next, folderPc, committed, result>>
    BY DEF CancelledBeforeStart, WaitForLock, AcquireLock, Prepare, CreateShadowSet,
           StopDispatch, EndDispatch, Drain, folderVars
  <1>2. FoldersTypes'
    BY <1>1 DEF FoldersInv, FoldersTypes, CancelledBeforeStart, WaitForLock, AcquireLock, Prepare,
                CreateShadowSet, StopDispatch, EndDispatch, Drain, After, Outcomes, Reports, aggregate
  <1>3. TurnInv'
    BY <1>1 DEF FoldersInv, FoldersTypes, TurnInv, CancelledBeforeStart, WaitForLock, AcquireLock, Prepare,
                CreateShadowSet, StopDispatch, EndDispatch, Drain, InFlight, After, FoldersAssumption, Folders
  <1>4. MergeInv'
    <2>1. CASE CancelledBeforeStart
      BY <1>1, <2>1 DEF FoldersInv, FoldersTypes, TurnInv, MergeInv, CancelledBeforeStart, Folders
    <2>2. CASE UNCHANGED aggOutcome /\ perDirErrors \subseteq perDirErrors'
      BY <1>1, <2>2 DEF FoldersInv, MergeInv, Whole, Success
    <2>. QED
      BY <2>1, <2>2 DEF WaitForLock, AcquireLock, Prepare, CreateShadowSet, StopDispatch,
                        EndDispatch, Drain, aggregate
  <1>5. EndInv'
    <2>1. dispatcher # "done" /\ report' = report
      BY DEF CancelledBeforeStart, WaitForLock, AcquireLock, Prepare, CreateShadowSet,
             StopDispatch, EndDispatch, Drain, After
    <2>2. dispatcher' \in After /\ next <= N => perDirErrors' # {}
      <3>1. CASE CancelledBeforeStart \/ StopDispatch
        BY <3>1 DEF CancelledBeforeStart, StopDispatch
      <3>2. CASE EndDispatch
        BY <3>2 DEF EndDispatch, FoldersAssumption
      <3>3. CASE Drain
        BY <3>3 DEF Drain, After, FoldersInv, EndInv, aggregate
      <3>4. CASE WaitForLock \/ AcquireLock \/ Prepare \/ CreateShadowSet
        BY <3>4 DEF WaitForLock, AcquireLock, Prepare, CreateShadowSet, After
      <3>. QED
        BY <3>1, <3>2, <3>3, <3>4
    <2>3. dispatcher' \in {"leaving", "done"} => aggOutcome' = "failed"
      BY DEF CancelledBeforeStart, WaitForLock, AcquireLock, Prepare, CreateShadowSet,
             StopDispatch, EndDispatch, Drain
    <2>. QED
      BY <1>1, <2>1, <2>2, <2>3 DEF FoldersInv, EndInv, Success
  <1>6. ShadowInv'
    BY DEF FoldersInv, ShadowInv, CancelledBeforeStart, WaitForLock, AcquireLock, Prepare,
           CreateShadowSet, StopDispatch, EndDispatch, Drain
  <1>. QED
    BY <1>2, <1>3, <1>4, <1>5, <1>6 DEF FoldersInv

LEMMA StartFolderStep ==
  ASSUME FoldersAssumption, FoldersInv, StartFolder
  PROVE  FoldersInv'
  <1>. USE DEF FoldersInv, FoldersAssumption, Folders
  <1>1. next \in Folders /\ next' = next + 1 /\ dispatcher = "dispatching"
    BY DEF StartFolder, FoldersTypes
  <1>2. UNCHANGED <<dispatcher, shadowMode, shadows, committed, result, aggOutcome,
                    perDirErrors, report>>
    BY DEF StartFolder, aggregate
  <1>3. \E label \in {"creating", "running"} : folderPc' = [folderPc EXCEPT ![next] = label]
    BY DEF StartFolder
  <1>4. FoldersTypes'
    BY <1>1, <1>2, <1>3 DEF FoldersTypes
  <1>5. TurnInv'
    <2>1. \A f \in Folders : folderPc'[f] = "idle" <=> f >= next'
      BY <1>1, <1>3 DEF FoldersTypes, TurnInv
    <2>. QED
      BY <1>1, <1>2, <2>1 DEF TurnInv
  <1>6. MergeInv'
    BY <1>2, <1>3 DEF FoldersTypes, MergeInv, Whole, Success
  <1>7. EndInv'
    BY <1>1, <1>2 DEF EndInv, After
  <1>8. ShadowInv'
    BY <1>2 DEF ShadowInv
  <1>. QED
    BY <1>4, <1>5, <1>6, <1>7, <1>8

LEMMA FolderEndsStep ==
  ASSUME FoldersAssumption, FoldersInv, NEW f \in Folders, FolderEnds(f)
  PROVE  FoldersInv'
  <1>. USE DEF FoldersInv
  <1>1. PICK r \in Reports :
          /\ FolderReport(f, r)
          /\ result' = [result EXCEPT ![f] = r]
          /\ aggOutcome' = IF r = "cancelled" THEN "failed" ELSE WorstOutcome(aggOutcome, r)
          /\ perDirErrors' = IF Success(r) THEN perDirErrors ELSE perDirErrors \cup {Error(f, "failed")}
    BY DEF FolderEnds
  <1>2. /\ folderPc[f] = "running" /\ folderPc' = [folderPc EXCEPT ![f] = "merged"]
        /\ shadows' \in {shadows \ {f}, shadows}
        /\ UNCHANGED <<dispatcher, shadowMode, next, committed, report>>
    BY DEF FolderEnds
  <1>3. aggOutcome' \in Outcomes /\ (Success(aggOutcome') => Success(aggOutcome) /\ Success(r))
    <2>1. CASE r = "cancelled"
      BY <1>1, <2>1 DEF Outcomes, Reports, Success
    <2>2. CASE r # "cancelled"
      BY <1>1, <2>2, Worst DEF FoldersTypes, Outcomes
    <2>. QED
      BY <2>1, <2>2
  <1>4. perDirErrors \subseteq perDirErrors' /\ (~Success(r) => perDirErrors' # {})
    BY <1>1
  <1>5. FoldersTypes'
    BY <1>1, <1>2, <1>3 DEF FoldersTypes
  <1>6. dispatcher \notin {"start", "waiting", "locked", "creating", "releasing", "closing", "leaving", "done"}
    BY <1>2 DEF FoldersTypes, TurnInv, InFlight, Folders, FoldersAssumption
  <1>7. TurnInv'
    BY <1>2, <1>6 DEF FoldersTypes, TurnInv
  <1>8. MergeInv'
    <2>. SUFFICES ASSUME NEW g \in Folders, folderPc'[g] = "merged"
                  PROVE  Whole(g)' \/ (~Success(aggOutcome') /\ perDirErrors' # {})
      BY DEF MergeInv, Success
    <2>1. CASE g = f
      <3>1. CASE Success(r)
        BY <1>1, <1>2, <2>1, <3>1, HonestIsWhole DEF Whole
      <3>2. CASE ~Success(r)
        BY <1>3, <1>4, <3>2
      <3>. QED
        BY <3>1, <3>2
    <2>2. CASE g # f
      BY <1>2, <1>3, <1>4, <2>2 DEF FoldersTypes, MergeInv, Whole
    <2>. QED
      BY <2>1, <2>2
  <1>9. EndInv'
    BY <1>2, <1>4, <1>6 DEF EndInv
  <1>10. ShadowInv'
    BY <1>2 DEF ShadowInv, Batch, Folders
  <1>. QED
    BY <1>5, <1>7, <1>8, <1>9, <1>10

LEMMA FolderStep ==
  ASSUME FoldersAssumption, FoldersInv, NEW f \in Folders, CreateShadow(f) \/ FolderCommits(f)
  PROVE  FoldersInv'
  <1>. USE DEF FoldersInv
  <1>1. UNCHANGED <<dispatcher, shadowMode, next, result, aggOutcome, perDirErrors, report>>
    BY DEF CreateShadow, FolderCommits, aggregate
  <1>2. shadows \subseteq shadows'
    BY DEF CreateShadow, FolderCommits
  <1>3. folderPc[f] \in {"creating", "running"} /\ f \in InFlight
    BY DEF CreateShadow, FolderCommits, InFlight
  <1>4. \A g \in Folders : folderPc'[g] = "idle" <=> folderPc[g] = "idle"
    BY <1>3 DEF FoldersTypes, CreateShadow, FolderCommits
  <1>5. \A g \in Folders : folderPc'[g] = "merged" => folderPc[g] = "merged" /\ committed'[g] = committed[g]
    BY DEF FoldersTypes, CreateShadow, FolderCommits
  <1>6. FoldersTypes'
    BY <1>1 DEF FoldersTypes, CreateShadow, FolderCommits
  <1>7. TurnInv'
    BY <1>1, <1>3, <1>4 DEF TurnInv
  <1>8. MergeInv'
    BY <1>1, <1>5 DEF MergeInv, Whole, Success
  <1>9. EndInv'
    BY <1>1 DEF EndInv, Success
  <1>10. ShadowInv'
    BY <1>1, <1>2 DEF ShadowInv
  <1>. QED
    BY <1>6, <1>7, <1>8, <1>9, <1>10

LEMMA ReleaseStep ==
  ASSUME FoldersAssumption, FoldersInv, ReleaseShadowSet
  PROVE  FoldersInv'
  <1>. USE DEF FoldersInv
  <1>1. dispatcher = "releasing" /\ dispatcher' = "closing" /\ UNCHANGED <<shadowMode, next,
                                                                           folderPc, committed,
                                                                           result, report>>
    BY DEF ReleaseShadowSet, folderVars
  <1>2. /\ aggOutcome' \in Outcomes /\ perDirErrors \subseteq perDirErrors'
        /\ UNCHANGED <<aggOutcome,
                       perDirErrors>> \/ (~Success(aggOutcome') /\ perDirErrors' # {})
    <2>1. CASE UNCHANGED aggregate
      BY <2>1 DEF aggregate, FoldersTypes
    <2>2. CASE /\ perDirErrors = {} /\ perDirErrors' = {Error(Batch, "release")}
               /\ aggOutcome' = IF StartedFolders = {} THEN "failed" ELSE CapAtPartial(aggOutcome)
      <3>1. aggOutcome' \in Outcomes /\ ~Success(aggOutcome')
        BY <2>2, Capped DEF FoldersTypes, Outcomes, Reports, Success
      <3>. QED
        BY <2>2, <3>1
    <2>. QED
      BY <2>1, <2>2 DEF ReleaseShadowSet
  <1>3. FoldersTypes'
    BY <1>1, <1>2 DEF FoldersTypes, After
  <1>4. TurnInv'
    BY <1>1 DEF TurnInv, InFlight
  <1>5. MergeInv'
    BY <1>1, <1>2 DEF MergeInv, Whole, Success
  <1>6. EndInv'
    BY <1>1, <1>2 DEF EndInv, After
  <1>7. ShadowInv'
    BY <1>1 DEF ShadowInv
  <1>. QED
    BY <1>3, <1>4, <1>5, <1>6, <1>7

LEMMA CloseStep ==
  ASSUME FoldersAssumption, FoldersInv, CloseAggregate
  PROVE  FoldersInv'
  <1>. USE DEF FoldersInv
  <1>1. /\ dispatcher = "closing" /\ dispatcher' = "leaving"
        /\ UNCHANGED <<shadowMode, next, folderPc, committed, result, perDirErrors, report>>
    BY DEF CloseAggregate, folderVars
  <1>2. aggOutcome' \in Outcomes /\ (UNCHANGED aggOutcome \/ (~Success(aggOutcome') /\ perDirErrors # {}))
    <2>1. CASE perDirErrors = {} \/ StartedFolders = Folders
      BY <2>1 DEF CloseAggregate, FoldersTypes
    <2>2. CASE perDirErrors # {} /\ StartedFolders # Folders
      BY <2>2, Capped DEF CloseAggregate, FoldersTypes, Outcomes, Reports, Success
    <2>. QED
      BY <2>1, <2>2
  <1>3. next <= N => ~Success(aggOutcome')
    <2>. SUFFICES ASSUME next <= N PROVE ~Success(aggOutcome')
      OBVIOUS
    <2>1. perDirErrors # {}
      BY <1>1 DEF EndInv, After
    <2>2. next \in Folders /\ next \notin StartedFolders
      BY DEF TurnInv, FoldersTypes, StartedFolders, Folders, FoldersAssumption
    <2>3. aggOutcome' = IF StartedFolders = {} THEN "failed" ELSE CapAtPartial(aggOutcome)
      BY <2>1, <2>2 DEF CloseAggregate
    <2>. QED
      BY <2>3, Capped DEF FoldersTypes, Outcomes, Reports, Success
  <1>4. FoldersTypes'
    BY <1>1, <1>2 DEF FoldersTypes, After
  <1>5. TurnInv'
    BY <1>1 DEF TurnInv, InFlight
  <1>6. MergeInv'
    BY <1>1, <1>2 DEF MergeInv, Whole, Success
  <1>7. EndInv'
    BY <1>1, <1>3 DEF EndInv, After
  <1>8. ShadowInv'
    BY <1>1 DEF ShadowInv
  <1>. QED
    BY <1>4, <1>5, <1>6, <1>7, <1>8

LEMMA LeaveStep ==
  ASSUME FoldersAssumption, FoldersInv, Leave
  PROVE  FoldersInv'
  <1>. USE DEF FoldersInv
  <1>1. /\ dispatcher = "leaving" /\ dispatcher' = "done"
        /\ report' = [success |-> Success(aggOutcome), error |-> perDirErrors # {}]
        /\ UNCHANGED <<shadowMode, next, folderPc, committed, result, aggOutcome, perDirErrors>>
    BY DEF Leave, folderVars, aggregate
  <1>2. FoldersTypes' /\ TurnInv' /\ MergeInv' /\ ShadowInv'
    BY <1>1 DEF FoldersTypes, TurnInv, InFlight, MergeInv, Whole, Success, ShadowInv, After
  <1>3. EndInv'
    BY <1>1 DEF EndInv, After, Success
  <1>. QED
    BY <1>2, <1>3

LEMMA FoldersStep ==
  ASSUME FoldersAssumption, FoldersInv, [BatchNext]_batchVars
  PROVE  FoldersInv'
  <1>1. CASE CancelBatch \/ UNCHANGED batchVars
    <2>1. UNCHANGED <<dispatcher, shadowMode, shadows, next, folderPc, committed, result,
                      aggOutcome, perDirErrors, report>>
      BY <1>1 DEF CancelBatch, batchVars, folderVars, aggregate
    <2>. QED
      BY <2>1 DEF FoldersInv, FoldersTypes, TurnInv, InFlight, MergeInv, Whole, Success, EndInv, ShadowInv
  <1>. QED
    BY <1>1, DispatcherStep, StartFolderStep, FolderEndsStep, FolderStep, ReleaseStep, CloseStep,
       LeaveStep DEF BatchNext, Dispatch

LEMMA FoldersInvariance ==
  ASSUME FoldersAssumption
  PROVE  BatchSpec => []FoldersInv
  BY FoldersStart, FoldersStep, PTL DEF BatchSpec

----------------------------------------------------------------------------

\* A run that says success, or returns no error, has a snapshot of every folder with
\* nothing missing but what the user excluded, however its folders end and whenever
\* it is stopped (runFoldersParallel, BackupStatus.merge).
THEOREM SuccessWhole ==
  ASSUME FoldersAssumption
  PROVE  BatchSpec => []SuccessIsWhole
  <1>1. ASSUME FoldersInv
        PROVE  SuccessIsWhole
    <2>. SUFFICES ASSUME report # Unreported, report.success \/ ~report.error, NEW f \in Folders
                  PROVE  Whole(f)
      BY DEF SuccessIsWhole, Whole
    <2>1. dispatcher = "done" /\ (Success(aggOutcome) \/ perDirErrors = {})
      <3>1. dispatcher = "done" /\ report = [success |-> Success(aggOutcome), error |-> perDirErrors # {}]
        BY <1>1 DEF FoldersInv, EndInv
      <3>2. report.success = Success(aggOutcome) /\ report.error = (perDirErrors # {})
        BY <3>1
      <3>. QED
        BY <3>1, <3>2, Zenon
    <2>2. next = N + 1
      BY <1>1, <2>1 DEF FoldersInv, EndInv, FoldersTypes, After, FoldersAssumption
    <2>3. folderPc[f] = "merged"
      BY <1>1, <2>1, <2>2 DEF FoldersInv, FoldersTypes, TurnInv, InFlight, Folders, FoldersAssumption
    <2>. QED
      BY <1>1, <2>1, <2>3 DEF FoldersInv, MergeInv
  <1>. QED
    BY <1>1, FoldersInvariance, PTL

\* The shadow set of a batch outlives every folder that reads it (the deferred
\* release after wg.Wait).
THEOREM ShadowsKept ==
  ASSUME FoldersAssumption
  PROVE  BatchSpec => []ShadowsKeptWhileRead
  <1>1. ASSUME FoldersInv
        PROVE  ShadowsKeptWhileRead
    <2>. SUFFICES ASSUME shadowMode = "batch", NEW f \in InFlight
                  PROVE  Batch \in shadows
      BY DEF ShadowsKeptWhileRead
    <2>1. folderPc[f] # "idle" /\ f \in Folders
      BY DEF InFlight
    <2>2. next # 1
      BY <1>1, <2>1 DEF FoldersInv, FoldersTypes, TurnInv, Folders, FoldersAssumption
    <2>3. dispatcher \in {"dispatching", "draining"}
      BY <1>1, <2>2 DEF FoldersInv, FoldersTypes, TurnInv, After
    <2>. QED
      BY <1>1, <2>3 DEF FoldersInv, ShadowInv
  <1>. QED
    BY <1>1, FoldersInvariance, PTL

----------------------------------------------------------------------------
(* A disk: the inductive invariant *)

\* A worker with a block, and the workers that have left.
Carrying == {"taken", "uploading", "checking", "listing"}
GoneWorkers == {w \in Workers : wpc[w] = "gone"}

\* The blocks that are in the index to be.
ListedBlocks == {b \in Blocks : <<Device[b], b>> \in listed}

DiskTypes ==
  /\ size \in Nat /\ reader \in {"reading", "ended", "failed"}
  /\ nextBlock \in 1 .. Len(Device) + 1 /\ held \in 0 .. Len(Device)
  /\ wpc \in [Workers -> Carrying \cup {"idle", "failing", "ending", "gone"}]
  /\ seg \in [Workers -> 0 .. Len(Device)]
  /\ mutex \in Workers \cup {Nobody}
  /\ mpc \in {"collecting", "collected", "assigning", "closing", "committed", "failed"}
  /\ listed \subseteq {<<Device[b], b>> : b \in Blocks}

\* Every block sent is at one place: with posfn, with one worker, or listed.
PlaceInv ==
  /\ held # 0 => held < nextBlock /\ held \notin ListedBlocks
  /\ \A w \in Workers : seg[w] # 0 =>
       seg[w] < nextBlock /\ seg[w] # held /\ seg[w] \notin ListedBlocks
  /\ \A v, w \in Workers : seg[v] # 0 /\ seg[v] = seg[w] => v = w
  /\ \A b \in ListedBlocks : b < nextBlock
  /\ \A b \in 1 .. nextBlock - 1 : b = held \/ b \in ListedBlocks \/ \E w \in Workers : seg[w] = b

\* A worker has a block from taking it to listing it.  One that leaves has none, and
\* leaves nothing behind, unless the backup failed.
WorkerInv ==
  /\ \A w \in Workers : wpc[w] \in Carrying => seg[w] # 0
  /\ \A w \in Workers : wpc[w] = "idle" => seg[w] = 0
  /\ mpc # "failed" => \A w \in Workers : wpc[w] \in {"ending", "gone"} =>
       seg[w] = 0 /\ reader # "reading" /\ held = 0

\* uploadWorker goes on when the last worker is gone, and commits only what the reader
\* read to the end.
MainInv ==
  /\ nils = Cardinality(GoneWorkers)
  /\ mpc \notin {"collecting", "failed"} => GoneWorkers = Workers
  /\ mpc \in {"assigning", "closing", "committed"} => reader = "ended"
  /\ reader = "ended" => nextBlock = Len(Device) + 1
  /\ mpc = "committed" => fixedIndex = listed

\* What is counted is listed.  A block too many stops every worker: the one that listed
\* it keeps the mutex.
DiskCountInv ==
  /\ count = Cardinality(ListedBlocks)
  /\ count > size => mutex # Nobody /\ (wpc[mutex] = "failing" \/ mpc = "failed")

DiskInv == DiskTypes /\ PlaceInv /\ WorkerInv /\ MainInv /\ DiskCountInv

----------------------------------------------------------------------------
(* Counting *)

LEMMA BlocksFinite ==
  ASSUME UploadAssumption
  PROVE  /\ Blocks = 1 .. Len(Device) /\ Len(Device) \in Nat
         /\ IsFiniteSet(Blocks) /\ Cardinality(Blocks) = Len(Device)
         /\ IsFiniteSet(ListedBlocks)
  <1>1. Blocks = 1 .. Len(Device) /\ Len(Device) \in Nat
    BY DEF Blocks, UploadAssumption
  <1>2. IsFiniteSet(Blocks) /\ Cardinality(Blocks) = Len(Device)
    <2>1. 1 \in Int /\ Len(Device) \in Int
      BY <1>1
    <2>2. /\ IsFiniteSet(1 .. Len(Device))
          /\ Cardinality(1 .. Len(Device)) =
               IF 1 > Len(Device) THEN 0 ELSE Len(Device) - 1 + 1
      BY <2>1, FS_Interval, Zenon
    <2>3. (IF 1 > Len(Device) THEN 0 ELSE Len(Device) - 1 + 1) = Len(Device)
      BY <1>1
    <2>. QED
      BY <1>1, <2>2, <2>3, Zenon
  <1>3. ListedBlocks \subseteq Blocks
    BY DEF ListedBlocks
  <1>. QED
    BY <1>1, <1>2, <1>3, FS_Subset

\* The blocks of a worker's steps that list nothing are where they were.
LEMMA ListedBlocksSame ==
  ASSUME UNCHANGED listed
  PROVE  ListedBlocks' = ListedBlocks
  BY DEF ListedBlocks

\* When no worker leaves, as many are gone.
LEMMA GoneWorkersSame ==
  ASSUME NEW w \in Workers, NEW label, label # "gone", wpc[w] # "gone",
         wpc \in [Workers -> Carrying \cup {"idle", "failing", "ending", "gone"}], Goto(w, label)
  PROVE  GoneWorkers' = GoneWorkers
  BY DEF GoneWorkers, Goto

----------------------------------------------------------------------------
(* The invariant of a disk *)

LEMMA DiskStart ==
  ASSUME UploadAssumption, DiskInit
  PROVE  DiskInv
  <1>. USE DEF DiskInit
  <1>1. DiskTypes
    BY BlocksFinite DEF DiskTypes, UploadAssumption, Carrying
  <1>2. ListedBlocks = {} /\ GoneWorkers = {}
    BY DEF ListedBlocks, GoneWorkers
  <1>3. PlaceInv
    BY <1>2 DEF PlaceInv
  <1>4. WorkerInv
    BY DEF WorkerInv, Carrying
  <1>5. MainInv
    BY <1>2, FS_EmptySet DEF MainInv
  <1>6. DiskCountInv
    <2>1. count = 0 /\ Cardinality(ListedBlocks) = 0 /\ size \in Nat
      BY <1>1, <1>2, FS_EmptySet DEF DiskTypes
    <2>. QED
      BY <2>1 DEF DiskCountInv
  <1>. QED
    BY <1>1, <1>3, <1>4, <1>5, <1>6 DEF DiskInv

\* The reader sends a block, or stops.
LEMMA ReaderStep ==
  ASSUME UploadAssumption, DiskInv, Read \/ ReaderFails
  PROVE  DiskInv'
  <1>. USE DEF DiskInv
  <1>1. /\ UNCHANGED <<size, workerVars, mainVars, indexVars>> /\ reader = "reading"
        /\ \/ SendBlock
           \/ reader' = "ended" /\ nextBlock = Len(Device) + 1 /\ UNCHANGED <<nextBlock, held>>
           \/ reader' = "failed" /\ UNCHANGED <<nextBlock, held>>
    BY DEF Read, ReaderFails, SendBlock, ReaderEnds, ReaderDrops
  <1>2. ListedBlocks' = ListedBlocks /\ GoneWorkers' = GoneWorkers
    BY <1>1 DEF ListedBlocks, GoneWorkers, workerVars
  <1>3. DiskTypes'
    BY <1>1, BlocksFinite DEF DiskTypes, SendBlock, workerVars, mainVars
  <1>4. PlaceInv'
    <2>1. CASE SendBlock
      <3>1. held = 0 /\ held' = nextBlock /\ nextBlock' = nextBlock + 1 /\ UNCHANGED seg
        BY <2>1 DEF SendBlock, workerVars
      <3>2. nextBlock \notin ListedBlocks /\ \A w \in Workers : seg[w] # nextBlock
        BY DEF PlaceInv, DiskTypes
      <3>3. \A b \in 1 .. nextBlock' - 1 : b = nextBlock \/ b \in 1 .. nextBlock - 1
        BY <3>1 DEF DiskTypes
      <3>. QED
        BY <1>2, <3>1, <3>2, <3>3, BlocksFinite DEF PlaceInv, DiskTypes, ListedBlocks
    <2>2. CASE UNCHANGED <<nextBlock, held>>
      BY <1>1, <1>2, <2>2 DEF PlaceInv, workerVars
    <2>. QED
      BY <1>1, <2>1, <2>2
  <1>5. WorkerInv'
    BY <1>1 DEF WorkerInv, SendBlock, workerVars, mainVars
  <1>6. MainInv'
    BY <1>1, <1>2 DEF MainInv, SendBlock, mainVars, indexVars, workerVars
  <1>7. DiskCountInv'
    BY <1>1, <1>2 DEF DiskCountInv, workerVars, mainVars
  <1>. QED
    BY <1>3, <1>4, <1>5, <1>6, <1>7

LEMMA TakeBlockStep ==
  ASSUME UploadAssumption, DiskInv, NEW w \in Workers, TakeBlock(w)
  PROVE  DiskInv'
  <1>. USE DEF DiskInv
  <1>1. /\ wpc[w] = "idle" /\ held # 0 /\ Goto(w, "taken") /\ held' = 0
        /\ seg' = [seg EXCEPT ![w] = held]
        /\ UNCHANGED <<size, reader, nextBlock, mutex, listed, count, mpc, nils, fixedIndex>>
    BY DEF TakeBlock, mainVars, indexVars
  <1>2. ListedBlocks' = ListedBlocks /\ GoneWorkers' = GoneWorkers
    BY <1>1, ListedBlocksSame, GoneWorkersSame DEF DiskTypes
  <1>3. DiskTypes'
    BY <1>1, BlocksFinite DEF DiskTypes, Goto, Carrying
  <1>4. seg[w] = 0 /\ seg'[w] = held /\ \A v \in Workers : v # w => seg'[v] = seg[v]
    BY <1>1 DEF WorkerInv, DiskTypes
  <1>5. PlaceInv'
    <2>1. held' # 0 => held' < nextBlock' /\ held' \notin ListedBlocks'
      BY <1>1
    <2>2. \A v \in Workers : seg'[v] # 0 => seg'[v] < nextBlock' /\ seg'[v] # held' /\ seg'[v] \notin ListedBlocks'
      BY <1>1, <1>2, <1>4 DEF PlaceInv
    <2>3. \A u, v \in Workers : seg'[u] # 0 /\ seg'[u] = seg'[v] => u = v
      BY <1>1, <1>4 DEF PlaceInv
    <2>4. \A b \in ListedBlocks' : b < nextBlock'
      BY <1>1, <1>2 DEF PlaceInv
    <2>5. \A b \in 1 .. nextBlock' - 1 : b = held' \/ b \in ListedBlocks' \/ \E v \in Workers : seg'[v] = b
      <3>1. ASSUME NEW b \in 1 .. nextBlock - 1, b \notin ListedBlocks
            PROVE  \E v \in Workers : seg'[v] = b
        <4>1. CASE b = held
          BY <1>4, <4>1
        <4>2. CASE b # held
          <5>1. PICK v \in Workers : seg[v] = b
            BY <3>1, <4>2 DEF PlaceInv
          <5>2. v # w
            BY <1>4, <5>1
          <5>. QED
            BY <1>4, <5>1, <5>2
        <4>. QED
          BY <4>1, <4>2
      <3>. QED
        BY <1>1, <1>2, <3>1
    <2>. QED
      BY <2>1, <2>2, <2>3, <2>4, <2>5 DEF PlaceInv
  <1>6. WorkerInv'
    BY <1>1, <1>4 DEF WorkerInv, Goto, Carrying, DiskTypes
  <1>7. MainInv'
    BY <1>1, <1>2 DEF MainInv
  <1>8. DiskCountInv'
    BY <1>1, <1>2 DEF DiskCountInv, Goto, DiskTypes
  <1>. QED
    BY <1>3, <1>5, <1>6, <1>7, <1>8

\* A worker goes on with the block it has.
LEMMA CarryStep ==
  ASSUME UploadAssumption, DiskInv, NEW w \in Workers, LookUp(w) \/ Upload(w) \/ CheckError(w)
  PROVE  DiskInv'
  <1>. USE DEF DiskInv
  <1>1. /\ wpc[w] \in Carrying
        /\ UNCHANGED <<size, reader, nextBlock, held, seg, mutex, listed, count, mpc, nils,
                       fixedIndex>>
    BY DEF LookUp, Upload, CheckError, mainVars, indexVars, readerVars, Carrying
  <1>2. PICK label \in Carrying \cup {"failing"} : Goto(w, label)
    BY DEF LookUp, Upload, CheckError, Carrying
  <1>3. ListedBlocks' = ListedBlocks /\ GoneWorkers' = GoneWorkers
    BY <1>1, <1>2, ListedBlocksSame, GoneWorkersSame DEF DiskTypes, Carrying
  <1>4. wpc'[w] = label /\ \A v \in Workers : v # w => wpc'[v] = wpc[v]
    BY <1>2 DEF Goto, DiskTypes
  <1>5. DiskTypes'
    BY <1>1, <1>2 DEF DiskTypes, Goto
  <1>6. PlaceInv'
    BY <1>1, <1>3 DEF PlaceInv
  <1>7. WorkerInv'
    BY <1>1, <1>2, <1>4 DEF WorkerInv, Carrying
  <1>8. MainInv'
    BY <1>1, <1>3 DEF MainInv
  <1>9. DiskCountInv'
    <2>1. wpc[w] # "failing"
      BY <1>1 DEF Carrying
    <2>. QED
      BY <1>1, <1>3, <1>4, <2>1 DEF DiskCountInv, DiskTypes
  <1>. QED
    BY <1>5, <1>6, <1>7, <1>8, <1>9

LEMMA ListBlockStep ==
  ASSUME UploadAssumption, DiskInv, NEW w \in Workers, ListBlock(w)
  PROVE  DiskInv'
  <1>. USE DEF DiskInv
  <1>. DEFINE b == seg[w]
  <1>1. /\ wpc[w] = "listing" /\ mutex = Nobody
        /\ listed' = listed \cup {<<Device[b], b>>} /\ count' = count + 1
        /\ seg' = [seg EXCEPT ![w] = 0]
        /\ UNCHANGED <<size, reader, nextBlock, held, mpc, nils, fixedIndex>>
    BY DEF ListBlock, ChunkOf, readerVars, mainVars, indexVars
  <1>2. PICK label \in {"failing", "idle"} :
          /\ Goto(w, label)
          /\ count' > size => mutex' = w /\ label = "failing"
          /\ mutex' \in {Nobody, w}
    BY <1>1 DEF ListBlock
  <1>3. b \in Blocks /\ b # 0 /\ b \notin ListedBlocks /\ b < nextBlock /\ b # held
    BY <1>1, BlocksFinite DEF WorkerInv, PlaceInv, Carrying, DiskTypes
  <1>4. ListedBlocks' = ListedBlocks \cup {b}
    BY <1>1, <1>3 DEF ListedBlocks
  <1>5. GoneWorkers' = GoneWorkers
    BY <1>1, <1>2, GoneWorkersSame DEF DiskTypes
  <1>6. seg'[w] = 0 /\ \A v \in Workers : v # w => seg'[v] = seg[v]
    BY <1>1 DEF DiskTypes
  <1>7. DiskTypes'
    <2>1. <<Device[b], b>> \in {<<Device[c], c>> : c \in Blocks}
      BY <1>3
    <2>2. 0 \in 0 .. Len(Device)
      BY BlocksFinite
    <2>. QED
      BY <1>1, <1>2, <2>1, <2>2 DEF DiskTypes, Goto
  <1>8. PlaceInv'
    <2>1. held' # 0 => held' < nextBlock' /\ held' \notin ListedBlocks'
      BY <1>1, <1>3, <1>4 DEF PlaceInv
    <2>2. \A v \in Workers : seg'[v] # 0 => seg'[v] < nextBlock' /\ seg'[v] # held' /\ seg'[v] \notin ListedBlocks'
      BY <1>1, <1>3, <1>4, <1>6 DEF PlaceInv
    <2>3. \A u, v \in Workers : seg'[u] # 0 /\ seg'[u] = seg'[v] => u = v
      BY <1>6 DEF PlaceInv
    <2>4. \A c \in ListedBlocks' : c < nextBlock'
      BY <1>1, <1>3, <1>4 DEF PlaceInv
    <2>5. \A c \in 1 .. nextBlock' - 1 : c = held' \/ c \in ListedBlocks' \/ \E v \in Workers : seg'[v] = c
      <3>1. ASSUME NEW c \in 1 .. nextBlock - 1, c # held, c \notin ListedBlocks', NEW v \in Workers, seg[v] = c
            PROVE  seg'[v] = c
        BY <1>4, <1>6, <3>1
      <3>. QED
        BY <1>1, <1>4, <3>1 DEF PlaceInv
    <2>. QED
      BY <2>1, <2>2, <2>3, <2>4, <2>5 DEF PlaceInv
  <1>9. WorkerInv'
    BY <1>1, <1>2, <1>6 DEF WorkerInv, Goto, Carrying, DiskTypes
  <1>10. MainInv'
    <2>1. mpc # "committed"
      BY <1>1 DEF MainInv, GoneWorkers
    <2>. QED
      BY <1>1, <1>5, <2>1 DEF MainInv
  <1>11. DiskCountInv'
    <2>1. count' = Cardinality(ListedBlocks')
      BY <1>1, <1>3, <1>4, BlocksFinite, FS_AddElement DEF DiskCountInv
    <2>2. w # Nobody
      BY DEF UploadAssumption
    <2>. QED
      BY <1>1, <1>2, <2>1, <2>2 DEF DiskCountInv, Goto, DiskTypes
  <1>. QED
    BY <1>7, <1>8, <1>9, <1>10, <1>11

LEMMA WorkerEndsStep ==
  ASSUME UploadAssumption, DiskInv, NEW w \in Workers, WorkerEnds(w)
  PROVE  DiskInv'
  <1>. USE DEF DiskInv
  <1>1. /\ wpc[w] = "idle" /\ reader # "reading" /\ held = 0 /\ Goto(w, "ending")
        /\ UNCHANGED <<size, reader, nextBlock, held, seg, mutex, listed, count, mpc, nils,
                       fixedIndex>>
    BY DEF WorkerEnds, readerVars, mainVars, indexVars
  <1>2. ListedBlocks' = ListedBlocks /\ GoneWorkers' = GoneWorkers
    BY <1>1, ListedBlocksSame, GoneWorkersSame DEF DiskTypes
  <1>3. DiskTypes'
    BY <1>1 DEF DiskTypes, Goto
  <1>4. PlaceInv'
    BY <1>1, <1>2 DEF PlaceInv
  <1>5. WorkerInv'
    BY <1>1 DEF WorkerInv, Goto, Carrying, DiskTypes
  <1>6. MainInv'
    BY <1>1, <1>2 DEF MainInv
  <1>7. DiskCountInv'
    BY <1>1, <1>2 DEF DiskCountInv, Goto, DiskTypes
  <1>. QED
    BY <1>3, <1>4, <1>5, <1>6, <1>7

LEMMA ReceiveErrorStep ==
  ASSUME UploadAssumption, DiskInv, NEW w \in Workers, ReceiveError(w)
  PROVE  DiskInv'
  <1>. USE DEF DiskInv
  <1>1. /\ wpc[w] = "failing" /\ mpc' = "failed" /\ Goto(w, "ending")
        /\ UNCHANGED <<size, reader, nextBlock, held, seg, mutex, listed, count, nils,
                       fixedIndex>>
    BY DEF ReceiveError, readerVars, indexVars
  <1>2. ListedBlocks' = ListedBlocks /\ GoneWorkers' = GoneWorkers
    BY <1>1, ListedBlocksSame, GoneWorkersSame DEF DiskTypes
  <1>3. DiskTypes'
    BY <1>1 DEF DiskTypes, Goto
  <1>4. PlaceInv'
    BY <1>1, <1>2 DEF PlaceInv
  <1>5. WorkerInv'
    BY <1>1 DEF WorkerInv, Goto, Carrying, DiskTypes
  <1>6. MainInv'
    BY <1>1, <1>2 DEF MainInv
  <1>7. DiskCountInv'
    BY <1>1, <1>2 DEF DiskCountInv
  <1>. QED
    BY <1>3, <1>4, <1>5, <1>6, <1>7

\* The last worker that leaves is the last of all.
LEMMA ReceiveNilStep ==
  ASSUME UploadAssumption, DiskInv, NEW w \in Workers, ReceiveNil(w)
  PROVE  DiskInv'
  <1>. USE DEF DiskInv
  <1>1. /\ mpc = "collecting" /\ wpc[w] = "ending" /\ Goto(w, "gone") /\ nils' = nils + 1
        /\ mpc' = IF nils' = Cardinality(Workers) THEN "collected" ELSE mpc
        /\ UNCHANGED <<size, reader, nextBlock, held, seg, mutex, listed, count, fixedIndex>>
    BY DEF ReceiveNil, readerVars, indexVars
  <1>2. ListedBlocks' = ListedBlocks
    BY <1>1, ListedBlocksSame
  <1>3. GoneWorkers' = GoneWorkers \cup {w} /\ w \notin GoneWorkers
    BY <1>1 DEF GoneWorkers, Goto, DiskTypes
  <1>4. IsFiniteSet(GoneWorkers) /\ IsFiniteSet(GoneWorkers')
    BY FS_Subset DEF GoneWorkers, UploadAssumption
  <1>5. nils' = Cardinality(GoneWorkers')
    BY <1>1, <1>3, <1>4, FS_AddElement DEF MainInv
  <1>6. mpc' = "collected" => GoneWorkers' = Workers
    <2>1. GoneWorkers' \subseteq Workers
      BY DEF GoneWorkers
    <2>2. mpc' = "collected" => Cardinality(GoneWorkers') = Cardinality(Workers)
      BY <1>1, <1>5
    <2>. QED
      BY <2>1, <2>2, FS_Subset DEF UploadAssumption
  <1>7. DiskTypes'
    BY <1>1 DEF DiskTypes, Goto
  <1>8. PlaceInv'
    BY <1>1, <1>2 DEF PlaceInv
  <1>9. WorkerInv'
    BY <1>1 DEF WorkerInv, Goto, Carrying, DiskTypes
  <1>10. MainInv'
    BY <1>1, <1>5, <1>6 DEF MainInv
  <1>11. DiskCountInv'
    BY <1>1, <1>2 DEF DiskCountInv, Goto, DiskTypes
  <1>. QED
    BY <1>7, <1>8, <1>9, <1>10, <1>11

\* uploadWorker closes the index, or fails.
LEMMA CloseIndexStep ==
  ASSUME UploadAssumption, DiskInv, ReceiveReadError \/ AssignFixedChunks \/ CloseFixedIndex
  PROVE  DiskInv'
  <1>. USE DEF DiskInv
  <1>1. /\ UNCHANGED <<size, readerVars, workerVars, nils>>
        /\ mpc \in {"collected", "assigning", "closing"}
        /\ \/ mpc' = "failed"
           \/ mpc' = "assigning" /\ reader = "ended"
           \/ mpc = "assigning" /\ mpc' = "closing"
           \/ mpc = "closing" /\ mpc' = "committed" /\ fixedIndex' = listed
    BY DEF ReceiveReadError, AssignFixedChunks, CloseFixedIndex, DiskTypes
  <1>2. ListedBlocks' = ListedBlocks /\ GoneWorkers' = GoneWorkers
    BY <1>1 DEF ListedBlocks, GoneWorkers, workerVars
  <1>3. DiskTypes'
    BY <1>1 DEF DiskTypes, readerVars, workerVars
  <1>4. PlaceInv'
    BY <1>1, <1>2 DEF PlaceInv, readerVars, workerVars
  <1>5. WorkerInv'
    BY <1>1 DEF WorkerInv, readerVars, workerVars
  <1>6. MainInv'
    BY <1>1, <1>2 DEF MainInv, readerVars, workerVars
  <1>7. DiskCountInv'
    BY <1>1, <1>2 DEF DiskCountInv, workerVars
  <1>. QED
    BY <1>3, <1>4, <1>5, <1>6, <1>7

LEMMA DiskStep ==
  ASSUME UploadAssumption, DiskInv, [DiskNext]_diskVars
  PROVE  DiskInv'
  <1>1. CASE UNCHANGED diskVars
    BY <1>1 DEF diskVars, readerVars, workerVars, mainVars, indexVars, DiskInv, DiskTypes, PlaceInv, WorkerInv,
                MainInv, DiskCountInv, ListedBlocks, GoneWorkers
  <1>2. CASE DiskNext
    BY <1>2, ReaderStep, TakeBlockStep, CarryStep, ListBlockStep, WorkerEndsStep, ReceiveErrorStep,
       ReceiveNilStep, CloseIndexStep DEF DiskNext, Collect, Work
  <1>. QED
    BY <1>1, <1>2

----------------------------------------------------------------------------

\* A committed index has every block of the device in its place, and no more of them
\* than were announced, whatever the order in which the workers take, upload and list
\* them and whichever requests are refused (uploadWorker, assignment_mutex).
THEOREM CommitsWhole ==
  ASSUME UploadAssumption
  PROVE  DiskSpec => []CommittedWhole
  <1>1. ASSUME DiskInv
        PROVE  CommittedWhole
    <2>. SUFFICES ASSUME mpc = "committed"
                  PROVE  /\ fixedIndex = {<<Device[b], b>> : b \in Blocks}
                         /\ count = Len(Device) /\ count <= size
      BY DEF CommittedWhole
    <2>1. GoneWorkers = Workers /\ nextBlock = Len(Device) + 1 /\ fixedIndex = listed
      BY <1>1 DEF DiskInv, MainInv
    <2>2. \A w \in Workers : wpc[w] = "gone" /\ seg[w] = 0 /\ held = 0
      BY <1>1, <2>1 DEF DiskInv, WorkerInv, GoneWorkers
    <2>3. held = 0
      BY <2>2 DEF UploadAssumption
    <2>4. Blocks = ListedBlocks
      <3>1. ASSUME NEW b \in Blocks PROVE b \in ListedBlocks
        <4>1. b \in 1 .. nextBlock - 1 /\ b # 0
          BY <2>1, BlocksFinite
        <4>. QED
          BY <1>1, <2>2, <2>3, <4>1 DEF DiskInv, PlaceInv
      <3>. QED
        BY <3>1 DEF ListedBlocks
    <2>5. listed = {<<Device[b], b>> : b \in Blocks}
      <3>1. listed \subseteq {<<Device[b], b>> : b \in Blocks}
        BY <1>1 DEF DiskInv, DiskTypes
      <3>2. {<<Device[b], b>> : b \in Blocks} \subseteq listed
        BY <2>4 DEF ListedBlocks
      <3>. QED
        BY <3>1, <3>2
    <2>6. count = Len(Device)
      BY <1>1, <2>4, BlocksFinite DEF DiskInv, DiskCountInv
    <2>7. ~(count > size)
      BY <1>1, <2>2 DEF DiskInv, DiskCountInv, DiskTypes
    <2>. QED
      BY <1>1, <2>1, <2>5, <2>6, <2>7, BlocksFinite DEF DiskInv, DiskTypes
  <1>. QED
    BY <1>1, DiskStart, DiskStep, PTL DEF DiskSpec

----------------------------------------------------------------------------
(* A split backup: the inductive invariants *)

Busy == {"start", "accepted", "started", "wait"}

SplitTypes ==
  /\ mode \in {"service", "standalone"}
  /\ loop \in Busy \cup {"arm", "closed"} /\ part \in 1 .. Parts + 1
  /\ DOMAIN poll = Jobs /\ DOMAIN entry = Listed /\ DOMAIN partOf = Jobs
  /\ loop \in Busy => part <= Parts

\* Jobs are numbered in the order they are started.
NumberInv == \E n \in 0 .. MaxJobs : Started = 1 .. n

\* A job whose end may still reach the window: the GUI polls it or runs it.
Followed(j) == IF mode = "service" THEN poll[j] = "polling" ELSE entry[j] = "running"

\* The window waits for one job at a time, that of the part it is at, and has not
\* heard anything yet; so what it hears is about that part.
FollowInv ==
  /\ loop \in {"start", "accepted"} => armed /\ heard = Unset
  /\ loop = "accepted" => mode = "service" /\ current \in Jobs /\ partOf[current] = part
  /\ mode = "standalone" => \A j \in Jobs : poll[j] # "polling"
  /\ \A j \in Jobs : Followed(j) =>
       /\ partOf[j] = part /\ loop \in {"started", "wait"} /\ armed /\ heard = Unset
       /\ \A k \in Jobs : Followed(k) => k = j

\* What the window hears and counts is backed by a backup that succeeded.
TrueInv ==
  /\ \A j \in Jobs : entry[j] = "ok" => j \in whole
  /\ loop \in {"started", "wait"} /\ heard = "ok" => Committed(part)
  /\ \A p \in done : Committed(p)

\* Every part before the current one is counted.
CountInv ==
  /\ done \cup failedParts = 1 .. part - 1
  /\ loop = "closed" => part = Parts + 1

SplitInv == SplitTypes /\ NumberInv /\ FollowInv /\ TrueInv /\ CountInv

----------------------------------------------------------------------------
(* Jobs *)

\* A job that is started is a new one, and the numbering goes on.
LEMMA NewNumber ==
  ASSUME GuiAssumption, NumberInv, NewJob \in Jobs, DOMAIN partOf = Jobs, part \in Nat,
         partOf' = [partOf EXCEPT ![NewJob] = part]
  PROVE  partOf[NewJob] = Unset /\ NumberInv'
  <1>. USE DEF GuiAssumption
  <1>1. PICK n \in 0 .. MaxJobs : Started = 1 .. n
    BY DEF NumberInv
  <1>2. NewJob = n + 1
    <2>1. Cardinality(1 .. n) = n
      BY <1>1, FS_Interval
    <2>. QED
      BY <1>1, <2>1 DEF NewJob
  <1>3. NewJob \notin Started
    BY <1>1, <1>2
  <1>4. Started' = Started \cup {NewJob}
    BY DEF Started
  <1>5. Started' = 1 .. n + 1
    BY <1>1, <1>2, <1>4
  <1>6. n + 1 \in 0 .. MaxJobs
    BY <1>2 DEF Jobs
  <1>. QED
    BY <1>3, <1>5, <1>6 DEF NumberInv, Started

\* What was committed stays so.
LEMMA CommittedStays ==
  ASSUME NEW p, Committed(p), whole \subseteq whole',
         \A j \in Started : j \in Started' /\ partOf'[j] = partOf[j]
  PROVE  Committed(p)'
  BY DEF Committed

----------------------------------------------------------------------------
(* The invariant *)

LEMMA SplitStart ==
  ASSUME GuiAssumption, SplitInit
  PROVE  SplitInv
  <1>. USE DEF GuiAssumption, SplitInit
  <1>1. SplitTypes
    BY DEF SplitTypes, Busy, Listed
  <1>2. Started = 1 .. 0
    BY DEF Started
  <1>3. NumberInv
    BY <1>2 DEF NumberInv
  <1>4. \A j \in Jobs : j \in Listed /\ entry[j] = "none"
    BY DEF Listed
  <1>5. FollowInv
    BY <1>4 DEF FollowInv, Followed
  <1>6. TrueInv /\ CountInv
    BY <1>4 DEF TrueInv, CountInv
  <1>. QED
    BY <1>1, <1>3, <1>5, <1>6 DEF SplitInv

\* The steps of the loop between two backups.
LEMMA LoopStep ==
  ASSUME GuiAssumption, SplitInv, StartPart \/ PartStarted \/ CloseSplit
  PROVE  SplitInv'
  <1>. USE DEF SplitInv
  <1>1. UNCHANGED <<mode, part, done, failedParts, current, poll, entry, partOf, whole>>
    BY DEF StartPart, PartStarted, CloseSplit, gui, service
  <1>2. SplitTypes'
    BY <1>1 DEF SplitTypes, Busy, StartPart, PartStarted, CloseSplit
  <1>3. NumberInv'
    BY <1>1 DEF NumberInv, Started
  <1>4. FollowInv'
    BY <1>1 DEF FollowInv, Followed, StartPart, PartStarted, CloseSplit
  <1>5. TrueInv'
    BY <1>1 DEF TrueInv, Committed, Started, StartPart, PartStarted, CloseSplit
  <1>6. CountInv'
    BY <1>1 DEF SplitTypes, CountInv, StartPart, PartStarted, CloseSplit, GuiAssumption
  <1>. QED
    BY <1>2, <1>3, <1>4, <1>5, <1>6

\* The window leaves a part, or has it tried again.
LEMMA PartEnds ==
  ASSUME GuiAssumption, SplitInv, HearOutcome \/ StartFails \/ GiveUpPart
  PROVE  SplitInv'
  <1>. USE DEF SplitInv
  <1>1. UNCHANGED <<mode, current, poll, entry, partOf, whole>>
    BY DEF HearOutcome, StartFails, GiveUpPart, gui, service
  <1>2. loop \in Busy /\ loop' = "arm" /\ part <= Parts
    BY DEF SplitTypes, HearOutcome, StartFails, GiveUpPart, Failed, NextPart, Busy
  <1>3. \/ UNCHANGED <<part, done, failedParts>>
        \/ part' = part + 1 /\ done' \cup failedParts' = done \cup failedParts \cup {part}
    BY DEF HearOutcome, StartFails, GiveUpPart, Failed, NextPart
  <1>4. SplitTypes'
    BY <1>1, <1>2, <1>3 DEF SplitTypes, Busy, GuiAssumption
  <1>5. NumberInv'
    BY <1>1 DEF NumberInv, Started
  <1>6. \A j \in Jobs : ~Followed(j)
    BY DEF FollowInv, HearOutcome, StartFails, GiveUpPart
  <1>7. FollowInv'
    BY <1>1, <1>2, <1>6 DEF FollowInv, Followed
  <1>8. \A p \in done' : Committed(p)
    BY DEF TrueInv, HearOutcome, StartFails, GiveUpPart
  <1>9. TrueInv'
    BY <1>1, <1>2, <1>8 DEF TrueInv, Committed, Started
  <1>10. CountInv'
    BY <1>2, <1>3 DEF SplitTypes, CountInv, GuiAssumption
  <1>. QED
    BY <1>4, <1>5, <1>7, <1>9, <1>10

\* A backup is started, by the GUI or by the service.
LEMMA JobStarts ==
  ASSUME GuiAssumption, SplitInv, StartDirect \/ Accept
  PROVE  SplitInv'
  <1>. USE DEF SplitInv
  <1>1. /\ NewJob \in Jobs /\ loop = "start"
        /\ partOf' = [partOf EXCEPT ![NewJob] = part] /\ entry' = [entry EXCEPT ![NewJob] = "running"]
        /\ UNCHANGED <<mode, part, armed, heard, done, failedParts, poll, whole>>
    BY DEF StartDirect, Accept, Begin, gui
  <1>2. \/ mode = "standalone" /\ loop' = "started"
        \/ mode = "service" /\ loop' = "accepted" /\ current' = NewJob
    BY DEF StartDirect, Accept
  <1>3. partOf[NewJob] = Unset /\ NumberInv'
    BY <1>1, NewNumber DEF SplitTypes, GuiAssumption
  <1>4. SplitTypes'
    BY <1>1, <1>2 DEF SplitTypes, Busy
  <1>5. \A j \in Jobs : ~Followed(j)
    BY <1>1 DEF FollowInv
  <1>6. partOf'[NewJob] = part
    BY <1>1 DEF SplitTypes
  <1>7. \A j \in Jobs : Followed(j)' => j = NewJob /\ mode = "standalone"
    BY <1>1, <1>5 DEF Followed, SplitTypes, Listed
  <1>8. FollowInv'
    <2>1. armed /\ heard = Unset
      BY <1>1 DEF FollowInv
    <2>. QED
      BY <1>1, <1>2, <1>6, <1>7, <2>1 DEF FollowInv
  <1>9. \A j \in Started : j \in Started' /\ partOf'[j] = partOf[j]
    BY <1>1, <1>3 DEF Started, SplitTypes
  <1>10. TrueInv'
    <2>1. \A j \in Jobs : entry'[j] = "ok" => j \in whole'
      BY <1>1 DEF TrueInv, SplitTypes, Listed
    <2>2. heard' # "ok"
      BY <1>1 DEF FollowInv, GuiAssumption
    <2>3. \A p \in done' : Committed(p)'
      BY <1>1, <1>9, CommittedStays DEF TrueInv
    <2>. QED
      BY <2>1, <2>2, <2>3 DEF TrueInv
  <1>11. CountInv'
    BY <1>1, <1>2 DEF CountInv
  <1>. QED
    BY <1>3, <1>4, <1>8, <1>10, <1>11

LEMMA AcceptedStep ==
  ASSUME GuiAssumption, SplitInv, Accepted
  PROVE  SplitInv'
  <1>. USE DEF SplitInv
  <1>1. /\ loop = "accepted" /\ loop' = "started" /\ poll' = [poll EXCEPT ![current] = "polling"]
        /\ UNCHANGED <<mode, part, armed, heard, done, failedParts, current, entry, partOf,
                       whole>>
    BY DEF Accepted, service
  <1>2. /\ mode = "service" /\ current \in Jobs /\ partOf[current] = part
        /\ armed /\ heard = Unset /\ \A j \in Jobs : ~Followed(j)
    BY <1>1 DEF FollowInv
  <1>3. SplitTypes'
    BY <1>1 DEF SplitTypes, Busy
  <1>4. NumberInv'
    BY <1>1 DEF NumberInv, Started
  <1>5. \A j \in Jobs : Followed(j)' => j = current
    BY <1>1, <1>2 DEF Followed, SplitTypes
  <1>6. FollowInv'
    BY <1>1, <1>2, <1>5 DEF FollowInv
  <1>7. TrueInv'
    BY <1>1, <1>2 DEF TrueInv, Committed, Started, GuiAssumption
  <1>8. CountInv'
    BY <1>1 DEF CountInv
  <1>. QED
    BY <1>3, <1>4, <1>6, <1>7, <1>8

\* The end of a followed job reaches the window.
LEMMA EmitStep ==
  ASSUME GuiAssumption, SplitInv, NEW j \in Jobs, Followed(j), NEW res, res = "ok" => j \in whole',
         Emit(res), whole \subseteq whole', UNCHANGED <<mode, current, partOf>>,
         DOMAIN poll' = Jobs, DOMAIN entry' = Listed,
         \A k \in Jobs : Followed(k)' => Followed(k) /\ k # j,
         mode = "standalone" => \A k \in Jobs : poll'[k] # "polling",
         \A k \in Jobs : entry'[k] = "ok" => k \in whole'
  PROVE  SplitInv'
  <1>. USE DEF SplitInv
  <1>1. UNCHANGED <<loop, part, done, failedParts>> /\ armed' = FALSE
    BY DEF Emit
  <1>2. partOf[j] = part /\ loop \in {"started", "wait"} /\ \A k \in Jobs : Followed(k) => k = j
    BY DEF FollowInv
  <1>3. SplitTypes'
    BY <1>1 DEF SplitTypes
  <1>4. NumberInv'
    BY DEF NumberInv, Started
  <1>5. \A k \in Jobs : ~Followed(k)'
    BY <1>2
  <1>6. FollowInv'
    BY <1>1, <1>2, <1>5 DEF FollowInv
  <1>7. \A p : Committed(p) => Committed(p)'
    BY CommittedStays DEF Started
  <1>8. heard' = "ok" => Committed(part)'
    <2>1. CASE res = "ok"
      <3>1. part # Unset
        BY DEF SplitTypes, GuiAssumption
      <3>. QED
        BY <1>1, <1>2, <2>1, <3>1 DEF Committed, Started
    <2>2. CASE res # "ok"
      BY <1>2, <1>7, <2>2 DEF Emit, TrueInv
    <2>. QED
      BY <2>1, <2>2
  <1>9. TrueInv'
    BY <1>1, <1>7, <1>8 DEF TrueInv
  <1>10. CountInv'
    BY <1>1 DEF CountInv
  <1>. QED
    BY <1>3, <1>4, <1>6, <1>9, <1>10

\* A step the window does not see, and that follows no other job.
LEMMA UnseenStep ==
  ASSUME GuiAssumption, SplitInv, UNCHANGED <<mode, window, current,
                                         partOf>>, whole \subseteq whole',
         DOMAIN poll' = Jobs, DOMAIN entry' = Listed,
         \A k \in Jobs : Followed(k)' => Followed(k),
         mode = "standalone" => \A k \in Jobs : poll'[k] # "polling",
         \A k \in Jobs : entry'[k] = "ok" => k \in whole'
  PROVE  SplitInv'
  <1>. USE DEF SplitInv, window
  <1>1. SplitTypes' /\ NumberInv' /\ CountInv'
    BY DEF SplitTypes, NumberInv, Started, CountInv
  <1>2. FollowInv'
    BY DEF FollowInv
  <1>3. \A p : Committed(p) => Committed(p)'
    BY CommittedStays DEF Started
  <1>4. TrueInv'
    BY <1>3 DEF TrueInv
  <1>. QED
    BY <1>1, <1>2, <1>4

LEMMA PollStep ==
  ASSUME GuiAssumption, SplitInv, NEW j \in Jobs, Poll(j) \/ PollLost(j)
  PROVE  SplitInv'
  <1>1. /\ poll[j] = "polling"
        /\ UNCHANGED <<mode, current, entry, partOf, whole>>
    BY DEF Poll, PollLost, service
  <1>2. mode = "service" /\ Followed(j)
    BY <1>1 DEF SplitInv, SplitTypes, FollowInv, Followed
  <1>3. \/ UNCHANGED <<poll, window>>
        \/ /\ poll' = [poll EXCEPT ![j] = "over"]
           /\ \E res : Emit(res) /\ (res = "ok" => entry[j] = "ok")
    <2>1. CASE PollLost(j)
      BY <2>1 DEF PollLost, PollFails, PollOver
    <2>2. CASE Poll(j)
      <3>1. PICK answer \in Answer(j) : Polled(j, answer)
        BY <2>2 DEF Poll
      <3>2. answer = "ok" => entry[j] = "ok"
        BY <3>1 DEF Answer
      <3>. QED
        BY <3>1, <3>2 DEF Polled, PollFails, PollOver
    <2>. QED
      BY <2>1, <2>2
  <1>4. CASE UNCHANGED <<poll, window>>
    BY <1>1, <1>2, <1>4, UnseenStep DEF SplitInv, SplitTypes, TrueInv, Followed
  <1>5. CASE poll' = [poll EXCEPT ![j] = "over"]
    <2>1. CASE \E res : Emit(res) /\ (res = "ok" => entry[j] = "ok")
      <3>1. PICK res : Emit(res) /\ (res = "ok" => entry[j] = "ok")
        BY <2>1
      <3>2. \A k \in Jobs : Followed(k)' => Followed(k) /\ k # j
        BY <1>1, <1>2, <1>5 DEF SplitInv, SplitTypes, Followed
      <3>3. DOMAIN poll' = Jobs /\ DOMAIN entry' = Listed
        BY <1>1, <1>5 DEF SplitInv, SplitTypes
      <3>4. \A k \in Jobs : entry'[k] = "ok" => k \in whole'
        BY <1>1 DEF SplitInv, TrueInv
      <3>5. res = "ok" => j \in whole'
        BY <1>1, <3>1 DEF SplitInv, TrueInv
      <3>. QED
        BY <1>1, <1>2, <3>1, <3>2, <3>3, <3>4, <3>5, EmitStep
    <2>. QED
      BY <1>3, <1>4, <2>1
  <1>. QED
    BY <1>3, <1>4, <1>5

LEMMA EndsStep ==
  ASSUME GuiAssumption, SplitInv, NEW j \in Listed, Ends(j)
  PROVE  SplitInv'
  <1>1. PICK res \in {"ok", "failed"} :
          /\ entry' = [entry EXCEPT ![j] = res]
          /\ whole' = IF res = "ok" THEN whole \cup {j} ELSE whole
          /\ IF mode = "standalone" /\ j # Foreign THEN Emit(res) ELSE UNCHANGED window
    BY DEF Ends
  <1>2. entry[j] = "running" /\ UNCHANGED <<mode, current, poll, partOf>>
    BY DEF Ends, gui
  <1>3. /\ DOMAIN poll' = Jobs /\ DOMAIN entry' = Listed
        /\ \A k \in Jobs : entry'[k] = "ok" => k \in whole'
    BY <1>1, <1>2 DEF SplitInv, SplitTypes, TrueInv, Listed
  <1>4. mode = "standalone" => \A k \in Jobs : poll'[k] # "polling"
    BY <1>2 DEF SplitInv, FollowInv
  <1>5. \A k \in Jobs : Followed(k)' => Followed(k) /\ (mode = "standalone" => k # j)
    BY <1>1, <1>2 DEF SplitInv, SplitTypes, Followed, Listed
  <1>6. CASE mode = "standalone" /\ j # Foreign
    <2>1. j \in Jobs /\ Followed(j)
      BY <1>2, <1>6 DEF Listed, Followed
    <2>2. Emit(res) /\ (res = "ok" => j \in whole')
      BY <1>1, <1>6
    <2>3. \A k \in Jobs : Followed(k)' => Followed(k) /\ k # j
      BY <1>5, <1>6
    <2>. QED
      BY <1>1, <1>2, <1>3, <1>4, <2>1, <2>2, <2>3, EmitStep
  <1>7. CASE ~(mode = "standalone" /\ j # Foreign)
    BY <1>1, <1>2, <1>3, <1>4, <1>5, <1>7, UnseenStep
  <1>. QED
    BY <1>6, <1>7

LEMMA RestartStep ==
  ASSUME GuiAssumption, SplitInv, Restart
  PROVE  SplitInv'
  <1>1. /\ mode = "service" /\ UNCHANGED <<mode, window, current, poll, partOf, whole>>
        /\ entry' = [k \in Listed |-> "none"]
    BY DEF Restart, gui
  <1>2. \A k \in Jobs : Followed(k)' => Followed(k)
    BY <1>1 DEF Followed
  <1>3. \A k \in Jobs : entry'[k] # "ok"
    BY <1>1 DEF Listed
  <1>4. DOMAIN entry' = Listed /\ DOMAIN poll' = Jobs
    BY <1>1 DEF SplitInv, SplitTypes
  <1>. QED
    BY <1>1, <1>2, <1>3, <1>4, UnseenStep

LEMMA StopStep ==
  ASSUME GuiAssumption, SplitInv, ClickStop \/ SendStop \/ UNCHANGED splitVars
  PROVE  SplitInv'
  <1>1. UNCHANGED <<mode, window, current, poll, entry, partOf, whole>>
    BY DEF ClickStop, SendStop, splitVars, gui, service
  <1>. QED
    BY <1>1, UnseenStep DEF SplitInv, SplitTypes, FollowInv, TrueInv, Followed

LEMMA SplitStep ==
  ASSUME GuiAssumption, SplitInv, [SplitNext]_splitVars
  PROVE  SplitInv'
  BY LoopStep, PartEnds, JobStarts, AcceptedStep, PollStep, EndsStep, RestartStep, StopStep
  DEF SplitNext, Window, Done

\* A split backup counts no part as succeeded whose backup did not succeed, and
\* leaves none out, however many parts there are and whichever calls are lost
\* (executeSplitBackup, pollBackupProgress).
THEOREM SplitIsHonest ==
  ASSUME GuiAssumption
  PROVE  SplitSpec => []HonestSplit
  <1>1. ASSUME SplitInv
        PROVE  HonestSplit
    BY <1>1 DEF SplitInv, TrueInv, CountInv, HonestSplit, SplitTypes, GuiAssumption
  <1>. QED
    BY <1>1, SplitStart, SplitStep, PTL DEF SplitSpec

============================================================================
