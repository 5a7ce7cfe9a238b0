---------------------------- MODULE BackupControl ----------------------------
(***************************************************************************)
(* How the service keeps track of the backups in flight and stops them:    *)
(* the API server's progress map (gui/api/server.go, server_inline.go) and  *)
(* the App's cancellation slots and callbacks (gui/backup_control.go,      *)
(* gui/backup_inline.go).                                                  *)
(*                                                                         *)
(* A run is started by an API handler or by the scheduler.  The slots are  *)
(* global, one of each for all runs; every lock section is a step.  What a  *)
(* backup does between taking its context and ending is abstracted here to *)
(* its outcome.                                                            *)
(***************************************************************************)
EXTENDS Naturals, FiniteSets

CONSTANTS ApiRuns,        \* backups started by POST /backup
          ScheduledRuns,  \* backups started by the scheduler
          MachineRuns,    \* those of them that back up whole disks
          DestinationOf,  \* server and datastore of each run
          Cancels,        \* POST /backup/cancel requests
          Stoppable,      \* bound: runs a user may ask to stop
          MaxRuns,        \* bound: runs started
          None

Runs == ApiRuns \cup ScheduledRuns
Destinations == {DestinationOf[r] : r \in Runs}

ASSUME ControlAssumption ==
  /\ ApiRuns \cap ScheduledRuns = {}
  /\ MachineRuns \subseteq Runs /\ Stoppable \subseteq Runs
  /\ DestinationOf \in [Runs -> Destinations]
  /\ MaxRuns \in Nat
  /\ None \notin Runs \cup ({"own", "shared"} \X Runs) \cup {"success", "failed", "cancelled"}

\* A cancellable context: the one its handler made for a run, or the one
\* RunBackupInline makes for every run.
Token == {"own", "shared"} \X Runs
Own(r) == <<"own", r>>
Shared(r) == <<"shared", r>>

VARIABLES
  pc,             \* of the goroutine of each run
  ctx,            \* the context each run obeys
  outcome,        \* how each run ended
  cancelled,      \* the tokens that are cancelled
  entry,          \* backupProgress: run -> its entry
  callbacks,      \* callbacksMap: runs that listen
  finished,       \* the callbacks each run's dispatchComplete has served
  inlineJob,      \* inlineJobID
  backupCtx,      \* backupCtx and backupCancel, always set together
  currentFunc,    \* cancelFuncs["current"]
  jobFuncs,       \* cancelFuncs, by run
  sharedCancel,   \* currentBackupCancel
  lock,           \* backupLocks: destination -> its holder
  cpc, target, found,  \* of the cancel requests
  \* history variables
  asked,          \* runs a user asked to stop
  acknowledged,   \* runs whose stop was acknowledged before they began to commit
  mixed           \* a run began beside another run or its stop, or after one that left its
                  \* callback behind

runVars == <<pc, ctx, outcome>>
mapVars == <<entry, callbacks, finished, inlineJob>>
slotVars == <<backupCtx, currentFunc, jobFuncs, sharedCancel>>
cancelVars == <<cpc, target, found>>
ghostVars == <<asked, acknowledged, mixed>>
vars == <<runVars, cancelled, mapVars, slotVars, lock, cancelVars, ghostVars>>

RunPC == {"none", "registered", "ctxSet", "currentSet", "cancelSet", "listening",
          "configured", "entered", "locked", "committing", "ended", "dispatched",
          "unlocking", "leaving", "returned", "closing", "cleared", "done"}
CancelPC == {"none", "checked", "fallback", "shared", "found", "answered"}
Outcome == {"success", "failed", "cancelled"}

\* `shows` is the run whose last update the entry displays.
Progress == [running: BOOLEAN, success: BOOLEAN, shows: Runs]

InFlight == {r \in Runs : pc[r] \notin {"none", "done"}}

Init ==
  /\ pc = [r \in Runs |-> "none"]
  /\ ctx = [r \in Runs |-> None]
  /\ outcome = [r \in Runs |-> None]
  /\ cancelled = {}
  /\ entry = [r \in Runs |-> None]
  /\ callbacks = {}
  /\ finished = [r \in Runs |-> {}]
  /\ inlineJob = None
  /\ backupCtx = None /\ currentFunc = None /\ sharedCancel = None
  /\ jobFuncs = {}
  /\ lock = [d \in Destinations |-> None]
  /\ cpc = [c \in Cancels |-> "none"]
  /\ target = [c \in Cancels |-> None]
  /\ found = [c \in Cancels |-> None]
  /\ asked = {} /\ acknowledged = {}
  /\ mixed = FALSE

Goto(r, label) == pc' = [pc EXCEPT ![r] = label]

\* A cancel request between its check and its answer.
Pending == {c \in Cancels : cpc[c] \in {"checked", "fallback", "shared", "found"}}

----------------------------------------------------------------------------
(* Starting a run *)

\* handleBackup and RegisterInlineJob: the entry exists before the goroutine does anything.
Register(r) ==
  /\ pc[r] = "none"
  /\ Cardinality({x \in Runs : pc[x] # "none"}) < MaxRuns
  /\ Goto(r, "registered")
  /\ entry' = [entry EXCEPT ![r] = [running |-> TRUE, success |-> FALSE, shows |-> r]]
  /\ mixed' = (mixed \/ InFlight # {} \/ Pending # {} \/ callbacks # {})
  /\ UNCHANGED <<ctx, outcome, cancelled, callbacks, finished, inlineJob, slotVars, lock,
                 cancelVars, asked, acknowledged>>

\* SetBackupContext, under backupCtxMu.
SetBackupContext(r) ==
  /\ r \in ApiRuns /\ pc[r] = "registered"
  /\ Goto(r, "ctxSet")
  /\ backupCtx' = Own(r)
  /\ UNCHANGED <<ctx, outcome, cancelled, mapVars, currentFunc, jobFuncs, sharedCancel,
                 lock, cancelVars, ghostVars>>

\* SetBackupContext, under cancelFuncsMu.
SetCurrentCancel(r) ==
  /\ pc[r] = "ctxSet"
  /\ Goto(r, "currentSet")
  /\ currentFunc' = Own(r)
  /\ UNCHANGED <<ctx, outcome, cancelled, mapVars, backupCtx, jobFuncs, sharedCancel,
                 lock, cancelVars, ghostVars>>

RegisterBackupCancel(r) ==
  /\ pc[r] = "currentSet"
  /\ Goto(r, "cancelSet")
  /\ jobFuncs' = jobFuncs \cup {r}
  /\ UNCHANGED <<ctx, outcome, cancelled, mapVars, backupCtx, currentFunc, sharedCancel,
                 lock, cancelVars, ghostVars>>

SetProgressCallbacks(r) ==
  /\ pc[r] = "cancelSet"
  /\ Goto(r, "listening")
  /\ callbacks' = callbacks \cup {r}
  /\ UNCHANGED <<ctx, outcome, cancelled, entry, finished, inlineJob, slotVars, lock,
                 cancelVars, ghostVars>>

SetInlineJobID(r) ==
  /\ r \in ScheduledRuns /\ pc[r] = "registered"
  /\ Goto(r, "listening")
  /\ inlineJob' = r
  /\ UNCHANGED <<ctx, outcome, cancelled, entry, callbacks, finished, slotVars, lock,
                 cancelVars, ghostVars>>

\* StartBackup and StartMachineBackup take whatever context the App holds by then.
TakeContext(r) ==
  /\ pc[r] = "listening"
  /\ Goto(r, "configured")
  /\ ctx' = [ctx EXCEPT ![r] = backupCtx]
  /\ UNCHANGED <<outcome, cancelled, mapVars, slotVars, lock, cancelVars, ghostVars>>

\* No configuration, no such server, no encryption key, no such disk: the run fails
\* before any of its callbacks is called.
FailToStart(r) ==
  /\ pc[r] = "listening"
  /\ Goto(r, "returned")
  /\ outcome' = [outcome EXCEPT ![r] = "failed"]
  /\ UNCHANGED <<ctx, cancelled, mapVars, slotVars, lock, cancelVars, ghostVars>>

\* newBackupContext cancels the shared context of the run before; the run obeys its own
\* when the App held none.
NewBackupContext(r) ==
  /\ pc[r] = "configured"
  /\ Goto(r, "entered")
  /\ cancelled' = cancelled \cup ({sharedCancel} \ {None})
  /\ sharedCancel' = Shared(r)
  /\ ctx' = [ctx EXCEPT ![r] = IF @ = None THEN Shared(r) ELSE @]
  /\ UNCHANGED <<outcome, mapVars, backupCtx, currentFunc, jobFuncs, lock, cancelVars,
                 ghostVars>>

----------------------------------------------------------------------------
(* The backup itself *)

\* No credentials or nothing to back up: no callback is called.
RejectOptions(r) ==
  /\ pc[r] = "entered"
  /\ Goto(r, "leaving")
  /\ outcome' = [outcome EXCEPT ![r] = "failed"]
  /\ UNCHANGED <<ctx, cancelled, mapVars, slotVars, lock, cancelVars, ghostVars>>

\* A directory backup waits for the lock of its destination; a machine backup takes none.
AcquireLock(r) ==
  /\ pc[r] = "entered"
  /\ Goto(r, "locked")
  /\ IF r \in MachineRuns THEN UNCHANGED lock
     ELSE /\ lock[DestinationOf[r]] = None
          /\ lock' = [lock EXCEPT ![DestinationOf[r]] = r]
  /\ UNCHANGED <<ctx, outcome, cancelled, mapVars, slotVars, cancelVars, ghostVars>>

\* dispatchProgress writes to the entry of every run that listens, over or not, and to
\* that of the inline run in the slot while it is running.
DispatchProgress(r) ==
  /\ pc[r] \in {"entered", "locked", "committing"}
  /\ entry' = [x \in Runs |->
                 IF /\ entry[x] # None
                    /\ x \in callbacks \/ (x = inlineJob /\ entry[x].running)
                 THEN [entry[x] EXCEPT !.shows = r]
                 ELSE entry[x]]
  /\ UNCHANGED <<runVars, cancelled, callbacks, finished, inlineJob, slotVars, lock,
                 cancelVars, ghostVars>>

\* The last look at the context, after the upload and before the snapshot is committed.
\* A context cancelled by then drops the session.
BeginCommit(r) ==
  /\ pc[r] = "locked"
  /\ ctx[r] \notin cancelled
  /\ Goto(r, "committing")
  /\ UNCHANGED <<ctx, outcome, cancelled, mapVars, slotVars, lock, cancelVars, ghostVars>>

StopCancelled(r) ==
  /\ pc[r] = "locked"
  /\ ctx[r] \in cancelled
  /\ Goto(r, "ended")
  /\ outcome' = [outcome EXCEPT ![r] = "cancelled"]
  /\ UNCHANGED <<ctx, cancelled, mapVars, slotVars, lock, cancelVars, ghostVars>>

BackupEnds(r) ==
  /\ pc[r] = "committing"
  /\ Goto(r, "ended")
  /\ \E result \in {"success", "failed"} : outcome' = [outcome EXCEPT ![r] = result]
  /\ UNCHANGED <<ctx, cancelled, mapVars, slotVars, lock, cancelVars, ghostVars>>

\* dispatchComplete calls every callback registered, whoever's it is.
DispatchComplete(r) ==
  /\ pc[r] = "ended"
  /\ Goto(r, "dispatched")
  /\ finished' = [finished EXCEPT ![r] = callbacks]
  /\ entry' = [x \in Runs |->
                 IF entry[x] # None /\ x \in callbacks
                 THEN [running |-> FALSE, success |-> outcome[r] = "success", shows |-> r]
                 ELSE entry[x]]
  /\ UNCHANGED <<ctx, outcome, cancelled, callbacks, inlineJob, slotVars, lock,
                 cancelVars, ghostVars>>

\* ... and then removes those it called.
RemoveCallbacks(r) ==
  /\ pc[r] = "dispatched"
  /\ Goto(r, "unlocking")
  /\ callbacks' = callbacks \ finished[r]
  /\ finished' = [finished EXCEPT ![r] = {}]
  /\ UNCHANGED <<ctx, outcome, cancelled, entry, inlineJob, slotVars, lock, cancelVars,
                 ghostVars>>

ReleaseLock(r) ==
  /\ pc[r] = "unlocking"
  /\ Goto(r, "leaving")
  /\ lock' = [d \in Destinations |-> IF lock[d] = r THEN None ELSE lock[d]]
  /\ UNCHANGED <<ctx, outcome, cancelled, mapVars, slotVars, cancelVars, ghostVars>>

\* doneBackupContext clears the slot, whoever's token is in it.
DoneBackupContext(r) ==
  /\ pc[r] = "leaving"
  /\ Goto(r, "returned")
  /\ sharedCancel' = None
  /\ ctx' = [ctx EXCEPT ![r] = None]
  /\ UNCHANGED <<outcome, cancelled, mapVars, backupCtx, currentFunc, jobFuncs, lock,
                 cancelVars, ghostVars>>

----------------------------------------------------------------------------
(* Closing a run *)

\* Mutant: the completion callbacks are trusted to have closed the entry.
UpdateFinalStatusTrusting(r) ==
  /\ r \in ApiRuns /\ pc[r] = "returned"
  /\ Goto(r, "closing")
  /\ UNCHANGED <<ctx, outcome, cancelled, mapVars, slotVars, lock, cancelVars, ghostVars>>

\* Mutant: the returned error is not looked at.
UpdateFinalStatusBlind(r) ==
  /\ r \in ApiRuns /\ pc[r] = "returned"
  /\ Goto(r, "closing")
  /\ entry' = [entry EXCEPT ![r] =
                 IF @ # None /\ @.running
                 THEN [running |-> FALSE, success |-> TRUE, shows |-> r] ELSE @]
  /\ UNCHANGED <<ctx, outcome, cancelled, callbacks, finished, inlineJob, slotVars, lock,
                 cancelVars, ghostVars>>

\* handleBackup closes the entry when no callback did.
UpdateFinalStatus(r) ==
  /\ r \in ApiRuns /\ pc[r] = "returned"
  /\ Goto(r, "closing")
  /\ entry' = [entry EXCEPT ![r] =
                 IF @ # None /\ @.running
                 THEN [running |-> FALSE, success |-> outcome[r] = "success", shows |-> r]
                 ELSE @]
  /\ UNCHANGED <<ctx, outcome, cancelled, callbacks, finished, inlineJob, slotVars, lock,
                 cancelVars, ghostVars>>

\* Mutant: the context outlives the run.
ClearBackupContextForgotten(r) ==
  /\ r \in ApiRuns /\ pc[r] = "closing"
  /\ Goto(r, "cleared")
  /\ UNCHANGED <<ctx, outcome, cancelled, mapVars, slotVars, lock, cancelVars, ghostVars>>

\* ClearBackupContext, under backupCtxMu.
ClearBackupContext(r) ==
  /\ r \in ApiRuns /\ pc[r] = "closing"
  /\ Goto(r, "cleared")
  /\ backupCtx' = None
  /\ UNCHANGED <<ctx, outcome, cancelled, mapVars, currentFunc, jobFuncs, sharedCancel,
                 lock, cancelVars, ghostVars>>

\* Mutant: only the context is cleared.
ClearCurrentCancelForgotten(r) ==
  /\ pc[r] = "cleared"
  /\ Goto(r, "done")
  /\ cancelled' = cancelled \cup {Own(r)}
  /\ UNCHANGED <<ctx, outcome, mapVars, slotVars, lock, cancelVars, ghostVars>>

\* ClearBackupContext, under cancelFuncsMu, and the handler's deferred cancel.  The entry
\* of cancelFuncs under the run's own identifier stays.
ClearCurrentCancel(r) ==
  /\ pc[r] = "cleared"
  /\ Goto(r, "done")
  /\ currentFunc' = None
  /\ cancelled' = cancelled \cup {Own(r)}
  /\ UNCHANGED <<ctx, outcome, mapVars, backupCtx, jobFuncs, sharedCancel, lock,
                 cancelVars, ghostVars>>

ClearInlineJobID(r) ==
  /\ r \in ScheduledRuns /\ pc[r] = "returned"
  /\ Goto(r, "closing")
  /\ inlineJob' = None
  /\ UNCHANGED <<ctx, outcome, cancelled, entry, callbacks, finished, slotVars, lock,
                 cancelVars, ghostVars>>

Closed(r, x) ==
  [entry EXCEPT ![x] =
     IF @ # None /\ @.running
     THEN [running |-> FALSE, success |-> outcome[r] = "success", shows |-> r] ELSE @]

\* Mutant: the entry closed is the one in the slot.
ReportInlineJobCompleteSlot(r) ==
  /\ r \in ScheduledRuns /\ pc[r] = "closing"
  /\ Goto(r, "done")
  /\ entry' = IF inlineJob = None THEN Closed(r, r) ELSE Closed(r, inlineJob)
  /\ UNCHANGED <<ctx, outcome, cancelled, callbacks, finished, inlineJob, slotVars, lock,
                 cancelVars, ghostVars>>

\* runScheduledBackup closes its own entry, however the backup ended.
ReportInlineJobComplete(r) ==
  /\ r \in ScheduledRuns /\ pc[r] = "closing"
  /\ Goto(r, "done")
  /\ entry' = Closed(r, r)
  /\ UNCHANGED <<ctx, outcome, cancelled, callbacks, finished, inlineJob, slotVars, lock,
                 cancelVars, ghostVars>>

\* Ten minutes after the end the entry goes.
EvictEntry(r) ==
  /\ pc[r] = "done" /\ entry[r] # None
  /\ entry' = [entry EXCEPT ![r] = None]
  /\ UNCHANGED <<runVars, cancelled, callbacks, finished, inlineJob, slotVars, lock,
                 cancelVars, ghostVars>>

----------------------------------------------------------------------------
(* Stopping a run: POST /backup/cancel/{job} *)

HandleCancelBackup(c, r) ==
  /\ cpc[c] = "none" /\ entry[r] # None /\ r \in Stoppable
  /\ IF entry[r].running
     THEN /\ cpc' = [cpc EXCEPT ![c] = "checked"]
          /\ target' = [target EXCEPT ![c] = r]
          /\ asked' = asked \cup {r}
          /\ mixed' = (mixed \/ InFlight \ {r} # {})
     ELSE /\ cpc' = [cpc EXCEPT ![c] = "answered"]
          /\ UNCHANGED <<target, asked, mixed>>
  /\ UNCHANGED <<runVars, cancelled, mapVars, slotVars, lock, found, acknowledged>>

\* CancelBackup, under cancelFuncsMu: the run's own cancel function, or the current one.
LookUpCancel(c) ==
  /\ cpc[c] = "checked"
  /\ \/ /\ target[c] \in jobFuncs
        /\ jobFuncs' = jobFuncs \ {target[c]}
        /\ found' = [found EXCEPT ![c] = Own(target[c])]
        /\ cpc' = [cpc EXCEPT ![c] = "found"]
        /\ UNCHANGED currentFunc
     \/ /\ target[c] \notin jobFuncs
        /\ found' = [found EXCEPT ![c] = currentFunc]
        /\ cpc' = [cpc EXCEPT ![c] = IF currentFunc = None THEN "fallback" ELSE "found"]
        /\ currentFunc' = None
        /\ UNCHANGED jobFuncs
  /\ UNCHANGED <<runVars, cancelled, mapVars, backupCtx, sharedCancel, lock, target,
                 ghostVars>>

\* ... under backupCtxMu.
FallBackToContext(c) ==
  /\ cpc[c] = "fallback"
  /\ found' = [found EXCEPT ![c] = backupCtx]
  /\ cpc' = [cpc EXCEPT ![c] = IF backupCtx = None THEN "shared" ELSE "found"]
  /\ UNCHANGED <<runVars, cancelled, mapVars, slotVars, lock, target, ghostVars>>

\* ... under currentBackupCancelMutex.  Nothing there either: the call fails.
FallBackToShared(c) ==
  /\ cpc[c] = "shared"
  /\ found' = [found EXCEPT ![c] = sharedCancel]
  /\ cpc' = [cpc EXCEPT ![c] = IF sharedCancel = None THEN "answered" ELSE "found"]
  /\ target' = [target EXCEPT ![c] = IF sharedCancel = None THEN None ELSE @]
  /\ UNCHANGED <<runVars, cancelled, mapVars, slotVars, lock, ghostVars>>

\* The function found is called; then the context slot is emptied, whoever's context it
\* holds, and the call succeeds.  (A context set between the two is wiped like one set
\* before, so they are one step.)
FireCancel(c) ==
  /\ cpc[c] = "found"
  /\ cpc' = [cpc EXCEPT ![c] = "answered"]
  /\ cancelled' = cancelled \cup {found[c]}
  /\ found' = [found EXCEPT ![c] = None]
  /\ target' = [target EXCEPT ![c] = None]
  /\ backupCtx' = None
  /\ acknowledged' = acknowledged \cup
       {r \in {target[c]} : pc[r] \in {"registered", "ctxSet", "currentSet", "cancelSet",
                                       "listening", "configured", "entered", "locked"}}
  /\ UNCHANGED <<runVars, mapVars, currentFunc, jobFuncs, sharedCancel, lock, asked, mixed>>

----------------------------------------------------------------------------
Step(r) ==
  \/ SetBackupContext(r) \/ SetCurrentCancel(r) \/ RegisterBackupCancel(r)
  \/ SetProgressCallbacks(r) \/ SetInlineJobID(r)
  \/ TakeContext(r) \/ FailToStart(r) \/ NewBackupContext(r) \/ RejectOptions(r)
  \/ AcquireLock(r) \/ BeginCommit(r) \/ StopCancelled(r) \/ BackupEnds(r)
  \/ DispatchComplete(r) \/ RemoveCallbacks(r) \/ ReleaseLock(r) \/ DoneBackupContext(r)
  \/ UpdateFinalStatus(r) \/ ClearBackupContext(r) \/ ClearCurrentCancel(r)
  \/ ClearInlineJobID(r) \/ ReportInlineJobComplete(r)

Cancelling(c) ==
  \/ LookUpCancel(c) \/ FallBackToContext(c) \/ FallBackToShared(c)
  \/ FireCancel(c)

Next ==
  \/ \E r \in Runs : Register(r) \/ Step(r) \/ DispatchProgress(r) \/ EvictEntry(r)
  \/ \E c \in Cancels : Cancelling(c) \/ \E r \in Runs : HandleCancelBackup(c, r)

Spec == Init /\ [][Next]_vars

(***************************************************************************)
(* Every goroutine gets its turn, a backup ends, and a free lock is taken  *)
(* by one of those that wait.  Nobody owes a start or a stop.              *)
(***************************************************************************)
Fairness ==
  /\ \A r \in Runs : WF_vars(Step(r))
  /\ \A c \in Cancels : WF_vars(Cancelling(c))

FairSpec == Spec /\ Fairness

----------------------------------------------------------------------------
(* Properties *)

\* Whatever overlapped, failed early or was stopped: once no run is in flight no slot
\* still offers a run to cancel, no lock is held and no inline run is announced
\* (ClearBackupContext, doneBackupContext, clearInlineJobID).
SlotsEmpty ==
  InFlight = {} =>
    /\ backupCtx = None /\ currentFunc = None /\ sharedCancel = None
    /\ inlineJob = None
    /\ \A d \in Destinations : lock[d] = None

\* The entry of a scheduled run that is over tells how that very run ended, whatever ran
\* beside it: it is closed by its own identifier only (runScheduledBackup's deferred
\* close, ReportInlineJobComplete).
ScheduledStatusTrue ==
  \A r \in ScheduledRuns :
    entry[r] # None /\ ~entry[r].running =>
      /\ outcome[r] # None
      /\ entry[r].success <=> (outcome[r] = "success")

\* As long as runs never overlapped, and none followed one that failed before its callbacks
\* were called, an entry shows its own run only and ends with the outcome of that run
\* (handleBackup, dispatchProgress, dispatchComplete).
StatusTrueWhenAlone ==
  ~mixed => \A r \in Runs : entry[r] # None =>
    /\ entry[r].shows = r
    /\ ~entry[r].running => (entry[r].success <=> (outcome[r] = "success"))

\* As long as runs never overlapped, only a run that a user asked to stop is stopped, even
\* through a slot that outlived its run (CancelBackup).
StopsOnlyTheAskedWhenAlone == ~mixed => \A r \in Runs : outcome[r] = "cancelled" => r \in asked

\* Every run that is announced is closed: no entry stays at "running", whatever failed
\* (handleBackup's final update, runScheduledBackup's deferred close).
EveryRunCloses ==
  \A r \in Runs : (entry[r] # None /\ entry[r].running) ~> (entry[r] = None \/ ~entry[r].running)

(* What the comments promise and the code does not keep *)

\* "removes them, so a finished job can't keep receiving (or leak) updates": an entry that
\* is over is not rewritten.
FinishedIsFinal ==
  [][\A r \in Runs : entry[r] # None /\ ~entry[r].running => entry'[r] \in {entry[r], None}]_vars

\* "Set the backup context on the App so it can be cancelled": a run whose stop was
\* acknowledged before it began to commit does not commit.
CancelHonoured == \A r \in acknowledged : outcome[r] # "success"
===============================================================================
