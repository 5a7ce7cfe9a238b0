-------------------------- MODULE BackupControlProofs -------------------------
(***************************************************************************)
(* What holds of the backups in flight whatever their number, however they *)
(* overlap, fail and are stopped.                                          *)
(***************************************************************************)
EXTENDS BackupControl, TLAPS

----------------------------------------------------------------------------
(* The inductive invariants *)

\* What only a run of the API, or only a scheduled one, goes through.
ApiOnly == {"ctxSet", "currentSet", "cancelSet", "cleared"}
Over == {"ended", "dispatched", "unlocking", "leaving", "returned", "closing", "cleared", "done"}

\* Outcomes are known at the end, only the runs of the API listen, and an inline run is a
\* scheduled one.
Types ==
  /\ pc \in [Runs -> RunPC]
  /\ outcome \in [Runs -> Outcome \cup {None}]
  /\ DOMAIN entry = Runs
  /\ \A r \in Runs : entry[r] # None => entry[r] \in Progress
  /\ lock \in [Destinations -> Runs \cup {None}]
  /\ callbacks \subseteq ApiRuns
  /\ inlineJob \in ScheduledRuns \cup {None}
  /\ finished \in [Runs -> SUBSET ApiRuns]
  /\ \A r \in Runs : pc[r] \in ApiOnly => r \in ApiRuns
  /\ \A r \in Runs : pc[r] \in Over <=> outcome[r] # None

\* A slot that offers something is one that a run on its way has still to empty.  It need
\* not be the run in the slot: each empties it, whoever's it is.
WillClear(runs, labels) == \E r \in runs : pc[r] \in labels

HasShared == {"entered", "locked", "committing", "ended", "dispatched", "unlocking", "leaving"}
HasInline == {"listening", "configured", "returned"} \cup HasShared
HasContext == {"ctxSet", "currentSet", "cancelSet", "closing"} \cup HasInline
HasCurrent == (HasContext \ {"ctxSet"}) \cup {"cleared"}
HasLock == {"locked", "committing", "ended", "dispatched", "unlocking"}

SlotInv ==
  /\ sharedCancel # None => WillClear(Runs, HasShared)
  /\ inlineJob # None => WillClear(ScheduledRuns, HasInline)
  /\ backupCtx # None => WillClear(ApiRuns, HasContext)
  /\ currentFunc # None => WillClear(ApiRuns, HasCurrent)
  /\ \A d \in Destinations : lock[d] # None => pc[lock[d]] \in HasLock

\* A scheduled run is closed last of all, and by itself.
ScheduledInv ==
  \A r \in ScheduledRuns : entry[r] # None /\ ~entry[r].running =>
    pc[r] = "done" /\ (entry[r].success <=> outcome[r] = "success")

Inv == Types /\ SlotInv /\ ScheduledInv

----------------------------------------------------------------------------
(* Steps *)

\* Everything a run does moves it from a label to the next.
Move(r) == Register(r) \/ Step(r)

LEMMA Moves ==
  ASSUME Types, NEW r \in Runs, Move(r)
  PROVE  \E to \in RunPC :
           /\ Goto(r, to)
           /\ pc[r] \in Over => to \in Over
           /\ to \in ApiOnly => r \in ApiRuns
           /\ to \in Over <=> outcome'[r] # None
           /\ \A x \in Runs \ {r} : outcome'[x] = outcome[x]
  <1>. USE ControlAssumption DEF Types, RunPC, Over, ApiOnly, Goto, Outcome
  <1>1. CASE Register(r) \/ SetBackupContext(r) \/ SetCurrentCancel(r) \/ RegisterBackupCancel(r)
             \/ SetProgressCallbacks(r) \/ SetInlineJobID(r) \/ TakeContext(r) \/ NewBackupContext(r)
    BY <1>1 DEF Register, SetBackupContext, SetCurrentCancel, RegisterBackupCancel,
                SetProgressCallbacks, SetInlineJobID, TakeContext, NewBackupContext
  <1>2. CASE FailToStart(r) \/ RejectOptions(r) \/ StopCancelled(r) \/ BackupEnds(r)
    BY <1>2 DEF FailToStart, RejectOptions, StopCancelled, BackupEnds
  <1>3. CASE AcquireLock(r) \/ BeginCommit(r)
    BY <1>3 DEF AcquireLock, BeginCommit
  <1>4. CASE DispatchComplete(r) \/ RemoveCallbacks(r) \/ ReleaseLock(r) \/ DoneBackupContext(r)
             \/ UpdateFinalStatus(r) \/ ClearBackupContext(r) \/ ClearCurrentCancel(r)
             \/ ClearInlineJobID(r) \/ ReportInlineJobComplete(r)
    BY <1>4 DEF DispatchComplete, RemoveCallbacks, ReleaseLock, DoneBackupContext, UpdateFinalStatus,
                ClearBackupContext, ClearCurrentCancel, ClearInlineJobID, ReportInlineJobComplete
  <1>. QED
    BY <1>1, <1>2, <1>3, <1>4 DEF Move, Step

\* A run that moves leaves the runs that have a slot to empty only if it empties it.
LEMMA KeepsClearing ==
  ASSUME Types, NEW runs \in SUBSET Runs, NEW labels, NEW r \in Runs, NEW to, Goto(r, to),
         WillClear(runs, labels), r \in runs /\ pc[r] \in labels => to \in labels
  PROVE  WillClear(runs, labels)'
  <1>1. PICK x \in runs : pc[x] \in labels
    BY DEF WillClear
  <1>2. CASE x = r
    BY <1>1, <1>2 DEF WillClear, Goto, Types
  <1>3. CASE x # r
    BY <1>1, <1>3 DEF WillClear, Goto, Types
  <1>. QED
    BY <1>2, <1>3

LEMMA SharedMove ==
  ASSUME Types, NEW r \in Runs, Move(r), NEW to, Goto(r, to)
  PROVE  \/ sharedCancel' = None
         \/ to \in HasShared
         \/ sharedCancel' = sharedCancel /\ pc[r] \notin HasShared
  BY DEF Types, Goto, HasShared, Move, Step, slotVars, Register, SetBackupContext, SetCurrentCancel,
         RegisterBackupCancel, SetProgressCallbacks, SetInlineJobID, TakeContext, FailToStart,
         NewBackupContext, RejectOptions, AcquireLock, BeginCommit, StopCancelled, BackupEnds,
         DispatchComplete, RemoveCallbacks, ReleaseLock, DoneBackupContext, UpdateFinalStatus,
         ClearBackupContext, ClearCurrentCancel, ClearInlineJobID, ReportInlineJobComplete

LEMMA InlineMove ==
  ASSUME Types, NEW r \in Runs, Move(r), NEW to, Goto(r, to)
  PROVE  /\ inlineJob' \in ScheduledRuns \cup {None}
         /\ \/ inlineJob' = None
            \/ r \in ScheduledRuns /\ to \in HasInline
            \/ inlineJob' = inlineJob /\ (r \in ScheduledRuns => pc[r] \notin HasInline)
  BY ControlAssumption
     DEF Types, Goto, HasInline, HasShared, ApiOnly, Move, Step, mapVars, Register, SetBackupContext,
         SetCurrentCancel,
         RegisterBackupCancel, SetProgressCallbacks, SetInlineJobID, TakeContext, FailToStart,
         NewBackupContext, RejectOptions, AcquireLock, BeginCommit, StopCancelled, BackupEnds,
         DispatchComplete, RemoveCallbacks, ReleaseLock, DoneBackupContext, UpdateFinalStatus,
         ClearBackupContext, ClearCurrentCancel, ClearInlineJobID, ReportInlineJobComplete

LEMMA ContextMove ==
  ASSUME Types, NEW r \in Runs, Move(r), NEW to, Goto(r, to)
  PROVE  \/ backupCtx' = None
         \/ r \in ApiRuns /\ to \in HasContext
         \/ backupCtx' = backupCtx /\ (r \in ApiRuns => pc[r] \notin HasContext)
  BY ControlAssumption
     DEF Types, Goto, HasContext, HasInline, HasShared, ApiOnly, Move, Step, slotVars, Register,
         SetBackupContext, SetCurrentCancel,
         RegisterBackupCancel, SetProgressCallbacks, SetInlineJobID, TakeContext, FailToStart,
         NewBackupContext, RejectOptions, AcquireLock, BeginCommit, StopCancelled, BackupEnds,
         DispatchComplete, RemoveCallbacks, ReleaseLock, DoneBackupContext, UpdateFinalStatus,
         ClearBackupContext, ClearCurrentCancel, ClearInlineJobID, ReportInlineJobComplete

LEMMA CurrentMove ==
  ASSUME Types, NEW r \in Runs, Move(r), NEW to, Goto(r, to)
  PROVE  \/ currentFunc' = None
         \/ r \in ApiRuns /\ to \in HasCurrent
         \/ currentFunc' = currentFunc /\ (r \in ApiRuns => pc[r] \notin HasCurrent)
  BY ControlAssumption
     DEF Types, Goto, HasCurrent, HasContext, HasInline, HasShared, ApiOnly, Move, Step, slotVars,
         Register, SetBackupContext, SetCurrentCancel,
         RegisterBackupCancel, SetProgressCallbacks, SetInlineJobID, TakeContext, FailToStart,
         NewBackupContext, RejectOptions, AcquireLock, BeginCommit, StopCancelled, BackupEnds,
         DispatchComplete, RemoveCallbacks, ReleaseLock, DoneBackupContext, UpdateFinalStatus,
         ClearBackupContext, ClearCurrentCancel, ClearInlineJobID, ReportInlineJobComplete

\* A lock is taken by the run that enters its labels, and let go by the one that leaves them.
LEMMA LockMove ==
  ASSUME Types, NEW r \in Runs, Move(r), NEW to, Goto(r, to)
  PROVE  /\ lock' \in [Destinations -> Runs \cup {None}]
         /\ \A d \in Destinations :
              \/ lock'[d] = None
              \/ lock'[d] = r /\ to \in HasLock
              \/ lock'[d] = lock[d] /\ (lock[d] = r => pc[r] \notin HasLock)
  <1>1. CASE AcquireLock(r)
    <2>1. DestinationOf[r] \in Destinations
      BY DEF Destinations
    <2>. QED
      BY <1>1, <2>1 DEF Types, Goto, AcquireLock, HasLock
  <1>2. CASE ReleaseLock(r)
    BY <1>2 DEF Types, ReleaseLock
  <1>3. CASE UNCHANGED lock /\ (pc[r] \in HasLock => to \in HasLock)
    BY <1>3 DEF Types
  <1>4. \/ AcquireLock(r) \/ ReleaseLock(r)
        \/ UNCHANGED lock /\ (pc[r] \in HasLock => to \in HasLock)
    BY DEF Types, Goto, HasLock, Move, Step, Register, SetBackupContext, SetCurrentCancel,
         RegisterBackupCancel, SetProgressCallbacks, SetInlineJobID, TakeContext, FailToStart,
         NewBackupContext, RejectOptions, BeginCommit, StopCancelled, BackupEnds,
         DispatchComplete, RemoveCallbacks, DoneBackupContext, UpdateFinalStatus,
         ClearBackupContext, ClearCurrentCancel, ClearInlineJobID, ReportInlineJobComplete
  <1>. QED
    BY <1>1, <1>2, <1>3, <1>4

LEMMA SlotMove ==
  ASSUME Types, SlotInv, NEW r \in Runs, Move(r)
  PROVE  SlotInv'
  <1>1. PICK to \in RunPC : Goto(r, to)
    BY Moves
  <1>2. pc'[r] = to /\ \A x \in Runs : x # r => pc'[x] = pc[x]
    BY <1>1 DEF Goto, Types
  <1>3. Runs \in SUBSET Runs /\ ApiRuns \in SUBSET Runs /\ ScheduledRuns \in SUBSET Runs
    BY DEF Runs
  <1>4. sharedCancel' # None => WillClear(Runs, HasShared)'
    <2>1. CASE to \in HasShared
      BY <1>2, <2>1 DEF WillClear
    <2>2. CASE sharedCancel' = sharedCancel /\ pc[r] \notin HasShared
      BY <1>1, <1>3, <2>2, KeepsClearing DEF SlotInv
    <2>. QED
      BY <1>1, <2>1, <2>2, SharedMove
  <1>5. inlineJob' # None => WillClear(ScheduledRuns, HasInline)'
    <2>1. CASE r \in ScheduledRuns /\ to \in HasInline
      BY <1>2, <2>1 DEF WillClear
    <2>2. CASE inlineJob' = inlineJob /\ (r \in ScheduledRuns => pc[r] \notin HasInline)
      BY <1>1, <1>3, <2>2, KeepsClearing DEF SlotInv
    <2>. QED
      BY <1>1, <2>1, <2>2, InlineMove
  <1>6. backupCtx' # None => WillClear(ApiRuns, HasContext)'
    <2>1. CASE r \in ApiRuns /\ to \in HasContext
      BY <1>2, <2>1 DEF WillClear
    <2>2. CASE backupCtx' = backupCtx /\ (r \in ApiRuns => pc[r] \notin HasContext)
      BY <1>1, <1>3, <2>2, KeepsClearing DEF SlotInv
    <2>. QED
      BY <1>1, <2>1, <2>2, ContextMove
  <1>7. currentFunc' # None => WillClear(ApiRuns, HasCurrent)'
    <2>1. CASE r \in ApiRuns /\ to \in HasCurrent
      BY <1>2, <2>1 DEF WillClear
    <2>2. CASE currentFunc' = currentFunc /\ (r \in ApiRuns => pc[r] \notin HasCurrent)
      BY <1>1, <1>3, <2>2, KeepsClearing DEF SlotInv
    <2>. QED
      BY <1>1, <2>1, <2>2, CurrentMove
  <1>8. ASSUME NEW d \in Destinations, lock'[d] # None
        PROVE  pc'[lock'[d]] \in HasLock
    <2>1. CASE lock'[d] = r /\ to \in HasLock
      BY <1>2, <2>1
    <2>2. CASE lock'[d] = lock[d] /\ (lock[d] = r => pc[r] \notin HasLock)
      BY <1>2, <1>8, <2>2 DEF SlotInv, Types
    <2>. QED
      BY <1>1, <1>8, <2>1, <2>2, LockMove
  <1>. QED
    BY <1>4, <1>5, <1>6, <1>7, <1>8 DEF SlotInv

----------------------------------------------------------------------------
(* Entries *)

\* A move writes the entries of the runs that listen, or that of the run itself.
LEMMA EntryMove ==
  ASSUME Types, NEW r \in Runs, Move(r)
  PROVE  /\ DOMAIN entry' = Runs
         /\ \A x \in Runs : entry'[x] # None => entry'[x] \in Progress
         /\ \A x \in ScheduledRuns \ {r} : entry'[x] = entry[x]
         /\ r \in ScheduledRuns /\ entry'[r] # None /\ ~entry'[r].running =>
              \/ entry'[r] = entry[r]
              \/ pc'[r] = "done" /\ (entry'[r].success <=> outcome'[r] = "success")
  <1>. USE DEF Types
  <1>1. CASE Register(r)
    BY <1>1 DEF Register, Progress
  <1>2. CASE DispatchComplete(r)
    <2>1. entry' = [x \in Runs |->
                      IF entry[x] # None /\ x \in callbacks
                        THEN [running |-> FALSE, success |-> outcome[r] = "success", shows |-> r]
                        ELSE entry[x]]
      BY <1>2 DEF DispatchComplete
    <2>2. [running |-> FALSE, success |-> outcome[r] = "success", shows |-> r] \in Progress
      BY DEF Progress
    <2>3. \A x \in ScheduledRuns : x \in Runs /\ x \notin callbacks
      BY ControlAssumption DEF Runs
    <2>. QED
      BY <2>1, <2>2, <2>3
  <1>3. CASE UpdateFinalStatus(r)
    <2>1. /\ r \in ApiRuns /\ r \notin ScheduledRuns
          /\ entry' = [entry EXCEPT ![r] =
                 IF @ # None /\ @.running
                 THEN [running |-> FALSE, success |-> outcome[r] = "success", shows |-> r]
                 ELSE @]
      BY <1>3, ControlAssumption DEF UpdateFinalStatus
    <2>2. [running |-> FALSE, success |-> outcome[r] = "success", shows |-> r] \in Progress
      BY DEF Progress
    <2>3. ScheduledRuns \subseteq Runs
      BY DEF Runs
    <2>. QED
      BY <2>1, <2>2, <2>3
  <1>4. CASE ReportInlineJobComplete(r)
    <2>1. /\ entry' = [entry EXCEPT ![r] =
                 IF @ # None /\ @.running
                 THEN [running |-> FALSE, success |-> outcome[r] = "success", shows |-> r]
                 ELSE @]
          /\ pc'[r] = "done" /\ outcome' = outcome
      BY <1>4 DEF ReportInlineJobComplete, Closed, Goto
    <2>2. [running |-> FALSE, success |-> outcome[r] = "success", shows |-> r] \in Progress
      BY DEF Progress
    <2>3. ScheduledRuns \subseteq Runs
      BY DEF Runs
    <2>. QED
      BY <2>1, <2>2, <2>3
  <1>5. CASE UNCHANGED entry
    BY <1>5 DEF Runs
  <1>. QED
    BY <1>1, <1>2, <1>3, <1>4, <1>5
    DEF Move, Step, mapVars, SetBackupContext, SetCurrentCancel,
        RegisterBackupCancel, SetProgressCallbacks, SetInlineJobID, TakeContext, FailToStart,
        NewBackupContext, RejectOptions, AcquireLock, BeginCommit, StopCancelled, BackupEnds,
        RemoveCallbacks, ReleaseLock, DoneBackupContext, ClearBackupContext, ClearCurrentCancel,
        ClearInlineJobID

LEMMA CallbackMove ==
  ASSUME Types, NEW r \in Runs, Move(r)
  PROVE  callbacks' \subseteq ApiRuns /\ finished' \in [Runs -> SUBSET ApiRuns]
  BY DEF Types, ApiOnly, Goto, Move, Step, mapVars, Register, SetBackupContext, SetCurrentCancel,
         RegisterBackupCancel, SetProgressCallbacks, SetInlineJobID, TakeContext, FailToStart,
         NewBackupContext, RejectOptions, AcquireLock, BeginCommit, StopCancelled, BackupEnds,
         DispatchComplete, RemoveCallbacks, ReleaseLock, DoneBackupContext, UpdateFinalStatus,
         ClearBackupContext, ClearCurrentCancel, ClearInlineJobID, ReportInlineJobComplete

\* A run that has an outcome keeps it.
LEMMA OutcomeMove ==
  ASSUME Types, NEW r \in Runs, Move(r)
  PROVE  outcome' \in [Runs -> Outcome \cup {None}] /\ pc[r] # "done"
  BY DEF Types, Outcome, Goto, Move, Step, mapVars, runVars, Register, SetBackupContext, SetCurrentCancel,
         RegisterBackupCancel, SetProgressCallbacks, SetInlineJobID, TakeContext, FailToStart,
         NewBackupContext, RejectOptions, AcquireLock, BeginCommit, StopCancelled, BackupEnds,
         DispatchComplete, RemoveCallbacks, ReleaseLock, DoneBackupContext, UpdateFinalStatus,
         ClearBackupContext, ClearCurrentCancel, ClearInlineJobID, ReportInlineJobComplete

----------------------------------------------------------------------------
(* The invariant *)

LEMMA Start ==
  ASSUME Init
  PROVE  Inv
  BY ControlAssumption
     DEF Init, Inv, Types, SlotInv, ScheduledInv, RunPC, Outcome, ApiOnly, Over, Runs

LEMMA MoveStep ==
  ASSUME Inv, NEW r \in Runs, Move(r)
  PROVE  Inv'
  <1>. USE DEF Inv
  <1>1. PICK to \in RunPC :
           /\ Goto(r, to)
           /\ pc[r] \in Over => to \in Over
           /\ to \in ApiOnly => r \in ApiRuns
           /\ to \in Over <=> outcome'[r] # None
           /\ \A x \in Runs \ {r} : outcome'[x] = outcome[x]
    BY Moves
  <1>2. pc'[r] = to /\ \A x \in Runs : x # r => pc'[x] = pc[x]
    BY <1>1 DEF Goto, Types
  <1>3. Types'
    <2>1. pc' \in [Runs -> RunPC]
      BY <1>1 DEF Goto, Types
    <2>2. \A x \in Runs : pc'[x] \in ApiOnly => x \in ApiRuns
      BY <1>1, <1>2 DEF Types
    <2>3. \A x \in Runs : pc'[x] \in Over <=> outcome'[x] # None
      BY <1>1, <1>2 DEF Types
    <2>. QED
      BY <1>1, <2>1, <2>2, <2>3, EntryMove, CallbackMove, OutcomeMove, LockMove, InlineMove DEF Types
  <1>4. SlotInv'
    BY SlotMove
  <1>5. ScheduledInv'
    <2>. SUFFICES ASSUME NEW x \in ScheduledRuns, entry'[x] # None, ~entry'[x].running
                  PROVE  pc'[x] = "done" /\ (entry'[x].success <=> outcome'[x] = "success")
      BY DEF ScheduledInv
    <2>1. x \in Runs
      BY DEF Runs
    <2>2. CASE x # r
      BY <1>1, <1>2, <2>1, <2>2, EntryMove DEF ScheduledInv
    <2>3. CASE x = r
      <3>1. entry'[r] # entry[r]
        BY <2>3, OutcomeMove DEF ScheduledInv
      <3>. QED
        BY <2>3, <3>1, EntryMove
    <2>. QED
      BY <2>2, <2>3
  <1>. QED
    BY <1>3, <1>4, <1>5

\* Progress is written to entries as it is, and an entry is evicted.
LEMMA DisplayStep ==
  ASSUME Inv, NEW r \in Runs, DispatchProgress(r) \/ EvictEntry(r)
  PROVE  Inv'
  <1>. USE DEF Inv
  <1>1. UNCHANGED <<pc, outcome, callbacks, inlineJob, finished, slotVars, lock>>
    BY DEF DispatchProgress, EvictEntry, runVars
  <1>2. /\ DOMAIN entry' = Runs
        /\ \A x \in Runs : entry'[x] # None =>
             /\ entry[x] # None /\ entry'[x] \in Progress
             /\ entry'[x].running = entry[x].running /\ entry'[x].success = entry[x].success
    <2>1. CASE DispatchProgress(r)
      <3>1. \A x \in Runs : \/ entry'[x] = entry[x]
                            \/ entry[x] # None /\ entry'[x] = [entry[x] EXCEPT !.shows = r]
        BY <2>1 DEF DispatchProgress
      <3>2. \A x \in Runs : entry[x] # None =>
              /\ [entry[x] EXCEPT !.shows = r] \in Progress
              /\ [entry[x] EXCEPT !.shows = r].running = entry[x].running
              /\ [entry[x] EXCEPT !.shows = r].success = entry[x].success
        BY DEF Types, Progress
      <3>. QED
        BY <2>1, <3>1, <3>2 DEF Types, DispatchProgress
    <2>2. CASE EvictEntry(r)
      BY <2>2 DEF EvictEntry, Types
    <2>. QED
      BY <2>1, <2>2
  <1>3. Types'
    BY <1>1, <1>2 DEF Types
  <1>4. SlotInv'
    BY <1>1 DEF SlotInv, slotVars, WillClear
  <1>5. ScheduledInv'
    BY <1>1, <1>2 DEF ScheduledInv, Runs
  <1>. QED
    BY <1>3, <1>4, <1>5

\* A request to stop only empties slots.
LEMMA CancelStep ==
  ASSUME Inv, NEW c \in Cancels, Cancelling(c) \/ \E r \in Runs : HandleCancelBackup(c, r)
  PROVE  Inv'
  <1>. USE DEF Inv
  <1>1. /\ UNCHANGED <<pc, outcome, entry, callbacks, inlineJob, finished, sharedCancel, lock>>
        /\ backupCtx' \in {backupCtx, None} /\ currentFunc' \in {currentFunc, None}
    BY DEF Cancelling, LookUpCancel, FallBackToContext, FallBackToShared, FireCancel,
           HandleCancelBackup, runVars, mapVars, slotVars
  <1>2. Types'
    BY <1>1 DEF Types
  <1>3. SlotInv'
    BY <1>1 DEF SlotInv, WillClear
  <1>4. ScheduledInv'
    BY <1>1 DEF ScheduledInv
  <1>. QED
    BY <1>2, <1>3, <1>4

LEMMA Invariance == Spec => []Inv
  <1>1. ASSUME Inv, [Next]_vars
        PROVE  Inv'
    <2>1. CASE UNCHANGED vars
      BY <1>1, <2>1 DEF vars, runVars, mapVars, slotVars, Inv, Types, SlotInv, ScheduledInv, WillClear
    <2>2. CASE Next
      BY <1>1, <2>2, MoveStep, DisplayStep, CancelStep DEF Next, Move
    <2>. QED
      BY <1>1, <2>1, <2>2
  <1>. QED
    BY <1>1, Start, PTL DEF Spec

----------------------------------------------------------------------------

\* However runs overlap, fail and are stopped: once none is in flight, no slot still offers
\* one, no lock is held and no inline run is announced (ClearBackupContext,
\* doneBackupContext, clearInlineJobID).
THEOREM SlotsAreEmpty == Spec => []SlotsEmpty
  <1>1. ASSUME Inv
        PROVE  SlotsEmpty
    <2>. SUFFICES ASSUME \A r \in Runs : pc[r] \in {"none", "done"}
                  PROVE  /\ backupCtx = None /\ currentFunc = None /\ sharedCancel = None
                         /\ inlineJob = None
                         /\ \A d \in Destinations : lock[d] = None
      BY DEF SlotsEmpty, InFlight
    <2>1. \A d \in Destinations : lock[d] # None => lock[d] \in Runs /\ pc[lock[d]] \in HasLock
      BY <1>1 DEF Inv, Types, SlotInv
    <2>2. \A d \in Destinations : lock[d] = None
      BY <2>1 DEF HasLock
    <2>. QED
      BY <1>1, <2>2 DEF Inv, SlotInv, WillClear, HasShared, HasInline, HasContext, HasCurrent, Runs
  <1>. QED
    BY <1>1, Invariance, PTL

\* The entry of a scheduled run that is over tells how that very run ended, whatever ran
\* beside it and whoever was stopped (ReportInlineJobComplete).
THEOREM ScheduledStatus == Spec => []ScheduledStatusTrue
  <1>1. ASSUME Inv
        PROVE  ScheduledStatusTrue
    <2>1. \A r \in ScheduledRuns : r \in Runs /\ (pc[r] = "done" => outcome[r] # None)
      BY <1>1 DEF Inv, Types, Over, Runs
    <2>. QED
      BY <1>1, <2>1 DEF Inv, ScheduledInv, ScheduledStatusTrue
  <1>. QED
    BY <1>1, Invariance, PTL

----------------------------------------------------------------------------
(* Runs that never overlapped *)

\* While no run ever began beside another, the run in flight is alone in it, it is the only
\* one that listens, the slots hold its contexts, and every entry is its own run's.
StatusInv ==
  ~mixed =>
    /\ \A r, x \in InFlight : r = x
    /\ \A r \in InFlight : callbacks \subseteq {r}
    /\ inlineJob # None => pc[inlineJob] \in HasInline
    /\ \A r \in Runs : entry[r] # None =>
         /\ entry[r].shows = r
         /\ ~entry[r].running =>
              outcome[r] # None /\ (entry[r].success <=> (outcome[r] = "success"))

SlotsOwned ==
  /\ backupCtx # None => \E r \in ApiRuns : backupCtx = Own(r) /\ pc[r] \in HasContext
  /\ currentFunc # None => \E r \in ApiRuns : currentFunc = Own(r) /\ pc[r] \in HasCurrent
  /\ sharedCancel # None => \E r \in Runs : sharedCancel = Shared(r) /\ pc[r] \in HasShared

\* A stop under way is a stop of the run in flight, whose contexts are all it can find.
StopsItsTarget ==
  /\ \A c \in Pending : target[c] \in asked /\ InFlight \subseteq {target[c]}
  /\ \A c \in Cancels : cpc[c] = "found" => found[c] \in {Own(target[c]), Shared(target[c])}

\* A context is cancelled when its run is over, or when a user asked for it.
CancelledWhenAsked ==
  /\ None \notin cancelled
  /\ \A r \in Runs : Shared(r) \in cancelled => r \in asked
  /\ \A r \in Runs : Own(r) \in cancelled => r \in asked \/ pc[r] = "done"

StopInv ==
  /\ DOMAIN ctx = Runs /\ asked \subseteq Runs
  /\ DOMAIN cpc = Cancels /\ DOMAIN target = Cancels /\ DOMAIN found = Cancels
  /\ ~mixed =>
       /\ SlotsOwned /\ StopsItsTarget /\ CancelledWhenAsked
       /\ \A r \in Runs : ctx[r] \in {None, Own(r), Shared(r)}
       /\ \A r \in Runs : outcome[r] = "cancelled" => r \in asked

\* A run that moves without mixing is the only one in flight, before and after; if it was
\* not in flight yet it is being registered, and nobody listens or stops another.
LEMMA MovesAlone ==
  ASSUME Inv, StatusInv, NEW r \in Runs, Move(r), ~mixed'
  PROVE  /\ ~mixed
         /\ InFlight \subseteq {r} /\ InFlight' \subseteq {r}
         /\ callbacks \subseteq {r}
         /\ r \in InFlight \/ (Register(r) /\ Pending = {})
  <1>1. PICK to \in RunPC : Goto(r, to)
    BY Moves DEF Inv
  <1>2. pc'[r] = to /\ \A x \in Runs \ {r} : pc'[x] = pc[x]
    BY <1>1 DEF Goto, Inv, Types
  <1>3. CASE Register(r)
    <2>1. ~mixed /\ InFlight = {} /\ Pending = {} /\ callbacks = {}
      BY <1>3 DEF Register
    <2>. QED
      BY <1>2, <1>3, <2>1 DEF InFlight
  <1>4. CASE Step(r)
    <2>1. ~mixed /\ pc[r] # "none"
      BY <1>4
      DEF Step, ghostVars, SetBackupContext, SetCurrentCancel,
         RegisterBackupCancel, SetProgressCallbacks, SetInlineJobID, TakeContext, FailToStart,
         NewBackupContext, RejectOptions, AcquireLock, BeginCommit, StopCancelled, BackupEnds,
         DispatchComplete, RemoveCallbacks, ReleaseLock, DoneBackupContext, UpdateFinalStatus,
         ClearBackupContext, ClearCurrentCancel, ClearInlineJobID, ReportInlineJobComplete
    <2>2. r \in InFlight
      BY <2>1, OutcomeMove DEF InFlight, Inv
    <2>3. InFlight = {r} /\ callbacks \subseteq {r}
      BY <2>1, <2>2 DEF StatusInv
    <2>. QED
      BY <1>2, <2>1, <2>2, <2>3 DEF InFlight
  <1>. QED
    BY <1>3, <1>4 DEF Move

\* The slots are filled by a run with its own contexts only.
LEMMA OwnerMove ==
  ASSUME Types, NEW r \in Runs, Move(r)
  PROVE  /\ callbacks' \subseteq callbacks \cup {r}
         /\ inlineJob' \in {None, inlineJob, r}
         /\ backupCtx' \in {None, backupCtx, Own(r)}
         /\ currentFunc' \in {None, currentFunc, Own(r)}
         /\ sharedCancel' \in {None, sharedCancel, Shared(r)}
  BY DEF Types, Goto, Move, Step, mapVars, slotVars, Register, SetBackupContext,
         SetCurrentCancel, RegisterBackupCancel, SetProgressCallbacks, SetInlineJobID,
         TakeContext, FailToStart,
         NewBackupContext, RejectOptions, AcquireLock, BeginCommit, StopCancelled, BackupEnds,
         DispatchComplete, RemoveCallbacks, ReleaseLock, DoneBackupContext, UpdateFinalStatus,
         ClearBackupContext, ClearCurrentCancel, ClearInlineJobID, ReportInlineJobComplete

\* A run writes the entries of those that listen, and its own: as a run that begins, or
\* closed with its outcome.
LEMMA EntryOwned ==
  ASSUME Types, NEW r \in Runs, Move(r)
  PROVE  /\ \A x \in Runs \ (callbacks \cup {r}) : entry'[x] = entry[x]
         /\ \/ entry'[r] = entry[r]
            \/ entry'[r] = [running |-> TRUE, success |-> FALSE, shows |-> r]
            \/ /\ entry'[r] = [running |-> FALSE, success |-> outcome[r] = "success", shows |-> r]
               /\ pc[r] \in Over
         /\ pc[r] \in Over => outcome'[r] = outcome[r]
         /\ outcome'[r] = "cancelled" =>
              outcome[r] = "cancelled" \/ (pc[r] = "locked" /\ ctx[r] \in cancelled)
  <1>. USE DEF Types
  <1>1. CASE Register(r)
    BY <1>1 DEF Register, Over
  <1>2. CASE DispatchComplete(r)
    BY <1>2 DEF DispatchComplete, Over
  <1>3. CASE UpdateFinalStatus(r) \/ ReportInlineJobComplete(r)
    BY <1>3 DEF UpdateFinalStatus, ReportInlineJobComplete, Closed, Over
  <1>4. CASE FailToStart(r) \/ RejectOptions(r) \/ BackupEnds(r) \/ StopCancelled(r)
    BY <1>4 DEF FailToStart, RejectOptions, BackupEnds, StopCancelled, Over, mapVars
  <1>5. CASE UNCHANGED <<entry, outcome>>
    BY <1>5
  <1>. QED
    BY <1>1, <1>2, <1>3, <1>4, <1>5
    DEF Move, Step, mapVars, SetBackupContext, SetCurrentCancel,
        RegisterBackupCancel, SetProgressCallbacks, SetInlineJobID, TakeContext,
        NewBackupContext, AcquireLock, BeginCommit,
        RemoveCallbacks, ReleaseLock, DoneBackupContext, ClearBackupContext, ClearCurrentCancel,
        ClearInlineJobID

LEMMA StatusMove ==
  ASSUME Inv, StatusInv, NEW r \in Runs, Move(r)
  PROVE  StatusInv'
  <1>. SUFFICES ASSUME ~mixed' PROVE StatusInv'
    BY DEF StatusInv
  <1>1. PICK to \in RunPC : Goto(r, to)
    BY Moves DEF Inv
  <1>2. pc'[r] = to /\ \A x \in Runs \ {r} : pc'[x] = pc[x]
    BY <1>1 DEF Goto, Inv, Types
  <1>3. Types /\ ~mixed /\ InFlight' \subseteq {r} /\ callbacks \subseteq {r}
    BY MovesAlone DEF Inv
  <1>4. callbacks' \subseteq {r}
    BY <1>3, OwnerMove
  <1>5. inlineJob' # None => pc'[inlineJob'] \in HasInline
    <2>. SUFFICES ASSUME inlineJob' # None PROVE pc'[inlineJob'] \in HasInline
      OBVIOUS
    <2>1. inlineJob' \in {inlineJob, r}
      BY <1>3, OwnerMove
    <2>2. \/ r \in ScheduledRuns /\ to \in HasInline
          \/ inlineJob' = inlineJob /\ (r \in ScheduledRuns => pc[r] \notin HasInline)
      BY <1>1, <1>3, InlineMove
    <2>3. /\ inlineJob # None => inlineJob \in ScheduledRuns /\ pc[inlineJob] \in HasInline
          /\ ScheduledRuns \subseteq Runs
      BY <1>3 DEF StatusInv, Types, Runs
    <2>. QED
      BY <1>2, <2>1, <2>2, <2>3
  <1>6. ASSUME NEW x \in Runs, entry'[x] # None
        PROVE  /\ entry'[x].shows = x
               /\ ~entry'[x].running =>
                    outcome'[x] # None /\ (entry'[x].success <=> (outcome'[x] = "success"))
    <2>1. entry[x] # None =>
            /\ entry[x].shows = x
            /\ ~entry[x].running =>
                 outcome[x] # None /\ (entry[x].success <=> (outcome[x] = "success"))
      BY <1>3 DEF StatusInv
    <2>2. CASE x # r
      <3>1. entry'[x] = entry[x] /\ outcome'[x] = outcome[x]
        <4>1. x \in Runs \ (callbacks \cup {r})
          BY <1>3, <2>2
        <4>. QED
          BY <1>3, <2>2, <4>1, EntryOwned, Moves
      <3>. QED
        BY <1>6, <2>1, <3>1
    <2>3. CASE x = r
      <3>1. pc[r] \in Over <=> outcome[r] # None
        BY <1>3 DEF Types
      <3>2. CASE entry'[r] = entry[r]
        BY <1>3, <1>6, <2>1, <2>3, <3>1, <3>2, EntryOwned
      <3>3. CASE entry'[r] = [running |-> TRUE, success |-> FALSE, shows |-> r]
        BY <2>3, <3>3
      <3>4. CASE /\ entry'[r] = [running |-> FALSE, success |-> outcome[r] = "success",
                                 shows |-> r]
                 /\ pc[r] \in Over
        <4>1. outcome'[r] = outcome[r] /\ outcome[r] # None
          BY <1>3, <3>1, <3>4, EntryOwned
        <4>2. entry'[r].shows = r
          BY <3>4
        <4>3. entry'[r].success = (outcome[r] = "success")
          BY <3>4
        <4>. QED
          BY <2>3, <4>1, <4>2, <4>3
      <3>. QED
        BY <1>3, <3>2, <3>3, <3>4, EntryOwned
    <2>. QED
      BY <2>2, <2>3
  <1>. QED
    BY <1>3, <1>4, <1>5, <1>6 DEF StatusInv

\* Progress goes to the run's own entry, the only one that listens.
LEMMA StatusDisplay ==
  ASSUME Inv, StatusInv, NEW r \in Runs, DispatchProgress(r) \/ EvictEntry(r)
  PROVE  StatusInv'
  <1>1. /\ UNCHANGED <<pc, outcome, callbacks, inlineJob, mixed>> /\ InFlight' = InFlight
    BY DEF DispatchProgress, EvictEntry, runVars, ghostVars, InFlight
  <1>. SUFFICES ASSUME ~mixed PROVE StatusInv'
    BY <1>1 DEF StatusInv
  <1>2. ASSUME NEW x \in Runs, entry'[x] # None
        PROVE  /\ entry[x] # None
               /\ entry'[x].running = entry[x].running /\ entry'[x].success = entry[x].success
               /\ entry'[x].shows = entry[x].shows \/ entry'[x].shows = x
    <2>1. CASE EvictEntry(r)
      BY <1>2, <2>1 DEF EvictEntry, Inv, Types
    <2>2. CASE DispatchProgress(r)
      <3>1. r \in InFlight
        BY <2>2 DEF DispatchProgress, InFlight
      <3>2. callbacks \subseteq {r} /\ (inlineJob # None => inlineJob = r)
        <4>1. inlineJob # None => inlineJob \in InFlight
          BY DEF Inv, Types, StatusInv, InFlight, HasInline, HasShared, Runs
        <4>. QED
          BY <3>1, <4>1 DEF StatusInv
      <3>3. x # None
        BY ControlAssumption
      <3>4. CASE entry'[x] = entry[x]
        BY <1>2, <3>4
      <3>5. CASE entry'[x] # entry[x]
        <4>1. x = r /\ entry[x] # None /\ entry'[x] = [entry[x] EXCEPT !.shows = r]
          BY <2>2, <3>2, <3>3, <3>5 DEF DispatchProgress
        <4>2. entry[x] \in Progress
          BY <4>1 DEF Inv, Types
        <4>. QED
          BY <4>1, <4>2 DEF Progress
      <3>. QED
        BY <3>4, <3>5
    <2>. QED
      BY <2>1, <2>2
  <1>3. ASSUME NEW x \in Runs, entry'[x] # None
        PROVE  /\ entry'[x].shows = x
               /\ ~entry'[x].running =>
                    outcome'[x] # None /\ (entry'[x].success <=> (outcome'[x] = "success"))
    BY <1>1, <1>2, <1>3 DEF StatusInv
  <1>. QED
    BY <1>1, <1>3 DEF StatusInv

\* A request to stop writes no entry.
LEMMA StatusCancel ==
  ASSUME Inv, StatusInv, NEW c \in Cancels, Cancelling(c) \/ \E r \in Runs : HandleCancelBackup(c, r)
  PROVE  StatusInv'
  <1>1. UNCHANGED <<pc, outcome, entry, callbacks, inlineJob>> /\ (mixed => mixed')
    BY DEF Cancelling, LookUpCancel, FallBackToContext, FallBackToShared, FireCancel,
           HandleCancelBackup, runVars, mapVars, ghostVars
  <1>. QED
    BY <1>1 DEF StatusInv, InFlight

LEMMA StatusInvariance == Spec => []StatusInv
  <1>1. Init => StatusInv
    BY DEF Init, StatusInv, InFlight
  <1>2. ASSUME Inv, StatusInv, [Next]_vars
        PROVE  StatusInv'
    <2>1. CASE UNCHANGED vars
      BY <1>2, <2>1 DEF vars, runVars, mapVars, ghostVars, StatusInv, InFlight
    <2>2. CASE Next
      BY <1>2, <2>2, StatusMove, StatusDisplay, StatusCancel DEF Next, Move
    <2>. QED
      BY <1>2, <2>1, <2>2
  <1>. QED
    BY <1>1, <1>2, Invariance, PTL DEF Spec

\* What a run does to the contexts: it takes the one in the slot, makes one of its own, and
\* cancels the one in the shared slot when it begins and its own when it is over.
LEMMA ContextOwned ==
  ASSUME Types, StopInv, NEW r \in Runs, Move(r)
  PROVE  /\ UNCHANGED <<cpc, target, found, asked>> /\ DOMAIN ctx' = Runs
         /\ \A x \in Runs \ {r} : ctx'[x] = ctx[x]
         /\ \/ ctx'[r] \in {None, ctx[r], Shared(r)}
            \/ ctx'[r] = backupCtx
         /\ \/ cancelled' = cancelled
            \/ cancelled' = cancelled \cup ({sharedCancel} \ {None}) /\ pc[r] = "configured"
            \/ cancelled' = cancelled \cup {Own(r)} /\ pc'[r] = "done"
  BY DEF Types, StopInv, Goto, Move, Step, cancelVars, runVars, ghostVars, Register,
         SetBackupContext,
         SetCurrentCancel, RegisterBackupCancel, SetProgressCallbacks, SetInlineJobID,
         TakeContext, FailToStart,
         NewBackupContext, RejectOptions, AcquireLock, BeginCommit, StopCancelled, BackupEnds,
         DispatchComplete, RemoveCallbacks, ReleaseLock, DoneBackupContext, UpdateFinalStatus,
         ClearBackupContext, ClearCurrentCancel, ClearInlineJobID, ReportInlineJobComplete

\* No context is None, and every run has two contexts of its own.
LEMMA Contexts ==
  /\ \A r \in Runs : Own(r) # None /\ Shared(r) # None
  /\ \A r, x \in Runs : /\ Own(r) # Shared(x)
                        /\ Own(r) = Own(x) => r = x
                        /\ Shared(r) = Shared(x) => r = x
  BY ControlAssumption DEF Own, Shared

LEMMA SlotsMove ==
  ASSUME Types, SlotsOwned, NEW r \in Runs, Move(r)
  PROVE  SlotsOwned'
  <1>1. PICK to \in RunPC : Goto(r, to)
    BY Moves
  <1>2. pc'[r] = to /\ \A x \in Runs \ {r} : pc'[x] = pc[x]
    BY <1>1 DEF Goto, Types
  <1>3. ApiRuns \subseteq Runs
    BY DEF Runs
  <1>4. backupCtx' # None => \E x \in ApiRuns : backupCtx' = Own(x) /\ pc'[x] \in HasContext
    <2>. SUFFICES ASSUME backupCtx' # None
                  PROVE  \E x \in ApiRuns : backupCtx' = Own(x) /\ pc'[x] \in HasContext
      OBVIOUS
    <2>1. backupCtx' \in {backupCtx, Own(r)}
      BY OwnerMove
    <2>2. \/ r \in ApiRuns /\ to \in HasContext
          \/ backupCtx' = backupCtx /\ (r \in ApiRuns => pc[r] \notin HasContext)
      BY <1>1, ContextMove
    <2>3. CASE r \in ApiRuns /\ backupCtx' = Own(r) /\ to \in HasContext
      BY <1>2, <2>3
    <2>4. CASE backupCtx' = backupCtx
      <3>1. PICK x \in ApiRuns : backupCtx = Own(x) /\ pc[x] \in HasContext
        BY <2>4 DEF SlotsOwned
      <3>. QED
        BY <1>2, <1>3, <2>2, <2>4, <3>1
    <2>. QED
      BY <2>1, <2>2, <2>3, <2>4
  <1>5. currentFunc' # None => \E x \in ApiRuns : currentFunc' = Own(x) /\ pc'[x] \in HasCurrent
    <2>. SUFFICES ASSUME currentFunc' # None
                  PROVE  \E x \in ApiRuns : currentFunc' = Own(x) /\ pc'[x] \in HasCurrent
      OBVIOUS
    <2>1. currentFunc' \in {currentFunc, Own(r)}
      BY OwnerMove
    <2>2. \/ r \in ApiRuns /\ to \in HasCurrent
          \/ currentFunc' = currentFunc /\ (r \in ApiRuns => pc[r] \notin HasCurrent)
      BY <1>1, CurrentMove
    <2>3. CASE r \in ApiRuns /\ currentFunc' = Own(r) /\ to \in HasCurrent
      BY <1>2, <2>3
    <2>4. CASE currentFunc' = currentFunc
      <3>1. PICK x \in ApiRuns : currentFunc = Own(x) /\ pc[x] \in HasCurrent
        BY <2>4 DEF SlotsOwned
      <3>. QED
        BY <1>2, <1>3, <2>2, <2>4, <3>1
    <2>. QED
      BY <2>1, <2>2, <2>3, <2>4
  <1>6. sharedCancel' # None => \E x \in Runs : sharedCancel' = Shared(x) /\ pc'[x] \in HasShared
    <2>. SUFFICES ASSUME sharedCancel' # None
                  PROVE  \E x \in Runs : sharedCancel' = Shared(x) /\ pc'[x] \in HasShared
      OBVIOUS
    <2>1. sharedCancel' \in {sharedCancel, Shared(r)}
      BY OwnerMove
    <2>2. \/ to \in HasShared
          \/ sharedCancel' = sharedCancel /\ pc[r] \notin HasShared
      BY <1>1, SharedMove
    <2>3. CASE sharedCancel' = Shared(r) /\ to \in HasShared
      BY <1>2, <2>3
    <2>4. CASE sharedCancel' = sharedCancel
      <3>1. PICK x \in Runs : sharedCancel = Shared(x) /\ pc[x] \in HasShared
        BY <2>4 DEF SlotsOwned
      <3>. QED
        BY <1>2, <2>2, <2>4, <3>1
    <2>. QED
      BY <2>1, <2>2, <2>3, <2>4
  <1>. QED
    BY <1>4, <1>5, <1>6 DEF SlotsOwned

\* A run alone never obeys, and never cancels, the context of another.
LEMMA StopMove ==
  ASSUME Inv, StatusInv, StopInv, NEW r \in Runs, Move(r)
  PROVE  StopInv'
  <1>. USE DEF Inv
  <1>1. /\ UNCHANGED <<cpc, target, found, asked>> /\ DOMAIN ctx' = Runs
        /\ \A x \in Runs \ {r} : ctx'[x] = ctx[x] /\ pc'[x] = pc[x] /\ outcome'[x] = outcome[x]
        /\ pc[r] # "done"
    BY ContextOwned, Moves, OutcomeMove DEF Goto, Types
  <1>. SUFFICES ASSUME ~mixed'
                PROVE  /\ SlotsOwned' /\ StopsItsTarget' /\ CancelledWhenAsked'
                       /\ \A x \in Runs : ctx'[x] \in {None, Own(x), Shared(x)}
                       /\ \A x \in Runs : outcome'[x] = "cancelled" => x \in asked'
    BY <1>1 DEF StopInv, Own, Shared
  <1>2. /\ ~mixed /\ InFlight \subseteq {r} /\ InFlight' \subseteq {r}
        /\ r \in InFlight \/ Pending = {}
    BY MovesAlone
  <1>3. /\ SlotsOwned /\ StopsItsTarget /\ CancelledWhenAsked
        /\ \A x \in Runs : ctx[x] \in {None, Own(x), Shared(x)}
        /\ \A x \in Runs : outcome[x] = "cancelled" => x \in asked
    BY <1>2 DEF StopInv
  <1>4. SlotsOwned'
    BY <1>3, SlotsMove
  <1>5. StopsItsTarget'
    BY <1>1, <1>2, <1>3 DEF StopsItsTarget, Pending, Own, Shared
  <1>6. backupCtx \in {None, Own(r)}
    <2>1. ASSUME NEW x \in ApiRuns, pc[x] \in HasContext PROVE x = r
      BY <1>2, <2>1 DEF InFlight, HasContext, HasInline, HasShared, Runs
    <2>. QED
      BY <1>3, <2>1 DEF SlotsOwned
  <1>7. \A x \in Runs : ctx'[x] \in {None, Own(x), Shared(x)}
    BY <1>1, <1>3, <1>6, ContextOwned
  <1>8. CancelledWhenAsked'
    <2>1. \A x \in Runs : pc[x] = "done" => pc'[x] = "done"
      BY <1>1
    <2>2. CASE cancelled' = cancelled
      BY <1>1, <1>3, <2>1, <2>2 DEF CancelledWhenAsked, Own, Shared
    <2>3. CASE cancelled' = cancelled \cup ({sharedCancel} \ {None}) /\ pc[r] = "configured"
      <3>1. sharedCancel = None
        <4>1. ASSUME NEW x \in Runs, pc[x] \in HasShared PROVE FALSE
          BY <1>2, <2>3, <4>1 DEF InFlight, HasShared
        <4>. QED
          BY <1>3, <4>1 DEF SlotsOwned
      <3>2. cancelled' = cancelled
        BY <2>3, <3>1
      <3>. QED
        BY <2>2, <3>2
    <2>4. CASE cancelled' = cancelled \cup {Own(r)} /\ pc'[r] = "done"
      BY <1>1, <1>3, <2>1, <2>4, Contexts DEF CancelledWhenAsked, Own, Shared
    <2>. QED
      BY <2>2, <2>3, <2>4, ContextOwned
  <1>9. ASSUME NEW x \in Runs, outcome'[x] = "cancelled"
        PROVE  x \in asked
    <2>1. CASE outcome[x] = "cancelled"
      BY <1>3, <2>1
    <2>2. CASE x = r /\ pc[r] = "locked" /\ ctx[r] \in cancelled
      BY <1>3, <2>2 DEF CancelledWhenAsked
    <2>3. CASE x # r
      <3>1. outcome[x] = "cancelled"
        BY <1>1, <1>9, <2>3
      <3>. QED
        BY <2>1, <3>1
    <2>4. CASE x = r
      <3>1. outcome[r] = "cancelled" \/ (pc[r] = "locked" /\ ctx[r] \in cancelled)
        BY <1>9, <2>4, EntryOwned
      <3>. QED
        BY <2>1, <2>2, <2>4, <3>1
    <2>. QED
      BY <2>3, <2>4
  <1>. QED
    BY <1>1, <1>4, <1>5, <1>7, <1>8, <1>9

\* A stop finds the contexts of its target only: those of the run in flight.
LEMMA StopCancel ==
  ASSUME Inv, StatusInv, StopInv, NEW c \in Cancels,
         Cancelling(c) \/ \E r \in Runs : HandleCancelBackup(c, r)
  PROVE  StopInv'
  <1>. USE DEF Inv
  <1>1. /\ UNCHANGED <<pc, ctx, outcome>> /\ asked \subseteq asked' /\ asked' \subseteq Runs
        /\ DOMAIN cpc' = Cancels /\ DOMAIN target' = Cancels /\ DOMAIN found' = Cancels
        /\ \A x \in Cancels \ {c} :
             cpc'[x] = cpc[x] /\ target'[x] = target[x] /\ found'[x] = found[x]
        /\ backupCtx' \in {backupCtx, None} /\ currentFunc' \in {currentFunc, None}
        /\ sharedCancel' = sharedCancel
        /\ mixed => mixed'
    BY DEF StopInv, Cancelling, LookUpCancel, FallBackToContext, FallBackToShared, FireCancel,
           HandleCancelBackup, runVars, slotVars, ghostVars
  <1>. SUFFICES ASSUME ~mixed'
                PROVE  /\ SlotsOwned' /\ StopsItsTarget' /\ CancelledWhenAsked'
                       /\ \A x \in Runs : ctx'[x] \in {None, Own(x), Shared(x)}
                       /\ \A x \in Runs : outcome'[x] = "cancelled" => x \in asked'
    BY <1>1 DEF StopInv, Own, Shared
  <1>2. /\ SlotsOwned /\ StopsItsTarget /\ CancelledWhenAsked
        /\ \A x \in Runs : ctx[x] \in {None, Own(x), Shared(x)}
        /\ \A x \in Runs : outcome[x] = "cancelled" => x \in asked
    BY <1>1 DEF StopInv
  <1>3. SlotsOwned'
    BY <1>1, <1>2 DEF SlotsOwned, Own, Shared
  <1>4. InFlight' = InFlight
    BY <1>1 DEF InFlight
  <1>5. ASSUME c \in Pending PROVE target[c] \in Runs /\ target[c] \in asked
                                   /\ InFlight \subseteq {target[c]}
    BY <1>2, <1>5 DEF StopsItsTarget, StopInv
  <1>6. c \in Pending =>
          /\ currentFunc # None => currentFunc = Own(target[c])
          /\ backupCtx # None => backupCtx = Own(target[c])
          /\ sharedCancel # None => sharedCancel = Shared(target[c])
    <2>1. ASSUME NEW x \in Runs, c \in Pending,
                 pc[x] \in HasContext \cup HasCurrent \cup HasShared
          PROVE  x = target[c]
      BY <1>5, <2>1 DEF InFlight, HasContext, HasCurrent, HasInline, HasShared
    <2>. QED
      BY <1>2, <2>1 DEF SlotsOwned, Runs
  <1>7. CASE \E r \in Runs : HandleCancelBackup(c, r)
    <2>1. PICK r \in Runs : HandleCancelBackup(c, r)
      BY <1>7
    <2>2. \/ cpc'[c] = "answered"
          \/ cpc'[c] = "checked" /\ target'[c] = r /\ r \in asked' /\ InFlight \subseteq {r}
      <3>1. c \in DOMAIN cpc /\ c \in DOMAIN target
        BY DEF StopInv
      <3>2. CASE entry[r].running
        <4>1. cpc' = [cpc EXCEPT ![c] = "checked"] /\ target' = [target EXCEPT ![c] = r]
          BY <2>1, <3>2 DEF HandleCancelBackup
        <4>2. r \in asked' /\ InFlight \ {r} = {}
          BY <2>1, <3>2 DEF HandleCancelBackup
        <4>. QED
          BY <3>1, <4>1, <4>2
      <3>3. CASE ~entry[r].running
        <4>1. cpc' = [cpc EXCEPT ![c] = "answered"]
          BY <2>1, <3>3 DEF HandleCancelBackup
        <4>. QED
          BY <3>1, <4>1
      <3>. QED
        BY <3>2, <3>3
    <2>3. StopsItsTarget'
      BY <1>1, <1>2, <1>4, <2>2 DEF StopsItsTarget, Pending, Own, Shared
    <2>4. CancelledWhenAsked'
      BY <1>1, <1>2, <2>1 DEF HandleCancelBackup, CancelledWhenAsked, Own, Shared
    <2>. QED
      BY <1>1, <1>2, <1>3, <2>3, <2>4
  <1>8. CASE Cancelling(c) /\ ~FireCancel(c)
    <2>1. asked' = asked /\ cancelled' = cancelled /\ c \in Pending
      BY <1>8
      DEF Cancelling, LookUpCancel, FallBackToContext, FallBackToShared, Pending, ghostVars
    <2>2. \/ cpc'[c] = "answered"
          \/ cpc'[c] \in {"fallback", "shared"} /\ target'[c] = target[c]
          \/ /\ cpc'[c] = "found" /\ target'[c] = target[c]
             /\ found'[c] \in {Own(target[c]), Shared(target[c])}
      BY <1>6, <1>8, <2>1
      DEF Cancelling, LookUpCancel, FallBackToContext, FallBackToShared, StopInv
    <2>3. StopsItsTarget'
      BY <1>1, <1>2, <1>4, <1>5, <2>1, <2>2 DEF StopsItsTarget, Pending, Own, Shared
    <2>4. CancelledWhenAsked'
      BY <1>1, <1>2, <2>1 DEF CancelledWhenAsked, Own, Shared
    <2>. QED
      BY <1>1, <1>2, <1>3, <2>1, <2>3, <2>4
  <1>9. CASE FireCancel(c)
    <2>1. /\ asked' = asked /\ cancelled' = cancelled \cup {found[c]} /\ c \in Pending
          /\ cpc[c] = "found" /\ cpc'[c] = "answered"
      BY <1>9 DEF FireCancel, Pending, StopInv
    <2>2. found[c] \in {Own(target[c]), Shared(target[c])}
      BY <1>2, <2>1 DEF StopsItsTarget
    <2>3. StopsItsTarget'
      BY <1>1, <1>2, <1>4, <2>1 DEF StopsItsTarget, Pending, Own, Shared
    <2>4. CancelledWhenAsked'
      BY <1>1, <1>2, <1>5, <2>1, <2>2, Contexts DEF CancelledWhenAsked, Own, Shared
    <2>. QED
      BY <1>1, <1>2, <1>3, <2>1, <2>3, <2>4
  <1>. QED
    BY <1>7, <1>8, <1>9

\* While no run ever began beside another: an entry shows its own run and ends with the
\* outcome of that run (handleBackup, dispatchProgress, dispatchComplete).
THEOREM StatusAlone == Spec => []StatusTrueWhenAlone
  <1>1. StatusInv => StatusTrueWhenAlone
    BY DEF StatusInv, StatusTrueWhenAlone
  <1>. QED
    BY <1>1, StatusInvariance, PTL

\* While no run ever began beside another: no run is stopped but one that a user asked to
\* stop, however late the request finds its slot (CancelBackup, newBackupContext).
THEOREM StopsAlone == Spec => []StopsOnlyTheAskedWhenAlone
  <1>1. Init => StopInv
    BY ControlAssumption
    DEF Init, StopInv, SlotsOwned, StopsItsTarget, CancelledWhenAsked, Pending
  <1>2. ASSUME Inv, StatusInv, StopInv, [Next]_vars
        PROVE  StopInv'
    <2>1. CASE UNCHANGED <<runVars, cancelled, backupCtx, currentFunc, sharedCancel,
                           cancelVars, asked, mixed>>
      BY <1>2, <2>1
      DEF runVars, cancelVars, StopInv, SlotsOwned, StopsItsTarget, CancelledWhenAsked,
          Pending, InFlight, Own, Shared
    <2>2. ASSUME NEW r \in Runs, DispatchProgress(r) \/ EvictEntry(r) PROVE StopInv'
      BY <2>1, <2>2 DEF DispatchProgress, EvictEntry, slotVars, ghostVars
    <2>3. CASE UNCHANGED vars
      BY <2>1, <2>3 DEF vars, slotVars, ghostVars
    <2>. QED
      BY <1>2, <2>2, <2>3, StopMove, StopCancel DEF Next, Move
  <1>3. StopInv => StopsOnlyTheAskedWhenAlone
    BY DEF StopInv, StopsOnlyTheAskedWhenAlone
  <1>. QED
    BY <1>1, <1>2, <1>3, Invariance, StatusInvariance, PTL DEF Spec
===============================================================================
