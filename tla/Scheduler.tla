------------------------------ MODULE Scheduler ------------------------------
(***************************************************************************)
(* The service's job scheduler (gui/scheduler.go): the ticker, the startup *)
(* runner, the API handlers that save, edit, delete and start jobs, and    *)
(* the goroutines that run them.                                           *)
(*                                                                         *)
(* scheduled_jobs.json and job_history.json are read and rewritten whole,  *)
(* with no lock between the read and the write, so every read-modify-write *)
(* is two steps here.  The write itself is atomic (atomicWriteFile).       *)
(***************************************************************************)
EXTENDS JobStore, Sequences, Functions, FiniteSets

CONSTANTS Goroutines,    \* goroutines that may be running a job at one time
          Handlers,      \* API handlers in flight at one time
          Configs,       \* the configurations a user may send
          InitialStores, \* what an earlier process may have left in the jobs file
          InitialHistories,
          HistoryCap,    \* entries kept in job_history.json (50)
          MaxClock,      \* bound: ticks of the wall clock
          MaxCalls,      \* bound: API calls
          MaxFaults      \* bound: failed reads and writes, and crashes

VARIABLES
  phase,     \* of the service process
  clock,     \* wall clock
  file,      \* scheduled_jobs.json
  history,   \* job_history.json, newest first
  running,   \* runningJobs
  booted,    \* the machine booted and the startup jobs have not been started yet
  pc, job, result, snap, hsnap,     \* of the goroutines
  hpc, call, hstore,                \* of the API handlers
  calls, faults,                    \* what the bounds count
  \* history variables, read by no action's guard
  runs,        \* how many runs ended: a number for each of them
  created,     \* identifiers the GUI has drawn
  intended,    \* the store had every operation been atomic
  overlapped,  \* two read-modify-writes of the jobs file overlapped
  uncleaned,   \* this process could not clean up the history when it started
  unrepaired   \* the jobs this process, when it started, could not give a run time

processVars == <<phase, running, booted>>
runVars == <<pc, job, result, snap, hsnap>>
handlerVars == <<hpc, call, hstore>>
boundVars == <<calls, faults>>
startVars == <<uncleaned, unrepaired>>
ghostVars == <<runs, created, intended, overlapped, startVars>>
vars == <<processVars, clock, file, history, runVars, handlerVars, boundVars, ghostVars>>

Status == {"running", "success", "failed"}

\* A history entry.  `run` and `truth` are the model's: which run it tells of, and how
\* that run really ended.
Entry == [run: Nat, job: Jobs, status: Status, truth: Status]

ASSUME SchedulerAssumption ==
  /\ Configs \subseteq JobConfig
  /\ InitialStores \subseteq Store
  /\ InitialHistories \subseteq Seq(Entry)
  /\ \A entries \in InitialHistories :
       /\ Len(entries) <= HistoryCap
       /\ \A i \in DOMAIN entries : entries[i].run = 0
  /\ HistoryCap \in Nat \ {0}
  /\ MaxClock \in Nat /\ MaxCalls \in Nat /\ MaxFaults \in Nat

\* A goroutine that passed claimJob and has not called releaseJob.
ClaimedPC == {"running", "ended", "histLoaded", "recorded", "loaded", "stored"}
RunPC == {"idle", "spawned"} \cup ClaimedPC
Claimed == {g \in Goroutines : pc[g] \in ClaimedPC}
Idle == {g \in Goroutines : pc[g] = "idle"}

Operation == {"save", "update", "delete"}
Call == [op: Operation, job: Jobs, config: JobConfig]

NoStore == [j \in Jobs |-> NoJob]
NoCall == [op |-> "delete", job |-> CHOOSE j \in Jobs : TRUE,
           config |-> [enabled |-> FALSE, sched |-> Unset, startup |-> FALSE]]

TypeOK ==
  /\ phase \in {"down", "cleaned", "reconciled", "up"}
  /\ clock \in Nat
  /\ file \in Store /\ intended \in Store
  /\ history \in Seq(Entry) /\ Len(history) <= HistoryCap
  /\ running \subseteq Jobs /\ created \subseteq Jobs
  /\ booted \in BOOLEAN /\ overlapped \in BOOLEAN
  /\ uncleaned \in BOOLEAN /\ unrepaired \subseteq Jobs
  /\ pc \in [Goroutines -> RunPC]
  /\ job \in [Goroutines -> Jobs]
  /\ result \in [Goroutines -> Entry]
  /\ snap \in [Goroutines -> Store]
  /\ hsnap \in [Goroutines -> Seq(Entry)]
  /\ hpc \in [Handlers -> {"idle", "called", "loaded"}]
  /\ call \in [Handlers -> Call]
  /\ hstore \in [Handlers -> Store]
  /\ calls \in Nat /\ faults \in Nat
  /\ runs \in Nat

NoEntry == [run |-> 0, job |-> NoCall.job, status |-> "running", truth |-> "running"]

Init ==
  /\ phase = "down" /\ booted = TRUE /\ clock = 0
  /\ file \in InitialStores
  /\ history \in InitialHistories
  /\ pc = [g \in Goroutines |-> "idle"]
  /\ job = [g \in Goroutines |-> NoCall.job]
  /\ result = [g \in Goroutines |-> NoEntry]
  /\ snap = [g \in Goroutines |-> NoStore]
  /\ hsnap = [g \in Goroutines |-> <<>>]
  /\ hpc = [h \in Handlers |-> "idle"]
  /\ call = [h \in Handlers |-> NoCall]
  /\ hstore = [h \in Handlers |-> NoStore]
  /\ running = {}
  /\ calls = 0 /\ faults = 0
  /\ runs = 0
  /\ created = {j \in Jobs : file[j] # NoJob \/ Provisioned[j] # NoJob}
  /\ intended = file
  /\ overlapped = FALSE
  /\ uncleaned = FALSE /\ unrepaired = {}

----------------------------------------------------------------------------
(* Start and stop of the service process.  Each step of the start may fail to read its  *)
(* file or to write it: that is logged, the file stays as it was, and the start goes on. *)

\* A run recorded as running belongs to a process that is gone.
Abandoned(entries) ==
  [i \in DOMAIN entries |->
     IF entries[i].status = "running" THEN [entries[i] EXCEPT !.status = "failed"]
     ELSE entries[i]]

CleanupAbandonedJobs ==
  /\ phase = "down"
  /\ phase' = "cleaned"
  /\ \/ /\ history' = Abandoned(history)
        /\ uncleaned' = FALSE
        /\ UNCHANGED faults
     \/ /\ faults < MaxFaults
        /\ faults' = faults + 1
        /\ uncleaned' = TRUE
        /\ UNCHANGED history
  /\ UNCHANGED <<running, booted, clock, file, runVars, handlerVars, calls,
                 runs, created, intended, overlapped, unrepaired>>

\* Mutant: a failed read passes for an empty list.
ReconcileProvisionedJobsUnchecked ==
  /\ phase = "cleaned"
  /\ phase' = "reconciled"
  /\ \/ /\ file' = MergeProvisionedJobs(file, clock)
        /\ UNCHANGED faults
     \/ /\ faults < MaxFaults
        /\ faults' = faults + 1
        /\ file' = MergeProvisionedJobs(NoStore, clock)
  /\ intended' = file'
  /\ UNCHANGED <<running, booted, clock, history, runVars, handlerVars, calls,
                 runs, created, overlapped, startVars>>

\* An unreadable config.json declares no job: that is the failing step too.
ReconcileProvisionedJobs ==
  /\ phase = "cleaned"
  /\ phase' = "reconciled"
  /\ \/ /\ file' = MergeProvisionedJobs(file, clock)
        /\ intended' = file'
        /\ UNCHANGED faults
     \/ /\ faults < MaxFaults
        /\ faults' = faults + 1
        /\ UNCHANGED <<file, intended>>
  /\ UNCHANGED <<running, booted, clock, history, runVars, handlerVars, calls,
                 runs, created, overlapped, startVars>>

\* The jobs of a store the ticker would skip for want of a run time.
Timeless(store) == {j \in Jobs : Schedulable(store[j]) /\ store[j].next = Unset}

\* The API server and the ticker start after this, so nothing runs beside the three steps.
RecalculateNextRuns ==
  /\ phase = "reconciled"
  /\ phase' = "up"
  /\ \/ /\ file' = RepairedStore(file, clock)
        /\ intended' = file'
        /\ unrepaired' = {}
        /\ UNCHANGED faults
     \/ /\ faults < MaxFaults
        /\ faults' = faults + 1
        /\ unrepaired' = Timeless(file)
        /\ UNCHANGED <<file, intended>>
  /\ UNCHANGED <<running, booted, clock, history, runVars, handlerVars, calls,
                 runs, created, overlapped, uncleaned>>

\* The process dies, at any point; the service manager starts it again.  A machine that
\* rebooted has its startup jobs run again, a restarted service has not.
Crash ==
  /\ phase # "down" /\ faults < MaxFaults
  /\ faults' = faults + 1
  /\ phase' = "down"
  /\ booted' \in {booted, TRUE}
  /\ pc' = [g \in Goroutines |-> "idle"]
  /\ job' = [g \in Goroutines |-> NoCall.job]
  /\ result' = [g \in Goroutines |-> NoEntry]
  /\ snap' = [g \in Goroutines |-> NoStore]
  /\ hsnap' = [g \in Goroutines |-> <<>>]
  /\ hpc' = [h \in Handlers |-> "idle"]
  /\ call' = [h \in Handlers |-> NoCall]
  /\ hstore' = [h \in Handlers |-> NoStore]
  /\ running' = {}
  /\ intended' = file
  /\ overlapped' = FALSE
  /\ uncleaned' = FALSE /\ unrepaired' = {}
  /\ UNCHANGED <<clock, file, history, calls, runs, created>>

AdvanceClock ==
  /\ clock < MaxClock
  /\ clock' = clock + 1
  /\ UNCHANGED <<processVars, file, history, runVars, handlerVars, boundVars, ghostVars>>

----------------------------------------------------------------------------
(* Spawning the goroutines that run jobs *)

\* One new goroutine for each of the jobs in `due`.
Spawn(due) ==
  /\ Cardinality(due) <= Cardinality(Idle)
  /\ \E g \in [due -> Idle] :
       /\ IsInjective(g)
       /\ pc' = [x \in Goroutines |-> IF x \in Range(g) THEN "spawned" ELSE pc[x]]
       /\ job' = [x \in Goroutines |->
                    IF x \in Range(g) THEN CHOOSE j \in due : g[j] = x ELSE job[x]]

\* One tick of the ticker: a goroutine for every enabled job past its run time.  A tick
\* that cannot read the jobs changes nothing.
CheckAndRunScheduledJobs ==
  /\ phase = "up"
  /\ LET due == {j \in Jobs : Due(file[j], clock)}
     IN  due # {} /\ Spawn(due)
  /\ UNCHANGED <<processVars, clock, file, history, result, snap, hsnap, handlerVars,
                 boundVars, ghostVars>>

\* Once per boot: a goroutine for every enabled job set to run at startup.  It is not
\* tried again: after a failed read the startup jobs of this boot do not run.
HandleStartupRun ==
  /\ phase = "up" /\ booted
  /\ booted' = FALSE
  /\ \/ /\ Spawn({j \in Jobs : file[j] # NoJob /\ file[j].enabled /\ file[j].startup})
        /\ UNCHANGED faults
     \/ /\ faults < MaxFaults
        /\ faults' = faults + 1
        /\ UNCHANGED <<pc, job>>
  /\ UNCHANGED <<phase, running, clock, file, history, result, snap, hsnap, handlerVars,
                 calls, ghostVars>>

\* "Run now" looks only at whether the job is stored: a disabled or early job runs.  A
\* call that cannot read the jobs is refused and changes nothing.
RunScheduledJobNow(j) ==
  /\ phase = "up" /\ calls < MaxCalls
  /\ file[j] # NoJob
  /\ calls' = calls + 1
  /\ Spawn({j})
  /\ UNCHANGED <<processVars, clock, file, history, result, snap, hsnap, handlerVars,
                 faults, ghostVars>>

----------------------------------------------------------------------------
(* A goroutine that runs a job *)

\* Mutant: the claim is taken without looking.
ClaimJobUnguarded(g) ==
  /\ pc[g] = "spawned"
  /\ running' = running \cup {job[g]}
  /\ pc' = [pc EXCEPT ![g] = "running"]
  /\ UNCHANGED <<phase, booted, clock, file, history, job, result, snap, hsnap,
                 handlerVars, boundVars, ghostVars>>

\* claimJob succeeds: this goroutine runs the job.
ClaimJob(g) ==
  /\ pc[g] = "spawned" /\ job[g] \notin running
  /\ running' = running \cup {job[g]}
  /\ pc' = [pc EXCEPT ![g] = "running"]
  /\ UNCHANGED <<phase, booted, clock, file, history, job, result, snap, hsnap,
                 handlerVars, boundVars, ghostVars>>

\* claimJob fails: the run is skipped (or, for "run now", reported as already running).
SkipRunningJob(g) ==
  /\ pc[g] = "spawned" /\ job[g] \in running
  /\ pc' = [pc EXCEPT ![g] = "idle"]
  /\ job' = [job EXCEPT ![g] = NoCall.job]
  /\ UNCHANGED <<processVars, clock, file, history, result, snap, hsnap,
                 handlerVars, boundVars, ghostVars>>

\* runScheduledBackup returns, with or without an error.
BackupReturns(g) ==
  /\ pc[g] = "running"
  /\ \E status \in {"success", "failed"} :
       result' = [result EXCEPT ![g] = [run |-> runs + 1, job |-> job[g],
                                        status |-> status, truth |-> status]]
  /\ runs' = runs + 1
  /\ pc' = [pc EXCEPT ![g] = "ended"]
  /\ UNCHANGED <<processVars, clock, file, history, job, snap, hsnap, handlerVars,
                 boundVars, created, intended, overlapped, startVars>>

\* AddJobHistory reads the history.  After a failed read it writes nothing.
LoadHistory(g) ==
  /\ pc[g] = "ended"
  /\ \/ /\ hsnap' = [hsnap EXCEPT ![g] = history]
        /\ pc' = [pc EXCEPT ![g] = "histLoaded"]
        /\ UNCHANGED <<faults, result>>
     \/ /\ faults < MaxFaults
        /\ faults' = faults + 1
        /\ pc' = [pc EXCEPT ![g] = "recorded"]
        /\ result' = [result EXCEPT ![g] = NoEntry]
        /\ UNCHANGED hsnap
  /\ UNCHANGED <<processVars, clock, file, history, job, snap, handlerVars,
                 calls, ghostVars>>

\* Mutant: a failed run is recorded as a success.
HistoryEntryOptimistic(g) == [result[g] EXCEPT !.status = "success"]

\* The history entry derives from the error the backup returned.
HistoryEntry(g) == result[g]

Prepend(entries, entry) ==
  LET all == <<entry>> \o entries
  IN  IF Len(all) > HistoryCap THEN SubSeq(all, 1, HistoryCap) ELSE all

StoreHistory(g) ==
  /\ pc[g] = "histLoaded"
  /\ \/ /\ history' = Prepend(hsnap[g], HistoryEntry(g))
        /\ UNCHANGED faults
     \/ /\ faults < MaxFaults
        /\ faults' = faults + 1
        /\ UNCHANGED history
  /\ pc' = [pc EXCEPT ![g] = "recorded"]
  /\ hsnap' = [hsnap EXCEPT ![g] = <<>>]
  /\ result' = [result EXCEPT ![g] = NoEntry]
  /\ UNCHANGED <<processVars, clock, file, job, snap, handlerVars, calls, ghostVars>>

\* Someone else is between reading and writing the jobs file.
Overlaps == (\E g \in Goroutines : pc[g] = "loaded") \/ (\E h \in Handlers : hpc[h] = "loaded")

\* The jobs are read again, once the backup is over.  A failed read, or a job deleted
\* meanwhile, ends the update.
RereadJobs(g) ==
  /\ pc[g] = "recorded"
  /\ \/ /\ file[job[g]] # NoJob
        /\ snap' = [snap EXCEPT ![g] = file]
        /\ pc' = [pc EXCEPT ![g] = "loaded"]
        /\ overlapped' = (overlapped \/ Overlaps)
        /\ UNCHANGED faults
     \/ /\ file[job[g]] = NoJob
        /\ pc' = [pc EXCEPT ![g] = "stored"]
        /\ UNCHANGED <<snap, faults, overlapped>>
     \/ /\ faults < MaxFaults
        /\ faults' = faults + 1
        /\ pc' = [pc EXCEPT ![g] = "stored"]
        /\ UNCHANGED <<snap, overlapped>>
  /\ UNCHANGED <<processVars, clock, file, history, job, result, hsnap, handlerVars,
                 calls, runs, created, intended, startVars>>

\* lastRun and nextRun of the job are written, and with them the whole list as read.
StoreRunRecord(g) ==
  /\ pc[g] = "loaded"
  /\ \/ /\ file' = [snap[g] EXCEPT ![job[g]] = RanJob(@, clock)]
        /\ intended' = IF overlapped THEN NoStore
                       ELSE IF intended[job[g]] = NoJob THEN intended
                       ELSE [intended EXCEPT ![job[g]] = RanJob(@, clock)]
        /\ UNCHANGED faults
     \/ /\ faults < MaxFaults
        /\ faults' = faults + 1
        /\ UNCHANGED <<file, intended>>
  /\ pc' = [pc EXCEPT ![g] = "stored"]
  /\ snap' = [snap EXCEPT ![g] = NoStore]
  /\ UNCHANGED <<processVars, clock, history, job, result, hsnap, handlerVars, calls,
                 runs, created, overlapped, startVars>>

\* Mutant: the claim is kept after the run.
ReleaseJobForgotten(g) ==
  /\ pc[g] = "stored"
  /\ pc' = [pc EXCEPT ![g] = "idle"]
  /\ job' = [job EXCEPT ![g] = NoCall.job]
  /\ UNCHANGED <<processVars, clock, file, history, result, snap, hsnap,
                 handlerVars, boundVars, ghostVars>>

ReleaseJob(g) ==
  /\ pc[g] = "stored"
  /\ running' = running \ {job[g]}
  /\ pc' = [pc EXCEPT ![g] = "idle"]
  /\ job' = [job EXCEPT ![g] = NoCall.job]
  /\ UNCHANGED <<phase, booted, clock, file, history, result, snap, hsnap,
                 handlerVars, boundVars, ghostVars>>

----------------------------------------------------------------------------
(* API handlers that change the jobs file *)

Request(h, op, j, config) ==
  /\ phase = "up" /\ hpc[h] = "idle" /\ calls < MaxCalls
  /\ calls' = calls + 1
  /\ hpc' = [hpc EXCEPT ![h] = "called"]
  /\ call' = [call EXCEPT ![h] = [op |-> op, job |-> j, config |-> config]]
  /\ UNCHANGED <<processVars, clock, file, history, runVars, hstore, faults,
                 runs, intended, overlapped, startVars>>

SaveScheduledJob(h, j, config) ==
  /\ j \notin created /\ Valid(config)
  /\ created' = created \cup {j}
  /\ Request(h, "save", j, config)

UpdateScheduledJob(h, j, config) ==
  /\ Valid(config)
  /\ Request(h, "update", j, config)
  /\ UNCHANGED created

\* A caller that sends no "enabled" key: the stored flag is looked up first, in a read
\* of its own.
UpdateScheduledJobFromMap(h, j, config) ==
  /\ file[j] # NoJob
  /\ UpdateScheduledJob(h, j, [config EXCEPT !.enabled = file[j].enabled])

DeleteScheduledJob(h, j) ==
  /\ Request(h, "delete", j, NoCall.config)
  /\ UNCHANGED created

\* Mutant: a failed read passes for an empty list.
LoadJobsUnchecked(h) ==
  /\ hpc[h] = "called"
  /\ \/ /\ ~(call[h].op = "update" /\ file[call[h].job] = NoJob)
        /\ hpc' = [hpc EXCEPT ![h] = "loaded"]
        /\ hstore' = [hstore EXCEPT ![h] = file]
        /\ overlapped' = (overlapped \/ Overlaps)
        /\ UNCHANGED <<faults, call>>
     \/ /\ call[h].op = "update" /\ file[call[h].job] = NoJob
        /\ hpc' = [hpc EXCEPT ![h] = "idle"]
        /\ call' = [call EXCEPT ![h] = NoCall]
        /\ UNCHANGED <<hstore, faults, overlapped>>
     \/ /\ faults < MaxFaults
        /\ faults' = faults + 1
        /\ hpc' = [hpc EXCEPT ![h] = "loaded"]
        /\ hstore' = [hstore EXCEPT ![h] = NoStore]
        /\ UNCHANGED <<call, overlapped>>
  /\ UNCHANGED <<processVars, clock, file, history, runVars, calls,
                 runs, created, intended, startVars>>

\* The handler reads the list.  A failed read refuses the call and writes nothing, and
\* so does an update of a job that is not in the list.
LoadJobs(h) ==
  /\ hpc[h] = "called"
  /\ \/ /\ ~(call[h].op = "update" /\ file[call[h].job] = NoJob)
        /\ hpc' = [hpc EXCEPT ![h] = "loaded"]
        /\ hstore' = [hstore EXCEPT ![h] = file]
        /\ overlapped' = (overlapped \/ Overlaps)
        /\ UNCHANGED <<faults, call>>
     \/ /\ call[h].op = "update" /\ file[call[h].job] = NoJob
        /\ hpc' = [hpc EXCEPT ![h] = "idle"]
        /\ call' = [call EXCEPT ![h] = NoCall]
        /\ UNCHANGED <<hstore, faults, overlapped>>
     \/ /\ faults < MaxFaults
        /\ faults' = faults + 1
        /\ hpc' = [hpc EXCEPT ![h] = "idle"]
        /\ call' = [call EXCEPT ![h] = NoCall]
        /\ UNCHANGED <<hstore, overlapped>>
  /\ UNCHANGED <<processVars, clock, file, history, runVars, calls,
                 runs, created, intended, startVars>>

\* The list the operation turns `store` into.
Applied(store, c, now) ==
  [store EXCEPT ![c.job] =
     IF c.op = "save" THEN NewJob(c.config, now)
     ELSE IF c.op = "delete" THEN NoJob
     ELSE IF @ = NoJob THEN NoJob
     ELSE EditedJob(@, c.config, now)]

StoreJobs(h) ==
  /\ hpc[h] = "loaded"
  /\ \/ /\ file' = Applied(hstore[h], call[h], clock)
        /\ intended' = IF overlapped THEN NoStore
                       ELSE Applied(intended, call[h], clock)
        /\ UNCHANGED faults
     \/ /\ faults < MaxFaults
        /\ faults' = faults + 1
        /\ UNCHANGED <<file, intended>>
  /\ hpc' = [hpc EXCEPT ![h] = "idle"]
  /\ hstore' = [hstore EXCEPT ![h] = NoStore]
  /\ call' = [call EXCEPT ![h] = NoCall]
  /\ UNCHANGED <<processVars, clock, history, runVars, calls, runs, created,
                 overlapped, startVars>>

----------------------------------------------------------------------------
Start == CleanupAbandonedJobs \/ ReconcileProvisionedJobs \/ RecalculateNextRuns

Step(g) ==
  \/ ClaimJob(g) \/ SkipRunningJob(g) \/ BackupReturns(g)
  \/ LoadHistory(g) \/ StoreHistory(g)
  \/ RereadJobs(g) \/ StoreRunRecord(g) \/ ReleaseJob(g)

Handle(h) == LoadJobs(h) \/ StoreJobs(h)

Next ==
  \/ Start
  \/ Crash
  \/ AdvanceClock
  \/ CheckAndRunScheduledJobs
  \/ HandleStartupRun
  \/ \E j \in Jobs : RunScheduledJobNow(j)
  \/ \E g \in Goroutines : Step(g)
  \/ \E h \in Handlers : Handle(h)
  \/ \E h \in Handlers, j \in Jobs :
       \/ DeleteScheduledJob(h, j)
       \/ \E config \in Configs :
            \/ SaveScheduledJob(h, j, config)
            \/ UpdateScheduledJob(h, j, config)
            \/ UpdateScheduledJobFromMap(h, j, config)

Spec == Init /\ [][Next]_vars

(***************************************************************************)
(* The ticker, every spawned goroutine and every handler get their turn,   *)
(* the service manager restarts the process (Restart=on-failure), and a    *)
(* backup returns in the end.  Users, crashes and failures are not owed.   *)
(***************************************************************************)
Fairness ==
  /\ WF_vars(Start)
  /\ WF_vars(CheckAndRunScheduledJobs)
  /\ \A g \in Goroutines : WF_vars(Step(g))
  /\ \A h \in Handlers : WF_vars(Handle(h))

FairSpec == Spec /\ Fairness

----------------------------------------------------------------------------
(* Safety *)

\* One job never executes twice at a time, and runningJobs is exactly the set of jobs
\* some goroutine is executing: a claim is neither shared nor left behind (claimJob,
\* releaseJob, the deferred release).
ClaimsExclusive ==
  /\ \A g, h \in Claimed : job[g] = job[h] => g = h
  /\ running = {job[g] : g \in Claimed}

\* Whatever races and failures do to job_history.json, an entry in it is the true outcome
\* of a run that ended, no run is recorded twice, and the history stays within its cap.  An
\* entry an earlier release left as running is closed when the service starts, and no later
\* write brings it back: it claims to be still running only in a service whose own clean-up
\* failed (runClaimedJob, AddJobHistory, CleanupAbandonedJobs).
HistoryHonest ==
  phase # "down" =>
    /\ Len(history) <= HistoryCap
    /\ \A i \in DOMAIN history :
         /\ history[i].status = "running" => uncleaned /\ history[i].run = 0
         /\ history[i].run # 0 => history[i].status = history[i].truth
    /\ \A i, k \in DOMAIN history :
         history[i].run = history[k].run /\ history[i].run # 0 => i = k

\* An enabled job with a schedule but no run time is skipped by every tick, in silence
\* (parseScheduleTime's comment).  No edit, run, stale list or failed write makes one: a
\* running service holds only those it found when it started and could not repair then, and
\* none when its repair succeeded (RecalculateNextRuns).
NextRunKnown == phase = "up" => Timeless(file) \subseteq unrepaired

\* Two writers have to overlap for an operation to be lost: as long as none ever did, the
\* file is what the operations would have made of it one at a time.  It is what reading
\* the jobs again after the backup is for (runClaimedJob).
NoLossWithoutOverlap == ~overlapped => file = intended

\* Starting the service repairs and provisions the store without losing anything in it:
\* every job stays, with its lastRun, and a run time that is set and whose schedule did
\* not change is kept even when it is past, so the missed run is caught up.  A step that
\* fails loses nothing either (mergeProvisionedJobs, ReconcileProvisionedJobs,
\* RecalculateNextRuns).
StartKeepsRunRecord ==
  [][phase # "up" /\ phase' # "down" =>
       \A j \in Jobs : file[j] # NoJob =>
          /\ file'[j] # NoJob
          /\ file'[j].last = file[j].last
          /\ file[j].next # Unset /\ file'[j].sched = file[j].sched
               => file'[j].next = file[j].next]_vars

(* Liveness *)

Overdue(j) ==
  file[j] # NoJob /\ file[j].enabled /\ file[j].next # Unset /\ clock > file[j].next

\* An overdue enabled job is caught up: it runs, unless an edit or a removal makes it not
\* overdue first.  A crash, a failed read or a lost update only delays it.
OverdueRuns == \A j \in Jobs : Overdue(j) ~> (j \in running \/ ~Overdue(j))

\* A claim is given back after every outcome, so a job can always run again.
ClaimReleased == \A j \in Jobs : j \in running ~> j \notin running

(* What the comments promise and the code does not keep *)

\* "Re-read from file to pick up any changes made by the GUI while backup was running":
\* writing the outcome of a run changes no job's configuration.
RunKeepsEdits ==
  [][\A g \in Goroutines : pc[g] = "loaded" /\ pc'[g] = "stored" =>
       \A j \in Jobs :
         /\ (file'[j] = NoJob) <=> (file[j] = NoJob)
         /\ file[j] # NoJob => ConfigOf(file'[j]) = ConfigOf(file[j])]_vars
===============================================================================
