--------------------------- MODULE SchedulerProofs ---------------------------
(***************************************************************************)
(* What holds of the scheduler for any number of jobs, goroutines, API     *)
(* handlers, ticks and failures.                                           *)
(***************************************************************************)
EXTENDS Scheduler, SequenceTheorems, TLAPS

(* The pure functions of JobStore *)

\* A job's next run is its next occurrence: now or later, and less than a day away
\* (calculateNextRun).
LEMMA NextRunIsNext ==
  ASSUME NEW sched \in Schedule, NEW now \in Nat, sched # Unset
  PROVE  /\ CalculateNextRun(sched, now) \in Nat
         /\ now <= CalculateNextRun(sched, now)
         /\ CalculateNextRun(sched, now) < now + DayLength
  <1>1. DayLength \in Nat \ {0}
    BY StoreAssumption
  <1>2. now % DayLength \in 0 .. DayLength - 1 /\ now % DayLength <= now
    BY <1>1, Z3
  <1>3. sched \in 0 .. DayLength - 1
    BY DEF Schedule
  <1>. QED
    BY <1>1, <1>2, <1>3 DEF CalculateNextRun, Unset

\* The run time computed for any schedule is a time, and is unset only without a schedule
\* (calculateNextRun).
LEMMA NextRunType ==
  ASSUME NEW sched \in Schedule, NEW now \in Nat
  PROVE  /\ CalculateNextRun(sched, now) \in Time
         /\ sched # Unset => CalculateNextRun(sched, now) # Unset
  <1>1. CASE sched = Unset
    BY <1>1 DEF CalculateNextRun, Time
  <1>2. CASE sched # Unset
    BY <1>2, NextRunIsNext DEF Time, Unset
  <1>. QED
    BY <1>1, <1>2

\* The entries the operations write are jobs, and an enabled one with a schedule has a run
\* time (SaveScheduledJob, UpdateScheduledJob).
LEMMA NewJobType ==
  ASSUME NEW config \in JobConfig, NEW now \in Nat
  PROVE  /\ NewJob(config, now) \in Job
         /\ NewJob(config, now).sched # Unset => NewJob(config, now).next # Unset
  BY NextRunType DEF NewJob, JobConfig, Job, Time

\* The entry an edit writes is a job, with a run time when it has a schedule
\* (UpdateScheduledJob).
LEMMA EditedJobType ==
  ASSUME NEW job0 \in Job, NEW config \in JobConfig, NEW now \in Nat
  PROVE  /\ EditedJob(job0, config, now) \in Job
         /\ EditedJob(job0, config, now).sched # Unset
              => EditedJob(job0, config, now).next # Unset
  BY NextRunType DEF EditedJob, JobConfig, Job

\* Recording a run keeps the job a job and leaves it with a run time (runClaimedJob).
LEMMA RanJobType ==
  ASSUME NEW job0 \in Job, NEW now \in Nat
  PROVE  /\ RanJob(job0, now) \in Job
         /\ ConfigOf(RanJob(job0, now)) = ConfigOf(job0)
         /\ RanJob(job0, now).sched # Unset => RanJob(job0, now).next # Unset
  <1>1. job0.sched \in Schedule
    BY DEF Job
  <1>2. /\ CalculateNextRun(job0.sched, now) \in Time
        /\ job0.sched # Unset => CalculateNextRun(job0.sched, now) # Unset
    BY <1>1, NextRunType
  <1>3. now \in Time
    BY DEF Time
  <1>. QED
    BY <1>2, <1>3 DEF RanJob, Job, ConfigOf

\* A declared job that replaces a stored one is a job and keeps its lastRun, and its
\* nextRun when it is set and the schedule is the same (mergeProvisionedJobs).
LEMMA MergedJobType ==
  ASSUME NEW stored \in Job, NEW declared \in Declared, NEW now \in Nat
  PROVE  /\ MergedJob(stored, declared, now) \in Job
         /\ MergedJob(stored, declared, now).last = stored.last
         /\ MergedJob(stored, declared, now).sched = declared.sched
         /\ stored.next # Unset /\ declared.sched = stored.sched
              => MergedJob(stored, declared, now).next = stored.next
  <1>1. CalculateNextRun(declared.sched, now) \in Time
    BY NextRunType DEF Declared
  <1>. QED
    BY <1>1 DEF MergedJob, Job, Declared

\* A declared job that is not stored becomes a job (mergeProvisionedJobs).
LEMMA AdoptedJobType ==
  ASSUME NEW declared \in Declared, NEW now \in Nat
  PROVE  AdoptedJob(declared, now) \in Job
  <1>1. CalculateNextRun(declared.sched, now) \in Time
    BY NextRunType DEF Declared
  <1>. QED
    BY <1>1 DEF AdoptedJob, Job, Declared, Time

\* Provisioning keeps every stored job with its lastRun, and its run time when it is set
\* and its schedule did not change (mergeProvisionedJobs).
LEMMA MergeKeepsRunRecord ==
  ASSUME NEW store \in Store, NEW now \in Nat
  PROVE  /\ MergeProvisionedJobs(store, now) \in Store
         /\ \A j \in Jobs : store[j] # NoJob =>
              LET merged == MergeProvisionedJobs(store, now)[j]
              IN  /\ merged # NoJob
                  /\ merged.last = store[j].last
                  /\ store[j].next # Unset /\ merged.sched = store[j].sched
                       => merged.next = store[j].next
  <1>. DEFINE merged(j) == MergeProvisionedJobs(store, now)[j]
  <1>1. ASSUME NEW j \in Jobs
        PROVE  /\ merged(j) \in Job \cup {NoJob}
               /\ store[j] # NoJob =>
                    /\ merged(j) # NoJob
                    /\ merged(j).last = store[j].last
                    /\ store[j].next # Unset /\ merged(j).sched = store[j].sched
                         => merged(j).next = store[j].next
    <2>0. store[j] \in Job \cup {NoJob} /\ Provisioned[j] \in Declared \cup {NoJob}
      BY StoreAssumption DEF Store
    <2>1. CASE Provisioned[j] = NoJob \/ ~Valid(Provisioned[j])
      <3>. merged(j) = store[j]
        BY <2>1 DEF MergeProvisionedJobs
      <3>. QED
        BY <2>0
    <2>2. CASE ~(Provisioned[j] = NoJob \/ ~Valid(Provisioned[j])) /\ store[j] = NoJob
      <3>. merged(j) = AdoptedJob(Provisioned[j], now)
        BY <2>2 DEF MergeProvisionedJobs
      <3>. QED
        BY <2>0, <2>2, AdoptedJobType
    <2>3. CASE ~(Provisioned[j] = NoJob \/ ~Valid(Provisioned[j])) /\ store[j] # NoJob
      <3>1. merged(j) = MergedJob(store[j], Provisioned[j], now)
        BY <2>3 DEF MergeProvisionedJobs
      <3>2. store[j] \in Job /\ Provisioned[j] \in Declared
        BY <2>0, <2>3
      <3>. HIDE DEF merged
      <3>. QED
        BY <3>1, <3>2, MergedJobType, StoreAssumption
    <2>. QED
      BY <2>1, <2>2, <2>3
  <1>2. MergeProvisionedJobs(store, now) \in Store
    BY <1>1 DEF MergeProvisionedJobs, Store
  <1>. QED
    BY <1>1, <1>2

\* The repair at start fills in the missing run times and touches nothing else
\* (RecalculateNextRuns).
LEMMA RepairFillsIn ==
  ASSUME NEW store \in Store, NEW now \in Nat
  PROVE  /\ RepairedStore(store, now) \in Store
         /\ Timeless(RepairedStore(store, now)) = {}
         /\ \A j \in Jobs : store[j] # NoJob =>
              LET repaired == RepairedStore(store, now)[j]
              IN  /\ repaired # NoJob
                  /\ repaired.last = store[j].last
                  /\ store[j].next # Unset => repaired.next = store[j].next
  <1>. DEFINE repaired(j) == RepairedStore(store, now)[j]
  <1>1. ASSUME NEW j \in Jobs
        PROVE  /\ repaired(j) \in Job \cup {NoJob}
               /\ Schedulable(repaired(j)) => repaired(j).next # Unset
               /\ store[j] # NoJob =>
                    /\ repaired(j) # NoJob
                    /\ repaired(j).last = store[j].last
                    /\ store[j].next # Unset => repaired(j).next = store[j].next
    <2>0. store[j] \in Job \cup {NoJob}
      BY DEF Store
    <2>1. CASE Schedulable(store[j]) /\ store[j].next = Unset
      <3>1. repaired(j) = [store[j] EXCEPT !.next = CalculateNextRun(store[j].sched, now)]
        BY <2>1 DEF RepairedStore
      <3>2. store[j] \in Job /\ store[j].sched \in Schedule /\ store[j].sched # Unset
        BY <2>0, <2>1 DEF Schedulable, Job
      <3>3. /\ CalculateNextRun(store[j].sched, now) \in Time
            /\ CalculateNextRun(store[j].sched, now) # Unset
        BY <3>2, NextRunType
      <3>. HIDE DEF repaired
      <3>4. /\ repaired(j) \in Job
            /\ repaired(j).last = store[j].last
            /\ repaired(j).next # Unset
        BY <3>1, <3>2, <3>3 DEF Job
      <3>. QED
        BY <3>4, <2>1, StoreAssumption
    <2>2. CASE ~(Schedulable(store[j]) /\ store[j].next = Unset)
      <3>. repaired(j) = store[j]
        BY <2>2 DEF RepairedStore
      <3>. QED
        BY <2>0, <2>2
    <2>. QED
      BY <2>1, <2>2
  <1>2. RepairedStore(store, now) \in Store
    BY <1>1 DEF RepairedStore, Store
  <1>3. Timeless(RepairedStore(store, now)) = {}
    BY <1>1 DEF Timeless
  <1>. QED
    BY <1>1, <1>2, <1>3

\* The list an API call writes is a store, and leaves no job without a run time that the
\* list it came from did not (SaveScheduledJob, UpdateScheduledJob, DeleteScheduledJob).
LEMMA AppliedType ==
  ASSUME NEW store \in Store, NEW c \in Call, NEW now \in Nat
  PROVE  /\ Applied(store, c, now) \in Store
         /\ Timeless(Applied(store, c, now)) \subseteq Timeless(store)
  <1>. DEFINE entry == Applied(store, c, now)[c.job]
  <1>0. c.job \in Jobs /\ c.config \in JobConfig /\ store[c.job] \in Job \cup {NoJob}
    BY DEF Call, Store
  <1>1. entry = IF c.op = "save" THEN NewJob(c.config, now)
                ELSE IF c.op = "delete" THEN NoJob
                ELSE IF store[c.job] = NoJob THEN NoJob
                ELSE EditedJob(store[c.job], c.config, now)
    BY <1>0 DEF Applied, Store
  <1>2. \A j \in Jobs \ {c.job} : Applied(store, c, now)[j] = store[j]
    BY DEF Applied, Store
  <1>3. Applied(store, c, now) = [store EXCEPT ![c.job] = entry]
    BY <1>0, <1>1 DEF Applied, Store
  <1>. HIDE DEF entry
  <1>4. entry \in Job \cup {NoJob} /\ (Schedulable(entry) => entry.next # Unset)
    BY <1>0, <1>1, NewJobType, EditedJobType DEF Schedulable
  <1>5. Applied(store, c, now) \in Store
    BY <1>0, <1>3, <1>4 DEF Store
  <1>6. Applied(store, c, now)[c.job] = entry
    BY <1>0, <1>3 DEF Store
  <1>. QED
    BY <1>2, <1>4, <1>5, <1>6 DEF Timeless

\* Writing a run record yields a store, with the same property (runClaimedJob).
LEMMA RunRecordType ==
  ASSUME NEW store \in Store, NEW j \in Jobs, store[j] # NoJob, NEW now \in Nat
  PROVE  /\ [store EXCEPT ![j] = RanJob(@, now)] \in Store
         /\ Timeless([store EXCEPT ![j] = RanJob(@, now)]) \subseteq Timeless(store)
  <1>1. store[j] \in Job
    BY DEF Store
  <1>2. /\ RanJob(store[j], now) \in Job
        /\ Schedulable(RanJob(store[j], now)) => RanJob(store[j], now).next # Unset
    BY <1>1, RanJobType DEF Schedulable
  <1>. QED
    BY <1>2 DEF Store, Timeless

\* The idle values of the model are of their type.
LEMMA IdleValues ==
  NoCall.job \in Jobs /\ NoCall \in Call /\ NoStore \in Store /\ NoEntry \in Entry
  <1>1. (CHOOSE j \in Jobs : TRUE) \in Jobs
    BY StoreAssumption
  <1>2. [enabled |-> FALSE, sched |-> Unset, startup |-> FALSE] \in JobConfig
    BY DEF JobConfig, Schedule
  <1>. QED
    BY <1>1, <1>2 DEF NoCall, Call, Operation, NoStore, Store, NoEntry, Entry, Status

\* The history never grows beyond its cap, and the newest entry is the one just added
\* (AddJobHistory).
LEMMA PrependCaps ==
  ASSUME NEW entries \in Seq(Entry), NEW entry \in Entry
  PROVE  /\ Prepend(entries, entry) \in Seq(Entry)
         /\ Len(Prepend(entries, entry)) <= HistoryCap
         /\ Prepend(entries, entry)[1] = entry
  <1>. DEFINE all == <<entry>> \o entries
  <1>1. HistoryCap \in Nat \ {0}
    BY SchedulerAssumption
  <1>2. all \in Seq(Entry) /\ Len(all) = Len(entries) + 1 /\ all[1] = entry
    OBVIOUS
  <1>. HIDE DEF all
  <1>3. CASE Len(all) > HistoryCap
    <2>1. Prepend(entries, entry) = SubSeq(all, 1, HistoryCap)
      BY <1>3 DEF Prepend, all
    <2>2. \A i \in 1 .. HistoryCap : all[i] \in Entry
      BY <1>1, <1>2, <1>3
    <2>. QED
      BY <1>1, <1>2, <1>3, <2>1, <2>2
  <1>4. CASE ~(Len(all) > HistoryCap)
    <2>1. Prepend(entries, entry) = all
      BY <1>4 DEF Prepend, all
    <2>. QED
      BY <1>1, <1>2, <1>4, <2>1
  <1>. QED
    BY <1>3, <1>4

\* Cleaning up the history changes statuses only (CleanupAbandonedJobs).
LEMMA AbandonedType ==
  ASSUME NEW entries \in Seq(Entry)
  PROVE  Abandoned(entries) \in Seq(Entry) /\ Len(Abandoned(entries)) = Len(entries)
  <1>1. ASSUME NEW i \in 1 .. Len(entries)
        PROVE  [entries[i] EXCEPT !.status = "failed"] \in Entry /\ entries[i] \in Entry
    <2>1. entries[i] \in Entry
      OBVIOUS
    <2>. QED
      BY <2>1 DEF Entry, Status
  <1>2. Abandoned(entries) \in [1 .. Len(entries) -> Entry]
    BY <1>1 DEF Abandoned
  <1>. QED
    BY <1>2

\* The steps that put goroutines to work, each on one job.
Spawns ==
  \/ CheckAndRunScheduledJobs
  \/ HandleStartupRun
  \/ \E j \in Jobs : RunScheduledJobNow(j)

\* Spawning goroutines touches idle ones only: they are all the pool has to offer.
LEMMA SpawnTakesIdle ==
  ASSUME TypeOK, NEW due \in SUBSET Jobs, Spawn(due)
  PROVE  /\ pc' \in [Goroutines -> RunPC] /\ job' \in [Goroutines -> Jobs]
         /\ \A g \in Goroutines :
              (pc'[g] = pc[g] /\ job'[g] = job[g]) \/ (pc[g] = "idle" /\ pc'[g] = "spawned")
  <1>1. PICK f \in [due -> Idle] :
          /\ pc' = [x \in Goroutines |-> IF x \in Range(f) THEN "spawned" ELSE pc[x]]
          /\ job' = [x \in Goroutines |->
                       IF x \in Range(f) THEN CHOOSE j \in due : f[j] = x ELSE job[x]]
    BY DEF Spawn
  <1>2. \A x \in Range(f) : x \in Idle /\ (CHOOSE j \in due : f[j] = x) \in due
    BY DEF Range
  <1>. QED
    BY <1>1, <1>2 DEF TypeOK, RunPC, Idle

\* So does every one of the steps that spawn, the startup run that cannot read the jobs
\* included, and it leaves all but the goroutines and the bounds alone.
LEMMA SpawnsTakeIdle ==
  ASSUME TypeOK, Spawns
  PROVE  /\ pc' \in [Goroutines -> RunPC] /\ job' \in [Goroutines -> Jobs]
         /\ \A g \in Goroutines :
              (pc'[g] = pc[g] /\ job'[g] = job[g]) \/ (pc[g] = "idle" /\ pc'[g] = "spawned")
         /\ phase = "up" /\ phase' = phase /\ running' = running
         /\ file' = file /\ history' = history
         /\ result' = result /\ snap' = snap /\ hsnap' = hsnap
         /\ UNCHANGED handlerVars /\ UNCHANGED ghostVars
  <1>1. (\E due \in SUBSET Jobs : Spawn(due)) \/ (pc' = pc /\ job' = job)
    BY DEF Spawns, CheckAndRunScheduledJobs, HandleStartupRun, RunScheduledJobNow
  <1>2. /\ pc' \in [Goroutines -> RunPC] /\ job' \in [Goroutines -> Jobs]
        /\ \A g \in Goroutines :
             (pc'[g] = pc[g] /\ job'[g] = job[g]) \/ (pc[g] = "idle" /\ pc'[g] = "spawned")
    <2>1. CASE pc' = pc /\ job' = job
      BY <2>1 DEF TypeOK
    <2>2. CASE \E due \in SUBSET Jobs : Spawn(due)
      BY <2>2, SpawnTakesIdle
    <2>. QED
      BY <1>1, <2>1, <2>2
  <1>3. /\ phase = "up" /\ phase' = phase /\ running' = running
        /\ file' = file /\ history' = history
        /\ result' = result /\ snap' = snap /\ hsnap' = hsnap
    BY DEF Spawns, CheckAndRunScheduledJobs, HandleStartupRun, RunScheduledJobNow, processVars
  <1>4. UNCHANGED handlerVars /\ UNCHANGED ghostVars
    BY DEF Spawns, CheckAndRunScheduledJobs, HandleStartupRun, RunScheduledJobNow
  <1>. QED
    BY <1>2, <1>3, <1>4

----------------------------------------------------------------------------
(* Types *)

\* The bounds of the model are numbers.
LEMMA Bounds == MaxCalls \in Nat /\ MaxFaults \in Nat
  BY SchedulerAssumption

\* A goroutine about to write the run record of a job has read that job.
JobRead == \A g \in Goroutines : pc[g] = "loaded" => snap[g][job[g]] # NoJob

TypeInv == TypeOK /\ JobRead

\* The service is installed with well-formed jobs and no goroutine at work.
LEMMA TypeInit == Init => TypeInv
  <1>. SUFFICES ASSUME Init PROVE TypeInv
    OBVIOUS
  <1>1. <<>> \in Seq(Entry) /\ 0 <= HistoryCap
    BY SchedulerAssumption
  <1>2. history \in Seq(Entry) /\ Len(history) <= HistoryCap /\ file \in Store
    BY SchedulerAssumption DEF Init
  <1>. QED
    BY <1>1, <1>2, IdleValues DEF Init, TypeInv, TypeOK, JobRead, RunPC, ClaimedPC

\* Starting, crashing and the passing of time keep the types.
LEMMA TypeStart ==
  ASSUME TypeInv, Start \/ Crash \/ AdvanceClock
  PROVE  TypeInv'
  <1>. USE DEF TypeInv, TypeOK, JobRead
  <1>1. CASE CleanupAbandonedJobs
    <2>1. history' \in Seq(Entry) /\ Len(history') <= HistoryCap
      BY <1>1, AbandonedType DEF CleanupAbandonedJobs
    <2>2. faults' \in Nat
      BY <1>1, Bounds DEF CleanupAbandonedJobs
    <2>3. uncleaned' \in BOOLEAN
      BY <1>1, Zenon DEF CleanupAbandonedJobs
    <2>. QED
      BY <1>1, <2>1, <2>2, <2>3 DEF CleanupAbandonedJobs, runVars, handlerVars
  <1>2. CASE ReconcileProvisionedJobs
    <2>1. file' \in Store /\ intended' \in Store
      BY <1>2, MergeKeepsRunRecord DEF ReconcileProvisionedJobs
    <2>2. faults' \in Nat
      BY <1>2, Bounds DEF ReconcileProvisionedJobs
    <2>. QED
      BY <1>2, <2>1, <2>2 DEF ReconcileProvisionedJobs, runVars, handlerVars, startVars
  <1>3. CASE RecalculateNextRuns
    <2>1. file' \in Store /\ intended' \in Store
      BY <1>3, RepairFillsIn DEF RecalculateNextRuns
    <2>2. faults' \in Nat /\ unrepaired' \subseteq Jobs
      BY <1>3, Bounds DEF RecalculateNextRuns, Timeless
    <2>. QED
      BY <1>3, <2>1, <2>2 DEF RecalculateNextRuns, runVars, handlerVars
  <1>4. CASE Crash
    <2>1. booted' \in BOOLEAN
      BY <1>4 DEF Crash
    <2>. QED
      <3>1. /\ pc' \in [Goroutines -> RunPC] /\ job' \in [Goroutines -> Jobs]
            /\ result' \in [Goroutines -> Entry] /\ snap' \in [Goroutines -> Store]
            /\ hsnap' \in [Goroutines -> Seq(Entry)]
            /\ JobRead'
        BY <1>4, IdleValues DEF Crash, RunPC, ClaimedPC
      <3>2. /\ hpc' \in [Handlers -> {"idle", "called", "loaded"}]
            /\ call' \in [Handlers -> Call] /\ hstore' \in [Handlers -> Store]
        BY <1>4, IdleValues DEF Crash
      <3>3. faults' \in Nat
        BY <1>4, Bounds DEF Crash
      <3>. QED
        BY <1>4, <2>1, <3>1, <3>2, <3>3 DEF Crash
  <1>5. CASE AdvanceClock
    BY <1>5
    DEF AdvanceClock, processVars, runVars, handlerVars, boundVars, ghostVars, startVars
  <1>. QED
    BY <1>1, <1>2, <1>3, <1>4, <1>5 DEF Start

\* A tick, the startup run and a run on demand put idle goroutines to work, on jobs.
LEMMA TypeSpawn ==
  ASSUME TypeInv, Spawns
  PROVE  TypeInv'
  <1>1. /\ pc' \in [Goroutines -> RunPC] /\ job' \in [Goroutines -> Jobs]
        /\ \A g \in Goroutines :
             (pc'[g] = pc[g] /\ job'[g] = job[g]) \/ (pc[g] = "idle" /\ pc'[g] = "spawned")
        /\ phase' = phase /\ running' = running /\ file' = file /\ history' = history
        /\ result' = result /\ snap' = snap /\ hsnap' = hsnap
        /\ UNCHANGED handlerVars /\ UNCHANGED ghostVars
    BY SpawnsTakeIdle DEF TypeInv
  <1>. USE DEF TypeInv, TypeOK
  <1>2. booted' \in BOOLEAN
    BY Zenon DEF Spawns, CheckAndRunScheduledJobs, HandleStartupRun, RunScheduledJobNow, processVars
  <1>3. clock' = clock
    BY DEF Spawns, CheckAndRunScheduledJobs, HandleStartupRun, RunScheduledJobNow
  <1>4. calls' \in Nat /\ faults' \in Nat
    <2>1. calls' \in {calls, calls + 1} /\ faults' \in {faults, faults + 1}
      BY DEF Spawns, CheckAndRunScheduledJobs, HandleStartupRun, RunScheduledJobNow, boundVars
    <2>. QED
      BY <2>1
  <1>5. JobRead'
    BY <1>1 DEF JobRead
  <1>. QED
    BY <1>1, <1>2, <1>3, <1>4, <1>5 DEF handlerVars, ghostVars, startVars

\* A goroutine that runs a job writes back jobs (runClaimedJob).
LEMMA TypeStep ==
  ASSUME TypeInv, NEW g \in Goroutines, Step(g)
  PROVE  TypeInv'
  <1>. USE DEF TypeInv, TypeOK, JobRead, RunPC, ClaimedPC
  <1>1. CASE ClaimJob(g)
    BY <1>1 DEF ClaimJob, handlerVars, boundVars, ghostVars, startVars
  <1>2. CASE SkipRunningJob(g)
    BY <1>2, IdleValues DEF SkipRunningJob, processVars, handlerVars, boundVars, ghostVars, startVars
  <1>3. CASE BackupReturns(g)
    <2>1. result' \in [Goroutines -> Entry]
      <3>1. PICK status \in {"success", "failed"} :
              result' = [result EXCEPT ![g] = [run |-> runs + 1, job |-> job[g],
                                               status |-> status, truth |-> status]]
        BY <1>3 DEF BackupReturns
      <3>2. [run |-> runs + 1, job |-> job[g], status |-> status, truth |-> status] \in Entry
        BY DEF Entry, Status
      <3>. QED
        BY <3>1, <3>2
    <2>. QED
      BY <1>3, <2>1 DEF BackupReturns, processVars, handlerVars, boundVars, startVars
  <1>4. CASE LoadHistory(g)
    <2>1. hsnap' \in [Goroutines -> Seq(Entry)] /\ result' \in [Goroutines -> Entry]
      <3>1. hsnap' \in {hsnap, [hsnap EXCEPT ![g] = history]}
        BY <1>4 DEF LoadHistory
      <3>2. result' \in {result, [result EXCEPT ![g] = NoEntry]}
        BY <1>4 DEF LoadHistory
      <3>3. hsnap' \in [Goroutines -> Seq(Entry)]
        BY <3>1
      <3>4. NoEntry \in Entry
        BY IdleValues
      <3>5. result' \in [Goroutines -> Entry]
        BY <3>2, <3>4
      <3>. QED
        BY <3>3, <3>5
    <2>2. /\ pc' \in [Goroutines -> RunPC]
          /\ \A x \in Goroutines : pc'[x] = "loaded" => pc[x] = "loaded"
      <3>1. \E to \in {"histLoaded", "recorded"} : pc' = [pc EXCEPT ![g] = to]
        BY <1>4 DEF LoadHistory
      <3>. QED
        BY <3>1 DEF RunPC
    <2>3. faults' \in Nat
      BY <1>4, Bounds DEF LoadHistory
    <2>. QED
      BY <1>4, <2>1, <2>2, <2>3 DEF LoadHistory, processVars, handlerVars, ghostVars, startVars
  <1>5. CASE StoreHistory(g)
    <2>1. /\ Prepend(hsnap[g], HistoryEntry(g)) \in Seq(Entry)
          /\ Len(Prepend(hsnap[g], HistoryEntry(g))) <= HistoryCap
      BY PrependCaps DEF HistoryEntry
    <2>. QED
      BY <1>5, <2>1, IdleValues DEF StoreHistory, processVars, handlerVars, ghostVars, startVars
  <1>6. CASE RereadJobs(g)
    <2>1. overlapped' \in BOOLEAN
      BY <1>6 DEF RereadJobs
    <2>2. /\ snap' \in [Goroutines -> Store] /\ pc' \in [Goroutines -> RunPC]
      <3>1. snap' \in {snap, [snap EXCEPT ![g] = file]}
        BY <1>6 DEF RereadJobs
      <3>2. \E to \in {"loaded", "stored"} : pc' = [pc EXCEPT ![g] = to]
        BY <1>6 DEF RereadJobs
      <3>3. snap' \in [Goroutines -> Store]
        BY <3>1
      <3>4. pc' \in [Goroutines -> RunPC]
        BY <3>2 DEF RunPC, ClaimedPC
      <3>. QED
        BY <3>3, <3>4
    <2>4. faults' \in Nat
      BY <1>6, Bounds DEF RereadJobs
    <2>3. JobRead'
      BY <1>6 DEF RereadJobs
    <2>. QED
      BY <1>6, <2>1, <2>2, <2>3, <2>4 DEF RereadJobs, processVars, handlerVars, startVars
  <1>7. CASE StoreRunRecord(g)
    <2>1. [snap[g] EXCEPT ![job[g]] = RanJob(@, clock)] \in Store
      BY <1>7, RunRecordType DEF StoreRunRecord
    <2>2. intended[job[g]] # NoJob
            => [intended EXCEPT ![job[g]] = RanJob(@, clock)] \in Store
      BY RunRecordType
    <2>. QED
      <3>1. file' \in Store /\ intended' \in Store
        BY <1>7, <2>1, <2>2, IdleValues DEF StoreRunRecord
      <3>3. faults' \in Nat
        BY <1>7, Bounds DEF StoreRunRecord
      <3>2. /\ snap' \in [Goroutines -> Store] /\ pc' \in [Goroutines -> RunPC]
            /\ JobRead'
        BY <1>7, IdleValues DEF StoreRunRecord
      <3>. QED
        BY <1>7, <3>1, <3>2, <3>3 DEF StoreRunRecord, processVars, handlerVars, startVars
  <1>8. CASE ReleaseJob(g)
    BY <1>8, IdleValues DEF ReleaseJob, handlerVars, boundVars, ghostVars, startVars
  <1>. QED
    BY <1>1, <1>2, <1>3, <1>4, <1>5, <1>6, <1>7, <1>8 DEF Step

\* A handler that is half done writes back the jobs it loaded.
LEMMA TypeHandle ==
  ASSUME TypeInv, NEW h \in Handlers, Handle(h)
  PROVE  TypeInv'
  <1>. USE DEF TypeInv, TypeOK, JobRead
  <1>1. CASE LoadJobs(h)
    <2>1. overlapped' \in BOOLEAN
      BY <1>1 DEF LoadJobs
    <2>2. /\ hpc' \in [Handlers -> {"idle", "called", "loaded"}]
          /\ call' \in [Handlers -> Call] /\ hstore' \in [Handlers -> Store]
      <3>1. \E to \in {"idle", "loaded"} : hpc' = [hpc EXCEPT ![h] = to]
        BY <1>1 DEF LoadJobs
      <3>2. call' \in {call, [call EXCEPT ![h] = NoCall]} /\ NoCall \in Call
        BY <1>1, IdleValues DEF LoadJobs
      <3>3. hstore' \in {hstore, [hstore EXCEPT ![h] = file]}
        BY <1>1 DEF LoadJobs
      <3>4. hpc' \in [Handlers -> {"idle", "called", "loaded"}]
        BY <3>1
      <3>5. call' \in [Handlers -> Call]
        BY <3>2
      <3>6. hstore' \in [Handlers -> Store]
        BY <3>3
      <3>. QED
        BY <3>4, <3>5, <3>6
    <2>3. faults' \in Nat
      BY <1>1, Bounds DEF LoadJobs
    <2>. QED
      BY <1>1, <2>1, <2>2, <2>3 DEF LoadJobs, processVars, runVars, startVars
  <1>2. CASE StoreJobs(h)
    <2>1. /\ Applied(hstore[h], call[h], clock) \in Store
          /\ Applied(intended, call[h], clock) \in Store
      BY AppliedType
    <2>. QED
      BY <1>2, <2>1, IdleValues DEF StoreJobs, processVars, runVars, startVars
  <1>. QED
    BY <1>1, <1>2 DEF Handle

\* An API call keeps the types.
LEMMA TypeCall ==
  ASSUME TypeInv, NEW h \in Handlers, NEW j \in Jobs,
         \/ DeleteScheduledJob(h, j)
         \/ \E config \in Configs :
              \/ SaveScheduledJob(h, j, config)
              \/ UpdateScheduledJob(h, j, config)
              \/ UpdateScheduledJobFromMap(h, j, config)
  PROVE  TypeInv'
  <1>. USE DEF TypeInv, TypeOK, JobRead
  <1>1. ASSUME NEW op \in Operation, NEW config \in JobConfig,
               Request(h, op, j, config), created' \in SUBSET Jobs
        PROVE  TypeInv'
    <2>. [op |-> op, job |-> j, config |-> config] \in Call
      BY DEF Call
    <2>. QED
      BY <1>1 DEF Request, processVars, runVars, startVars
  <1>2. CASE DeleteScheduledJob(h, j)
    <2>. NoCall.config \in JobConfig
      BY IdleValues DEF Call
    <2>. QED
      BY <1>1, <1>2 DEF DeleteScheduledJob, Operation
  <1>3. ASSUME NEW config \in Configs,
               \/ SaveScheduledJob(h, j, config) \/ UpdateScheduledJob(h, j, config)
        PROVE  TypeInv'
    <2>. config \in JobConfig
      BY SchedulerAssumption
    <2>. QED
      BY <1>1, <1>3 DEF SaveScheduledJob, UpdateScheduledJob, Operation
  <1>4. ASSUME NEW config \in Configs, UpdateScheduledJobFromMap(h, j, config)
        PROVE  TypeInv'
    <2>. file[j].enabled \in BOOLEAN /\ config \in JobConfig
      BY <1>4, SchedulerAssumption DEF UpdateScheduledJobFromMap, Store, Job
    <2>. [config EXCEPT !.enabled = file[j].enabled] \in JobConfig
      BY DEF JobConfig
    <2>. QED
      BY <1>1, <1>4 DEF UpdateScheduledJobFromMap, UpdateScheduledJob, Operation
  <1>. QED
    BY <1>2, <1>3, <1>4

\* The types hold throughout.
LEMMA TypeInvariant == Spec => []TypeInv
  <1>1. TypeInv /\ [Next]_vars => TypeInv'
    <2>. SUFFICES ASSUME TypeInv, [Next]_vars PROVE TypeInv'
      OBVIOUS
    <2>1. CASE UNCHANGED vars
      BY <2>1
      DEF vars, processVars, runVars, handlerVars, boundVars, ghostVars, startVars, TypeInv,
          TypeOK, JobRead
    <2>. QED
      BY <2>1, TypeStart, TypeSpawn, TypeStep, TypeHandle, TypeCall DEF Next, Spawns
  <1>. QED
    BY TypeInit, <1>1, PTL DEF Spec

\* Every variable keeps its type, and the history its cap (HistoryCap, 50 in the code), for
\* any number of jobs, runs, calls and failures.
THEOREM TypeCorrect == Spec => []TypeOK
  <1>1. TypeInv => TypeOK
    BY DEF TypeInv
  <1>. QED
    BY <1>1, TypeInvariant, PTL

----------------------------------------------------------------------------
(* One run of a job at a time *)

\* At first no job is claimed.
LEMMA ClaimsInit == Init => ClaimsExclusive
  BY DEF Init, ClaimsExclusive, Claimed, ClaimedPC

\* What a step does to the goroutines it does not move is nothing: the claims stand.
LEMMA ClaimsUnmoved ==
  ASSUME TypeOK, ClaimsExclusive, running' = running,
         \A g \in Goroutines :
           /\ (pc'[g] \in ClaimedPC) <=> (pc[g] \in ClaimedPC)
           /\ pc[g] \in ClaimedPC => job'[g] = job[g]
  PROVE  ClaimsExclusive'
  <1>1. Claimed' = Claimed
    BY DEF Claimed
  <1>2. \A g \in Claimed : job'[g] = job[g]
    BY DEF Claimed
  <1>. QED
    BY <1>1, <1>2 DEF ClaimsExclusive

\* Each step keeps the claims of two goroutines on one job apart (claimJob, releaseJob).
LEMMA ClaimsStep ==
  ASSUME TypeOK, ClaimsExclusive, NEW g \in Goroutines, Step(g)
  PROVE  ClaimsExclusive'
  <1>1. CASE ClaimJob(g)
    <2>1. Claimed' = Claimed \cup {g} /\ g \notin Claimed
      BY <1>1 DEF ClaimJob, Claimed, ClaimedPC, TypeOK
    <2>2. job' = job /\ running' = running \cup {job[g]} /\ job[g] \notin running
      BY <1>1 DEF ClaimJob
    <2>. QED
      BY <2>1, <2>2 DEF ClaimsExclusive
  <1>2. CASE ReleaseJob(g)
    <2>1. Claimed' = Claimed \ {g} /\ g \in Claimed
      BY <1>2 DEF ReleaseJob, Claimed, ClaimedPC, TypeOK
    <2>2. running' = running \ {job[g]} /\ \A h \in Goroutines \ {g} : job'[h] = job[h]
      BY <1>2 DEF ReleaseJob, TypeOK
    <2>. QED
      BY <2>1, <2>2 DEF ClaimsExclusive, Claimed
  <1>3. ASSUME SkipRunningJob(g) \/ BackupReturns(g) \/ LoadHistory(g)
                 \/ StoreHistory(g) \/ RereadJobs(g) \/ StoreRunRecord(g)
        PROVE  ClaimsExclusive'
    <2>1. running' = running
      BY <1>3
      DEF SkipRunningJob, BackupReturns, LoadHistory, StoreHistory, RereadJobs,
          StoreRunRecord, processVars
    <2>2. \A h \in Goroutines :
            /\ (pc'[h] \in ClaimedPC) <=> (pc[h] \in ClaimedPC)
            /\ pc[h] \in ClaimedPC => job'[h] = job[h]
      BY <1>3
      DEF SkipRunningJob, BackupReturns, LoadHistory, StoreHistory, RereadJobs,
          StoreRunRecord, ClaimedPC, TypeOK
    <2>. QED
      BY <2>1, <2>2, ClaimsUnmoved
  <1>. QED
    BY <1>1, <1>2, <1>3 DEF Step

\* A job is executed by one goroutine at a time, and runningJobs holds exactly the jobs in
\* execution: whatever the ticker, the startup runner and "run now" spawn, and wherever a
\* run fails, no claim is shared and none is left behind (claimJob, releaseJob).
THEOREM ClaimsAreExclusive == Spec => []ClaimsExclusive
  <1>1. TypeInv /\ ClaimsExclusive /\ [Next]_vars => ClaimsExclusive'
    <2>. SUFFICES ASSUME TypeInv, ClaimsExclusive, [Next]_vars PROVE ClaimsExclusive'
      OBVIOUS
    <2>. TypeOK
      BY DEF TypeInv
    <2>1. ASSUME running' = running, pc' = pc, job' = job
          PROVE  ClaimsExclusive'
      BY <2>1, ClaimsUnmoved
    <2>2. CASE Crash
      <3>1. Claimed' = {} /\ running' = {}
        BY <2>2 DEF Crash, Claimed, ClaimedPC
      <3>. QED
        BY <3>1 DEF ClaimsExclusive
    <2>3. CASE Spawns
      BY <2>3, SpawnsTakeIdle, ClaimsUnmoved DEF ClaimedPC
    <2>4. CASE Start \/ AdvanceClock \/ UNCHANGED vars
      BY <2>1, <2>4
      DEF Start, CleanupAbandonedJobs, ReconcileProvisionedJobs, RecalculateNextRuns,
          AdvanceClock, vars, runVars, processVars
    <2>5. ASSUME NEW h \in Handlers, Handle(h) PROVE ClaimsExclusive'
      BY <2>1, <2>5 DEF Handle, LoadJobs, StoreJobs, runVars, processVars
    <2>6. ASSUME NEW h \in Handlers, NEW op, NEW j, NEW config, Request(h, op, j, config)
          PROVE  ClaimsExclusive'
      BY <2>1, <2>6 DEF Request, runVars, processVars
    <2>. QED
      BY <2>2, <2>3, <2>4, <2>5, <2>6, ClaimsStep
      DEF Next, Spawns, DeleteScheduledJob, SaveScheduledJob, UpdateScheduledJobFromMap,
          UpdateScheduledJob
  <1>. QED
    BY TypeInvariant, ClaimsInit, <1>1, PTL DEF Spec

----------------------------------------------------------------------------
(* No run time goes missing *)

\* Only a service that is up runs jobs and serves calls.
Quiet == phase # "up" => /\ \A g \in Goroutines : pc[g] = "idle"
                         /\ \A h \in Handlers : hpc[h] = "idle"

\* Nor do the lists about to be written back hold a job without a run time, other than the
\* ones the start could not repair.
KnownInv ==
  /\ Quiet
  /\ \A g \in Goroutines : pc[g] = "loaded" => Timeless(snap[g]) \subseteq unrepaired
  /\ \A h \in Handlers : hpc[h] = "loaded" => Timeless(hstore[h]) \subseteq unrepaired
  /\ NextRunKnown

\* At first the service is down, and nobody has read a list.
LEMMA KnownInit == Init => KnownInv
  BY DEF Init, KnownInv, Quiet, NextRunKnown

\* A step that moves no list keeps the invariant.
LEMMA KnownUnmoved ==
  ASSUME KnownInv, phase = "up", phase' = phase, file' = file, unrepaired' = unrepaired,
         \A g \in Goroutines :
           pc'[g] = "loaded" => pc[g] = "loaded" /\ snap'[g] = snap[g],
         \A h \in Handlers :
           hpc'[h] = "loaded" => hpc[h] = "loaded" /\ hstore'[h] = hstore[h]
  PROVE  KnownInv'
  <1>1. NextRunKnown'
    BY DEF KnownInv, NextRunKnown, Timeless
  <1>2. \A g \in Goroutines : pc'[g] = "loaded" => Timeless(snap'[g]) \subseteq unrepaired
    BY DEF KnownInv
  <1>3. \A h \in Handlers : hpc'[h] = "loaded" => Timeless(hstore'[h]) \subseteq unrepaired
    BY DEF KnownInv
  <1>. QED
    BY <1>1, <1>2, <1>3 DEF KnownInv, Quiet, Timeless

\* A list that is written in a running service adds no job without a run time to those the
\* writer had read.
LEMMA KnownStored ==
  ASSUME KnownInv, phase = "up", phase' = phase, unrepaired' = unrepaired,
         Timeless(file') \subseteq unrepaired,
         \A g \in Goroutines :
           pc'[g] = "loaded" => pc[g] = "loaded" /\ snap'[g] = snap[g],
         \A h \in Handlers :
           hpc'[h] = "loaded" => hpc[h] = "loaded" /\ hstore'[h] = hstore[h]
  PROVE  KnownInv'
  <1>1. NextRunKnown'
    BY DEF NextRunKnown, Timeless
  <1>2. \A g \in Goroutines : pc'[g] = "loaded" => Timeless(snap'[g]) \subseteq unrepaired
    BY DEF KnownInv
  <1>3. \A h \in Handlers : hpc'[h] = "loaded" => Timeless(hstore'[h]) \subseteq unrepaired
    BY DEF KnownInv
  <1>. QED
    BY <1>1, <1>2, <1>3 DEF KnownInv, Quiet, Timeless

\* A goroutine records a run time for the job it ran.
LEMMA KnownStep ==
  ASSUME TypeInv, KnownInv, NEW g \in Goroutines, Step(g)
  PROVE  KnownInv'
  <1>. USE DEF TypeInv, TypeOK, JobRead
  <1>0. phase = "up"
    <2>. pc[g] # "idle"
      BY DEF Step, ClaimJob, SkipRunningJob, BackupReturns, LoadHistory, StoreHistory,
             RereadJobs, StoreRunRecord, ReleaseJob
    <2>. QED
      BY DEF KnownInv, Quiet
  <1>1. Timeless(file) \subseteq unrepaired
    BY <1>0 DEF KnownInv, NextRunKnown
  <1>2. CASE RereadJobs(g)
    <2>1. /\ phase' = phase /\ file' = file /\ unrepaired' = unrepaired
          /\ hpc' = hpc /\ hstore' = hstore
      BY <1>2 DEF RereadJobs, processVars, handlerVars, startVars
    <2>2. \A x \in Goroutines : pc'[x] = "loaded" =>
            snap'[x] = file \/ (pc[x] = "loaded" /\ snap'[x] = snap[x])
      BY <1>2 DEF RereadJobs
    <2>3. \A x \in Goroutines : pc'[x] = "loaded" => Timeless(snap'[x]) \subseteq unrepaired
      BY <1>1, <2>2 DEF KnownInv
    <2>4. \A h \in Handlers : hpc[h] = "loaded" => Timeless(hstore[h]) \subseteq unrepaired
      BY DEF KnownInv
    <2>. QED
      BY <1>0, <1>1, <2>1, <2>3, <2>4 DEF KnownInv, Quiet, NextRunKnown, Timeless
  <1>3. CASE StoreRunRecord(g)
    <2>1. pc[g] = "loaded" /\ snap[g] \in Store /\ job[g] \in Jobs /\ snap[g][job[g]] # NoJob
      BY <1>3 DEF StoreRunRecord
    <2>2. Timeless([snap[g] EXCEPT ![job[g]] = RanJob(@, clock)]) \subseteq unrepaired
      BY <2>1, RunRecordType DEF KnownInv
    <2>3. Timeless(file') \subseteq unrepaired
      BY <1>1, <1>3, <2>2 DEF StoreRunRecord
    <2>4. /\ phase' = phase /\ unrepaired' = unrepaired /\ hpc' = hpc /\ hstore' = hstore
      BY <1>3 DEF StoreRunRecord, processVars, handlerVars, startVars
    <2>5. \A x \in Goroutines : pc'[x] = "loaded" => pc[x] = "loaded" /\ snap'[x] = snap[x]
      BY <1>3 DEF StoreRunRecord
    <2>. QED
      BY <1>0, <2>3, <2>4, <2>5, KnownStored
  <1>4. ASSUME ClaimJob(g) \/ SkipRunningJob(g) \/ BackupReturns(g) \/ LoadHistory(g)
                 \/ StoreHistory(g) \/ ReleaseJob(g)
        PROVE  KnownInv'
    <2>1. /\ phase' = phase /\ file' = file /\ snap' = snap /\ unrepaired' = unrepaired
          /\ hpc' = hpc /\ hstore' = hstore
      BY <1>4
      DEF ClaimJob, SkipRunningJob, BackupReturns, LoadHistory, StoreHistory, ReleaseJob,
          processVars, handlerVars, ghostVars, startVars
    <2>2. \A x \in Goroutines : pc'[x] = "loaded" => pc[x] = "loaded"
      BY <1>4
      DEF ClaimJob, SkipRunningJob, BackupReturns, LoadHistory, StoreHistory, ReleaseJob
    <2>. QED
      BY <1>0, <2>1, <2>2, KnownUnmoved
  <1>. QED
    BY <1>2, <1>3, <1>4 DEF Step

\* A handler saves no job without a run time.
LEMMA KnownHandle ==
  ASSUME TypeInv, KnownInv, NEW h \in Handlers, Handle(h)
  PROVE  KnownInv'
  <1>. USE DEF TypeInv, TypeOK
  <1>0. phase = "up"
    BY DEF Handle, LoadJobs, StoreJobs, KnownInv, Quiet
  <1>1. Timeless(file) \subseteq unrepaired
    BY <1>0 DEF KnownInv, NextRunKnown
  <1>2. CASE LoadJobs(h)
    <2>1. /\ phase' = phase /\ file' = file /\ unrepaired' = unrepaired
          /\ pc' = pc /\ snap' = snap
      BY <1>2 DEF LoadJobs, processVars, runVars, startVars
    <2>2. \A x \in Handlers : hpc'[x] = "loaded" =>
            hstore'[x] = file \/ (hpc[x] = "loaded" /\ hstore'[x] = hstore[x])
      BY <1>2 DEF LoadJobs
    <2>3. \A x \in Handlers : hpc'[x] = "loaded" => Timeless(hstore'[x]) \subseteq unrepaired
      BY <1>1, <2>2 DEF KnownInv
    <2>4. \A g \in Goroutines : pc[g] = "loaded" => Timeless(snap[g]) \subseteq unrepaired
      BY DEF KnownInv
    <2>. QED
      BY <1>0, <1>1, <2>1, <2>3, <2>4 DEF KnownInv, Quiet, NextRunKnown, Timeless
  <1>3. CASE StoreJobs(h)
    <2>1. hpc[h] = "loaded" /\ hstore[h] \in Store /\ call[h] \in Call
      BY <1>3 DEF StoreJobs
    <2>2. Timeless(Applied(hstore[h], call[h], clock)) \subseteq unrepaired
      BY <2>1, AppliedType DEF KnownInv
    <2>3. Timeless(file') \subseteq unrepaired
      BY <1>1, <1>3, <2>2 DEF StoreJobs
    <2>4. /\ phase' = phase /\ unrepaired' = unrepaired /\ pc' = pc /\ snap' = snap
      BY <1>3 DEF StoreJobs, processVars, runVars, startVars
    <2>5. \A x \in Handlers : hpc'[x] = "loaded" => hpc[x] = "loaded" /\ hstore'[x] = hstore[x]
      BY <1>3 DEF StoreJobs
    <2>. QED
      BY <1>0, <2>3, <2>4, <2>5, KnownStored
  <1>. QED
    BY <1>2, <1>3 DEF Handle

\* RecalculateNextRuns fills in what the merge of the provisioned jobs left unset, or fails
\* and leaves what it found.
LEMMA KnownStart ==
  ASSUME TypeInv, KnownInv, Start \/ Crash \/ AdvanceClock
  PROVE  KnownInv'
  <1>. USE DEF TypeInv, TypeOK, Quiet
  <1>1. CASE CleanupAbandonedJobs
    BY <1>1 DEF CleanupAbandonedJobs, runVars, handlerVars, KnownInv, NextRunKnown
  <1>2. CASE ReconcileProvisionedJobs
    BY <1>2 DEF ReconcileProvisionedJobs, runVars, handlerVars, KnownInv, NextRunKnown
  <1>3. CASE RecalculateNextRuns
    <2>1. Timeless(file') \subseteq unrepaired'
      BY <1>3, RepairFillsIn DEF RecalculateNextRuns
    <2>2. NextRunKnown'
      BY <2>1 DEF NextRunKnown, Timeless
    <2>3. phase # "up" /\ pc' = pc /\ hpc' = hpc
      BY <1>3 DEF RecalculateNextRuns, runVars, handlerVars
    <2>. QED
      BY <2>2, <2>3 DEF KnownInv
  <1>4. CASE Crash
    BY <1>4 DEF Crash, KnownInv, NextRunKnown
  <1>5. CASE AdvanceClock
    <2>1. /\ phase' = phase /\ file' = file /\ unrepaired' = unrepaired
          /\ pc' = pc /\ snap' = snap /\ hpc' = hpc /\ hstore' = hstore
      BY <1>5 DEF AdvanceClock, processVars, runVars, handlerVars, ghostVars, startVars
    <2>. QED
      BY <2>1 DEF KnownInv, NextRunKnown, Timeless
  <1>. QED
    BY <1>1, <1>2, <1>3, <1>4, <1>5 DEF Start

\* Spawning a goroutine changes no job.
LEMMA KnownSpawn ==
  ASSUME TypeInv, KnownInv, Spawns
  PROVE  KnownInv'
  <1>1. /\ phase = "up" /\ phase' = phase /\ file' = file /\ snap' = snap
        /\ \A g \in Goroutines : pc'[g] = "loaded" => pc[g] = "loaded"
        /\ UNCHANGED handlerVars /\ UNCHANGED ghostVars
    BY SpawnsTakeIdle DEF TypeInv
  <1>. QED
    BY <1>1, KnownUnmoved DEF handlerVars, ghostVars, startVars

\* An API call that has only come in changes no job.
LEMMA KnownRequest ==
  ASSUME TypeInv, KnownInv, NEW h \in Handlers, NEW op, NEW j, NEW config,
         Request(h, op, j, config)
  PROVE  KnownInv'
  <1>1. /\ phase = "up" /\ phase' = phase /\ file' = file /\ unrepaired' = unrepaired
        /\ pc' = pc /\ snap' = snap /\ hstore' = hstore
    BY DEF Request, processVars, runVars, startVars
  <1>2. \A x \in Handlers : hpc'[x] = "loaded" => hpc[x] = "loaded"
    BY DEF Request, TypeInv, TypeOK
  <1>. QED
    BY <1>1, <1>2, KnownUnmoved

\* Jobs have their run times throughout.
LEMMA KnownInvariant == Spec => []KnownInv
  <1>1. TypeInv /\ KnownInv /\ [Next]_vars => KnownInv'
    <2>. SUFFICES ASSUME TypeInv, KnownInv, [Next]_vars PROVE KnownInv'
      OBVIOUS
    <2>1. CASE UNCHANGED vars
      BY <2>1
      DEF vars, processVars, runVars, handlerVars, ghostVars, startVars, KnownInv, Quiet,
          NextRunKnown, Timeless
    <2>. QED
      BY <2>1, KnownStart, KnownSpawn, KnownStep, KnownHandle, KnownRequest
      DEF Next, Spawns, DeleteScheduledJob, SaveScheduledJob, UpdateScheduledJobFromMap,
          UpdateScheduledJob
  <1>. QED
    BY TypeInvariant, KnownInit, <1>1, PTL DEF Spec

\* The ticker skips no enabled job with a schedule for want of a run time, whatever edits,
\* runs, stale lists and failed writes the store went through, but for the jobs that had
\* none when the service started and that its repair, failing, left as they were
\* (parseScheduleTime, RecalculateNextRuns).
THEOREM NextRunsKnown == Spec => []NextRunKnown
  <1>1. KnownInv => NextRunKnown
    BY DEF KnownInv
  <1>. QED
    BY <1>1, KnownInvariant, PTL

\* Starting the service loses no stored job, no lastRun and no pending run time, however
\* long it was down, whatever config.json declares and whichever step of the start fails
\* (mergeProvisionedJobs, ReconcileProvisionedJobs, RecalculateNextRuns).
THEOREM StartPreserves == Spec => StartKeepsRunRecord
  <1>. DEFINE Kept ==
         phase # "up" /\ phase' # "down" =>
           \A j \in Jobs : file[j] # NoJob =>
             /\ file'[j] # NoJob
             /\ file'[j].last = file[j].last
             /\ file[j].next # Unset /\ file'[j].sched = file[j].sched
                  => file'[j].next = file[j].next
  <1>1. TypeInv /\ KnownInv /\ [Next]_vars => [Kept]_vars
    <2>. SUFFICES ASSUME TypeInv, KnownInv, Next, phase # "up", phase' # "down" PROVE Kept
      OBVIOUS
    <2>. USE DEF TypeInv, TypeOK
    <2>1. CASE file' = MergeProvisionedJobs(file, clock)
      BY <2>1, MergeKeepsRunRecord
    <2>2. CASE file' = RepairedStore(file, clock)
      BY <2>2, RepairFillsIn
    <2>3. CASE file' = file
      BY <2>3
    <2>4. CASE Start \/ Crash \/ AdvanceClock
      BY <2>1, <2>2, <2>3, <2>4
      DEF Start, CleanupAbandonedJobs, ReconcileProvisionedJobs, RecalculateNextRuns, Crash,
          AdvanceClock
    <2>5. ASSUME NEW g \in Goroutines, Step(g) PROVE Kept
      <3>. pc[g] = "idle"
        BY DEF KnownInv, Quiet
      <3>. QED
        BY <2>5
        DEF Step, ClaimJob, SkipRunningJob, BackupReturns, LoadHistory, StoreHistory,
            RereadJobs, StoreRunRecord, ReleaseJob
    <2>6. ASSUME NEW h \in Handlers, Handle(h) PROVE Kept
      BY <2>6 DEF Handle, LoadJobs, StoreJobs, KnownInv, Quiet
    <2>7. CASE Spawns
      BY <2>7, SpawnsTakeIdle
    <2>8. ASSUME NEW h \in Handlers, NEW j \in Jobs,
                 \/ DeleteScheduledJob(h, j)
                 \/ \E config \in Configs :
                      \/ SaveScheduledJob(h, j, config)
                      \/ UpdateScheduledJob(h, j, config)
                      \/ UpdateScheduledJobFromMap(h, j, config)
          PROVE  Kept
      <3>1. \E op, config : Request(h, op, j, config)
        BY <2>8
        DEF DeleteScheduledJob, SaveScheduledJob, UpdateScheduledJob, UpdateScheduledJobFromMap
      <3>. QED
        BY <3>1 DEF Request
    <2>. QED
      BY <2>4, <2>5, <2>6, <2>7, <2>8 DEF Next, Spawns
  <1>. QED
    BY TypeInvariant, KnownInvariant, <1>1, PTL DEF Spec, StartKeepsRunRecord

----------------------------------------------------------------------------
(* No operation is lost while nobody overlaps *)

\* Between reading and writing the jobs file.
Loaded == {g \in Goroutines : pc[g] = "loaded"}
Loading == {h \in Handlers : hpc[h] = "loaded"}

\* While no two read-modify-writes overlapped, whoever is in one is alone in it and holds
\* the file as it stands, and the file is what the operations intended.
LossInv ==
  ~overlapped =>
    /\ file = intended
    /\ \A g \in Loaded : snap[g] = file
    /\ \A h \in Loading : hstore[h] = file
    /\ \A g, x \in Loaded : g = x
    /\ \A h, x \in Loading : h = x
    /\ Loaded = {} \/ Loading = {}

\* At first nobody has read the file.
LEMMA LossInit == Init => LossInv
  BY DEF Init, LossInv, Loaded, Loading

\* A step that moves neither the file nor anyone who read it keeps the invariant.
LEMMA LossUnmoved ==
  ASSUME LossInv, file' = file, intended' = intended, overlapped' = overlapped,
         Loaded' \subseteq Loaded, Loading' \subseteq Loading,
         snap' = snap, hstore' = hstore
  PROVE  LossInv'
  BY DEF LossInv

\* Writing the run record is, for a goroutine alone, what the operation intended
\* (runClaimedJob).
LEMMA LossStep ==
  ASSUME TypeInv, LossInv, NEW g \in Goroutines, Step(g)
  PROVE  LossInv'
  <1>. USE DEF TypeInv, TypeOK, JobRead
  <1>1. CASE RereadJobs(g)
    <2>1. CASE pc' = [pc EXCEPT ![g] = "loaded"]
      <3>1. /\ snap' = [snap EXCEPT ![g] = file]
            /\ Overlaps => overlapped'
            /\ overlapped => overlapped'
        BY <1>1, <2>1 DEF RereadJobs
      <3>2. Loaded' = Loaded \cup {g} /\ Loading' = Loading
        BY <1>1, <2>1 DEF RereadJobs, Loaded, Loading, handlerVars
      <3>3. ~Overlaps => Loaded = {} /\ Loading = {}
        BY DEF Overlaps, Loaded, Loading
      <3>4. file' = file /\ intended' = intended
        BY <1>1 DEF RereadJobs
      <3>5. ~overlapped' => Loaded' = {g} /\ Loading' = {} /\ file = intended
        BY <3>1, <3>2, <3>3 DEF LossInv
      <3>6. snap'[g] = file'
        BY <3>1, <3>4
      <3>. QED
        BY <3>4, <3>5, <3>6 DEF LossInv
    <2>2. CASE pc' # [pc EXCEPT ![g] = "loaded"]
      <3>1. pc' = [pc EXCEPT ![g] = "stored"] /\ snap' = snap /\ overlapped' = overlapped
        BY <1>1, <2>2 DEF RereadJobs
      <3>. QED
        BY <1>1, <3>1, LossUnmoved DEF RereadJobs, handlerVars, Loaded, Loading
    <2>. QED
      BY <2>1, <2>2
  <1>2. CASE StoreRunRecord(g)
    <2>1. g \in Loaded /\ Loaded' = Loaded \ {g} /\ Loading' = Loading
      BY <1>2 DEF StoreRunRecord, Loaded, Loading, handlerVars
    <2>2. overlapped' = overlapped
      BY <1>2 DEF StoreRunRecord
    <2>. SUFFICES ASSUME ~overlapped PROVE LossInv'
      BY <2>2 DEF LossInv
    <2>3. Loaded = {g} /\ Loading = {} /\ snap[g] = file /\ file = intended
      BY <2>1 DEF LossInv
    <2>4. file' = intended'
      <3>1. intended[job[g]] # NoJob
        BY <1>2, <2>3 DEF StoreRunRecord
      <3>2. CASE /\ file' = [snap[g] EXCEPT ![job[g]] = RanJob(@, clock)]
                 /\ intended' = [intended EXCEPT ![job[g]] = RanJob(@, clock)]
        BY <2>3, <3>2
      <3>3. CASE file' = file /\ intended' = intended
        BY <2>3, <3>3
      <3>. QED
        BY <1>2, <3>1, <3>2, <3>3 DEF StoreRunRecord
    <2>. QED
      BY <2>1, <2>3, <2>4 DEF LossInv
  <1>3. ASSUME ClaimJob(g) \/ SkipRunningJob(g) \/ BackupReturns(g) \/ LoadHistory(g)
                 \/ StoreHistory(g) \/ ReleaseJob(g)
        PROVE  LossInv'
    <2>1. /\ file' = file /\ intended' = intended /\ overlapped' = overlapped
          /\ snap' = snap /\ hpc' = hpc /\ hstore' = hstore
      BY <1>3
      DEF ClaimJob, SkipRunningJob, BackupReturns, LoadHistory, StoreHistory, ReleaseJob,
          handlerVars, ghostVars
    <2>2. Loaded' \subseteq Loaded /\ Loading' = Loading
      BY <1>3, <2>1
      DEF ClaimJob, SkipRunningJob, BackupReturns, LoadHistory, StoreHistory, ReleaseJob,
          Loaded, Loading
    <2>. QED
      BY <2>1, <2>2, LossUnmoved
  <1>. QED
    BY <1>1, <1>2, <1>3 DEF Step

\* So is the list a handler writes, when it is alone (SaveScheduledJob, UpdateScheduledJob,
\* DeleteScheduledJob).
LEMMA LossHandle ==
  ASSUME TypeInv, LossInv, NEW h \in Handlers, Handle(h)
  PROVE  LossInv'
  <1>. USE DEF TypeInv, TypeOK
  <1>1. CASE LoadJobs(h)
    <2>1. file' = file /\ intended' = intended /\ snap' = snap /\ Loaded' = Loaded
      BY <1>1 DEF LoadJobs, runVars, Loaded
    <2>2. CASE hpc' = [hpc EXCEPT ![h] = "loaded"]
      <3>1. /\ hstore' = [hstore EXCEPT ![h] = file]
            /\ Overlaps => overlapped'
            /\ overlapped => overlapped'
        BY <1>1, <2>2 DEF LoadJobs
      <3>2. Loading' = Loading \cup {h}
        BY <2>2 DEF Loading
      <3>3. ~Overlaps => Loaded = {} /\ Loading = {}
        BY DEF Overlaps, Loaded, Loading
      <3>4. ~overlapped' => Loaded' = {} /\ Loading' = {h} /\ file = intended
        BY <2>1, <3>1, <3>2, <3>3 DEF LossInv
      <3>5. hstore'[h] = file'
        BY <2>1, <3>1
      <3>. QED
        BY <2>1, <3>4, <3>5 DEF LossInv
    <2>3. CASE hpc' # [hpc EXCEPT ![h] = "loaded"]
      <3>1. hpc' = [hpc EXCEPT ![h] = "idle"] /\ hstore' = hstore /\ overlapped' = overlapped
        BY <1>1, <2>3 DEF LoadJobs
      <3>. QED
        BY <2>1, <3>1, LossUnmoved DEF Loading
    <2>. QED
      BY <2>2, <2>3
  <1>2. CASE StoreJobs(h)
    <2>1. h \in Loading /\ Loading' = Loading \ {h} /\ Loaded' = Loaded
      BY <1>2 DEF StoreJobs, Loaded, Loading, runVars
    <2>2. overlapped' = overlapped
      BY <1>2 DEF StoreJobs
    <2>. SUFFICES ASSUME ~overlapped PROVE LossInv'
      BY <2>2 DEF LossInv
    <2>3. Loading = {h} /\ Loaded = {} /\ hstore[h] = file /\ file = intended
      BY <2>1 DEF LossInv
    <2>4. file' = intended'
      BY <1>2, <2>3 DEF StoreJobs
    <2>. QED
      BY <2>1, <2>3, <2>4 DEF LossInv
  <1>. QED
    BY <1>1, <1>2 DEF Handle

\* Starting writes the file while nobody else is there, and a crash begins afresh.
LEMMA LossStart ==
  ASSUME KnownInv, LossInv, Start \/ Crash \/ AdvanceClock
  PROVE  LossInv'
  <1>1. CASE Crash
    BY <1>1 DEF Crash, LossInv, Loaded, Loading
  <1>2. CASE CleanupAbandonedJobs \/ AdvanceClock
    BY <1>2, LossUnmoved
    DEF CleanupAbandonedJobs, AdvanceClock, runVars, handlerVars, ghostVars, Loaded, Loading
  <1>3. CASE ReconcileProvisionedJobs \/ RecalculateNextRuns
    <2>1. Loaded = {} /\ Loading = {}
      BY <1>3
      DEF ReconcileProvisionedJobs, RecalculateNextRuns, KnownInv, Quiet, Loaded, Loading
    <2>2. Loaded' = Loaded /\ Loading' = Loading /\ overlapped' = overlapped
      BY <1>3
      DEF ReconcileProvisionedJobs, RecalculateNextRuns, runVars, handlerVars, Loaded,
          Loading
    <2>3. file' = intended' \/ (file' = file /\ intended' = intended)
      BY <1>3 DEF ReconcileProvisionedJobs, RecalculateNextRuns
    <2>. QED
      BY <2>1, <2>2, <2>3 DEF LossInv
  <1>. QED
    BY <1>1, <1>2, <1>3 DEF Start

\* Spawning a goroutine reads no list for it to write back.
LEMMA LossSpawn ==
  ASSUME TypeInv, LossInv, Spawns
  PROVE  LossInv'
  <1>1. /\ file' = file /\ snap' = snap
        /\ \A g \in Goroutines : pc'[g] = "loaded" => pc[g] = "loaded"
        /\ UNCHANGED handlerVars /\ UNCHANGED ghostVars
    BY SpawnsTakeIdle DEF TypeInv
  <1>2. Loaded' \subseteq Loaded /\ Loading' = Loading
    BY <1>1 DEF Loaded, Loading, handlerVars
  <1>. QED
    BY <1>1, <1>2, LossUnmoved DEF handlerVars, ghostVars

\* A call that has only come in has read nothing.
LEMMA LossRequest ==
  ASSUME TypeInv, LossInv, NEW h \in Handlers, NEW op, NEW j, NEW config,
         Request(h, op, j, config)
  PROVE  LossInv'
  <1>1. Loaded' = Loaded /\ Loading' \subseteq Loading
    BY DEF Request, runVars, Loaded, Loading, TypeInv, TypeOK
  <1>. QED
    BY <1>1, LossUnmoved DEF Request, runVars

\* It takes two writers between reading and writing at a time to lose an operation: as long
\* as that never happened, the file is what the edits and the run records would have made
\* of it one at a time, however long the backups between them took and whatever failed
\* (runClaimedJob's second read).
THEOREM NothingLostAlone == Spec => []NoLossWithoutOverlap
  <1>1. TypeInv /\ KnownInv /\ LossInv /\ [Next]_vars => LossInv'
    <2>. SUFFICES ASSUME TypeInv, KnownInv, LossInv, [Next]_vars PROVE LossInv'
      OBVIOUS
    <2>1. CASE UNCHANGED vars
      BY <2>1, LossUnmoved DEF vars, runVars, handlerVars, ghostVars, Loaded, Loading
    <2>. QED
      BY <2>1, LossStart, LossSpawn, LossStep, LossHandle, LossRequest
      DEF Next, Spawns, DeleteScheduledJob, SaveScheduledJob, UpdateScheduledJobFromMap,
          UpdateScheduledJob
  <1>2. LossInv => NoLossWithoutOverlap
    BY DEF LossInv, NoLossWithoutOverlap
  <1>. QED
    BY TypeInvariant, KnownInvariant, LossInit, <1>1, <1>2, PTL DEF Spec

----------------------------------------------------------------------------
(* The history tells the truth *)

Runs(entries) == {entries[i].run : i \in DOMAIN entries}

\* The entries tell how the first `n` runs of this service ended, each run at most once.
Sound(entries, n) ==
  /\ \A i \in DOMAIN entries : entries[i].run # 0 =>
       /\ entries[i].run <= n
       /\ entries[i].status = entries[i].truth /\ entries[i].status # "running"
  /\ \A i, k \in DOMAIN entries :
       entries[i].run = entries[k].run /\ entries[i].run # 0 => i = k

\* No entry of an earlier process claims to be still running.
NoneRunning(entries) ==
  \A i \in DOMAIN entries : entries[i].run = 0 => entries[i].status # "running"

\* Unless the clean-up of this start failed.
Closed(entries) == uncleaned \/ NoneRunning(entries)

\* A run that ended and is not recorded yet, by the goroutine that ran it.
Ending == {g \in Goroutines : pc[g] \in {"ended", "histLoaded"}}
Recording == {g \in Goroutines : pc[g] = "histLoaded"}

\* The outcome a goroutine is about to record is that of a run of its own: no other
\* goroutine holds it.
OutcomeInv ==
  /\ \A g \in Ending :
       /\ result[g].run \in 1 .. runs
       /\ result[g].status = result[g].truth /\ result[g].status # "running"
  /\ \A g, x \in Ending : result[g].run = result[x].run => g = x

\* Nor is it in the history, or in a copy of it that is about to be written back.
HistInv ==
  /\ OutcomeInv
  /\ Sound(history, runs)
  /\ phase # "down" => Closed(history)
  /\ \A g \in Recording : Sound(hsnap[g], runs) /\ Closed(hsnap[g])
  /\ \A g \in Ending : result[g].run \notin Runs(history)
  /\ \A g \in Ending, x \in Recording : result[g].run \notin Runs(hsnap[x])

\* The new history is the entry, then what was there, as far as the cap allows
\* (AddJobHistory).
LEMMA PrependElements ==
  ASSUME NEW entries \in Seq(Entry), NEW entry \in Entry
  PROVE  LET new == Prepend(entries, entry)
         IN  /\ DOMAIN new \subseteq 1 .. Len(entries) + 1
             /\ \A i \in DOMAIN new : new[i] = IF i = 1 THEN entry ELSE entries[i - 1]
  <1>. DEFINE all == <<entry>> \o entries
              new == Prepend(entries, entry)
  <1>1. HistoryCap \in Nat \ {0}
    BY SchedulerAssumption
  <1>2. all \in Seq(Entry) /\ Len(all) = Len(entries) + 1
    OBVIOUS
  <1>3. \A i \in 1 .. Len(all) : all[i] = IF i = 1 THEN entry ELSE entries[i - 1]
    OBVIOUS
  <1>. HIDE DEF all
  <1>4. CASE Len(all) > HistoryCap
    <2>1. new = SubSeq(all, 1, HistoryCap)
      BY <1>4 DEF Prepend, all
    <2>2. Len(new) = HistoryCap /\ \A i \in 1 .. HistoryCap : new[i] = all[i]
      BY <1>1, <1>2, <1>4, <2>1
    <2>3. DOMAIN new = 1 .. HistoryCap
      BY <1>1, <1>2, <1>4, <2>1
    <2>. HIDE DEF new
    <2>. QED
      BY <1>1, <1>2, <1>3, <1>4, <2>2, <2>3 DEF new
  <1>5. CASE ~(Len(all) > HistoryCap)
    <2>1. new = all
      BY <1>5 DEF Prepend, all
    <2>2. DOMAIN all = 1 .. Len(all)
      BY <1>2
    <2>. QED
      BY <1>2, <1>3, <2>1, <2>2
  <1>. QED
    BY <1>4, <1>5

\* Adding the outcome of a run that is not there yet keeps a history sound.
LEMMA PrependSound ==
  ASSUME NEW n \in Nat, NEW entries \in Seq(Entry), NEW entry \in Entry,
         Sound(entries, n), entry.run \in 1 .. n, entry.run \notin Runs(entries),
         entry.status = entry.truth, entry.status # "running"
  PROVE  /\ Sound(Prepend(entries, entry), n)
         /\ NoneRunning(entries) => NoneRunning(Prepend(entries, entry))
         /\ Runs(Prepend(entries, entry)) \subseteq Runs(entries) \cup {entry.run}
  <1>. DEFINE new == Prepend(entries, entry)
  <1>1. /\ DOMAIN new \subseteq 1 .. Len(entries) + 1
        /\ \A i \in DOMAIN new : new[i] = IF i = 1 THEN entry ELSE entries[i - 1]
    BY PrependElements
  <1>2. DOMAIN entries = 1 .. Len(entries) /\ Len(entries) \in Nat
    OBVIOUS
  <1>. HIDE DEF new
  <1>3. \A i \in DOMAIN new :
          \/ i = 1 /\ new[i] = entry
          \/ i # 1 /\ i - 1 \in DOMAIN entries /\ new[i] = entries[i - 1]
    BY <1>1, <1>2
  <1>4. ASSUME NEW i \in DOMAIN new, new[i].run # 0
        PROVE  /\ new[i].run <= n
               /\ new[i].status = new[i].truth /\ new[i].status # "running"
    BY <1>3, <1>4 DEF Sound
  <1>5. ASSUME NEW i \in DOMAIN new, NEW k \in DOMAIN new,
               new[i].run = new[k].run, new[i].run # 0
        PROVE  i = k
    <2>1. i \in Nat /\ k \in Nat
      BY <1>1, <1>2
    <2>2. CASE i = 1 /\ k = 1
      BY <2>2
    <2>3. CASE i # 1 /\ k # 1
      <3>1. /\ i - 1 \in DOMAIN entries /\ new[i] = entries[i - 1]
            /\ k - 1 \in DOMAIN entries /\ new[k] = entries[k - 1]
        BY <1>3, <2>3
      <3>2. i - 1 = k - 1
        BY <1>5, <3>1 DEF Sound
      <3>. QED
        BY <2>1, <3>2
    <2>4. CASE (i = 1) # (k = 1)
      <3>1. entry.run \in Runs(entries)
        BY <1>3, <1>5, <2>4 DEF Runs
      <3>. QED
        BY <3>1
    <2>. QED
      BY <2>2, <2>3, <2>4
  <1>6. NoneRunning(entries) => NoneRunning(new)
    BY <1>3 DEF NoneRunning
  <1>7. Runs(new) \subseteq Runs(entries) \cup {entry.run}
    BY <1>3 DEF Runs
  <1>. QED
    BY <1>4, <1>5, <1>6, <1>7 DEF Sound, new

\* Cleaning up closes the entries left running, and leaves what this service recorded
\* alone (CleanupAbandonedJobs).
LEMMA AbandonedSound ==
  ASSUME NEW n \in Nat, NEW entries \in Seq(Entry), Sound(entries, n)
  PROVE  /\ Sound(Abandoned(entries), n) /\ NoneRunning(Abandoned(entries))
         /\ Runs(Abandoned(entries)) = Runs(entries)
  <1>. DEFINE new == Abandoned(entries)
  <1>1. DOMAIN new = DOMAIN entries
    BY DEF Abandoned
  <1>2. ASSUME NEW i \in DOMAIN entries
        PROVE  /\ new[i].run = entries[i].run /\ new[i].truth = entries[i].truth
               /\ new[i].status # "running"
               /\ entries[i].run # 0 => new[i] = entries[i]
    <2>1. entries[i] \in Entry
      OBVIOUS
    <2>2. CASE entries[i].status = "running"
      <3>1. new[i] = [entries[i] EXCEPT !.status = "failed"]
        BY <2>2 DEF Abandoned
      <3>2. entries[i].run = 0
        BY <2>2 DEF Sound
      <3>. HIDE DEF new
      <3>. QED
        BY <2>1, <3>1, <3>2 DEF Entry
    <2>3. CASE entries[i].status # "running"
      <3>1. new[i] = entries[i]
        BY <2>3 DEF Abandoned
      <3>. QED
        BY <2>3, <3>1
    <2>. QED
      BY <2>2, <2>3
  <1>. HIDE DEF new
  <1>3. Sound(new, n) /\ NoneRunning(new)
    BY <1>1, <1>2 DEF Sound, NoneRunning
  <1>4. Runs(new) = Runs(entries)
    BY <1>1, <1>2 DEF Runs
  <1>. QED
    BY <1>3, <1>4 DEF new

\* The history an earlier version left counts no run of this one.
LEMMA HistInit == Init => HistInv
  <1>. SUFFICES ASSUME Init PROVE HistInv
    OBVIOUS
  <1>1. \A i \in DOMAIN history : history[i].run = 0
    BY SchedulerAssumption DEF Init
  <1>. QED
    BY <1>1 DEF Init, HistInv, OutcomeInv, Sound, Ending, Recording

\* A step that moves no outcome and no history keeps the invariant.
LEMMA HistUnmoved ==
  ASSUME HistInv, history' = history, runs' = runs, phase' = phase, uncleaned' = uncleaned,
         Ending' \subseteq Ending, Recording' \subseteq Recording,
         \A g \in Ending' : result'[g] = result[g],
         \A g \in Recording' : hsnap'[g] = hsnap[g]
  PROVE  HistInv'
  <1>1. OutcomeInv'
    BY DEF HistInv, OutcomeInv
  <1>2. Sound(history, runs)' /\ (phase # "down" => Closed(history))'
    BY DEF HistInv, Sound, Closed, NoneRunning
  <1>3. \A g \in Recording' : (Sound(hsnap[g], runs) /\ Closed(hsnap[g]))'
    BY DEF HistInv, Sound, Closed, NoneRunning
  <1>4. /\ \A g \in Ending' : (result[g].run \notin Runs(history))'
        /\ \A g \in Ending', x \in Recording' : (result[g].run \notin Runs(hsnap[x]))'
    BY DEF HistInv, Runs
  <1>. QED
    BY <1>1, <1>2, <1>3, <1>4 DEF HistInv

\* The end of a run leaves a sound history sound, and is not in it yet.
LEMMA SoundGrows ==
  ASSUME NEW n \in Nat, NEW entries \in Seq(Entry), Sound(entries, n)
  PROVE  Sound(entries, n + 1) /\ n + 1 \notin Runs(entries)
  <1>1. \A i \in DOMAIN entries : entries[i].run \in Nat
    <2>. SUFFICES ASSUME NEW i \in DOMAIN entries PROVE entries[i].run \in Nat
      OBVIOUS
    <2>. entries[i] \in Entry
      OBVIOUS
    <2>. QED
      BY DEF Entry
  <1>2. \A i \in DOMAIN entries : entries[i].run <= n
    BY <1>1 DEF Sound
  <1>3. n + 1 \notin Runs(entries)
    BY <1>1, <1>2 DEF Runs
  <1>4. \A i \in DOMAIN entries : entries[i].run <= n + 1
    BY <1>1, <1>2
  <1>. QED
    BY <1>3, <1>4 DEF Sound

\* The run that ended gets a number of its own (runScheduledBackup).
LEMMA HistReturns ==
  ASSUME TypeOK, HistInv, phase = "up", NEW g \in Goroutines, BackupReturns(g)
  PROVE  HistInv'
  <1>. USE DEF TypeOK
  <1>1. /\ result'[g].run = runs + 1 /\ result'[g].status = result'[g].truth
        /\ result'[g].status # "running"
        /\ \A x \in Goroutines \ {g} : result'[x] = result[x]
    <2>1. PICK status \in {"success", "failed"} :
            result' = [result EXCEPT ![g] = [run |-> runs + 1, job |-> job[g],
                                             status |-> status, truth |-> status]]
      BY DEF BackupReturns
    <2>. QED
      BY <2>1
  <1>2. /\ Ending' = Ending \cup {g} /\ g \notin Ending
        /\ Recording' = Recording /\ Recording \subseteq Ending
    BY DEF BackupReturns, Ending, Recording
  <1>3. /\ runs' = runs + 1 /\ history' = history /\ hsnap' = hsnap /\ phase' = phase
        /\ uncleaned' = uncleaned
    BY DEF BackupReturns, processVars, startVars
  <1>4. \A x \in Ending : x \in Goroutines /\ result'[x] = result[x]
    BY <1>1, <1>2 DEF Ending
  <1>5. OutcomeInv'
    <2>1. \A x \in Ending : result[x].run \in 1 .. runs
      BY DEF HistInv, OutcomeInv
    <2>. QED
      BY <1>1, <1>2, <1>3, <1>4, <2>1 DEF HistInv, OutcomeInv
  <1>6. /\ Sound(history, runs + 1) /\ Closed(history)
        /\ runs + 1 \notin Runs(history)
    BY SoundGrows DEF HistInv
  <1>7. ASSUME NEW x \in Recording
        PROVE  /\ Sound(hsnap[x], runs + 1) /\ Closed(hsnap[x])
               /\ runs + 1 \notin Runs(hsnap[x])
    <2>1. hsnap[x] \in Seq(Entry) /\ Sound(hsnap[x], runs) /\ Closed(hsnap[x])
      BY DEF HistInv, Recording
    <2>. QED
      BY <2>1, SoundGrows
  <1>8. ASSUME NEW x \in Ending'
        PROVE  /\ result'[x].run \notin Runs(history)
               /\ \A y \in Recording : result'[x].run \notin Runs(hsnap[y])
    <2>1. CASE x = g
      BY <1>1, <1>6, <1>7, <2>1
    <2>2. CASE x \in Ending
      BY <1>4, <2>2 DEF HistInv
    <2>. QED
      BY <1>2, <2>1, <2>2
  <1>9. /\ Sound(history, runs)' /\ Closed(history)'
        /\ \A x \in Recording' : (Sound(hsnap[x], runs) /\ Closed(hsnap[x]))'
    BY <1>2, <1>3, <1>6, <1>7 DEF Sound, Closed, NoneRunning
  <1>10. /\ \A x \in Ending' : (result[x].run \notin Runs(history))'
         /\ \A x \in Ending', y \in Recording' : (result[x].run \notin Runs(hsnap[y]))'
    BY <1>2, <1>3, <1>8 DEF Runs
  <1>. QED
    BY <1>5, <1>9, <1>10 DEF HistInv

\* A goroutine reads the history its outcome is not in (AddJobHistory).
LEMMA HistLoads ==
  ASSUME TypeOK, HistInv, phase = "up", NEW g \in Goroutines, LoadHistory(g)
  PROVE  HistInv'
  <1>. USE DEF TypeOK
  <1>1. /\ history' = history /\ runs' = runs /\ phase' = phase /\ uncleaned' = uncleaned
        /\ g \in Ending /\ Recording \subseteq Ending
    BY DEF LoadHistory, Ending, Recording, ghostVars, startVars, processVars
  <1>2. CASE pc' = [pc EXCEPT ![g] = "histLoaded"]
    <2>1. /\ hsnap' = [hsnap EXCEPT ![g] = history] /\ result' = result
          /\ Ending' = Ending /\ Recording' = Recording \cup {g}
      BY <1>2 DEF LoadHistory, Ending, Recording
    <2>2. ASSUME NEW x \in Recording'
          PROVE  hsnap'[x] = history \/ (x \in Recording /\ hsnap'[x] = hsnap[x])
      BY <2>1, <2>2 DEF Recording
    <2>3. Sound(history, runs) /\ Closed(history)
      BY DEF HistInv
    <2>4. OutcomeInv'
      BY <1>1, <2>1 DEF HistInv, OutcomeInv
    <2>5. /\ Sound(history, runs)' /\ Closed(history)'
          /\ \A x \in Recording' : (Sound(hsnap[x], runs) /\ Closed(hsnap[x]))'
      <3>1. Sound(history, runs)' /\ Closed(history)'
        BY <1>1, <2>3 DEF Sound, Closed, NoneRunning
      <3>2. \A x \in Recording : Sound(hsnap[x], runs) /\ Closed(hsnap[x])
        BY DEF HistInv
      <3>3. \A x \in Recording' : Sound(hsnap'[x], runs) /\ Closed(hsnap'[x])
        BY <2>2, <2>3, <3>2
      <3>. QED
        BY <1>1, <3>1, <3>3 DEF Sound, Closed, NoneRunning
    <2>6. /\ \A x \in Ending' : (result[x].run \notin Runs(history))'
          /\ \A x \in Ending', y \in Recording' : (result[x].run \notin Runs(hsnap[y]))'
      BY <1>1, <2>1, <2>2 DEF HistInv, Runs
    <2>. QED
      BY <2>4, <2>5, <2>6 DEF HistInv
  <1>3. CASE pc' # [pc EXCEPT ![g] = "histLoaded"]
    <2>1. /\ pc' = [pc EXCEPT ![g] = "recorded"] /\ hsnap' = hsnap
          /\ result' = [result EXCEPT ![g] = NoEntry]
      BY <1>3 DEF LoadHistory
    <2>2. Ending' = Ending \ {g} /\ Recording' \subseteq Recording
      BY <2>1 DEF Ending, Recording
    <2>3. \A x \in Ending' : result'[x] = result[x]
      BY <2>1, <2>2 DEF Ending
    <2>. QED
      BY <1>1, <2>1, <2>2, <2>3, HistUnmoved
  <1>. QED
    BY <1>2, <1>3

\* A goroutine that read the history before others wrote to it may undo their entries, but
\* adds none that is not true, and none that is there (AddJobHistory).
LEMMA HistStores ==
  ASSUME TypeOK, HistInv, NEW g \in Goroutines, StoreHistory(g)
  PROVE  HistInv'
  <1>1. /\ runs' = runs /\ phase' = phase /\ uncleaned' = uncleaned
        /\ g \in Ending /\ g \in Recording /\ Recording \subseteq Ending
        /\ Ending' = Ending \ {g} /\ Recording' = Recording \ {g}
    BY DEF StoreHistory, Ending, Recording, ghostVars, startVars, processVars, TypeOK
  <1>2. \A x \in Ending' : result'[x] = result[x]
    BY <1>1 DEF StoreHistory, Ending, TypeOK
  <1>3. \A x \in Recording' : hsnap'[x] = hsnap[x]
    BY <1>1 DEF StoreHistory, Recording, TypeOK
  <1>4. CASE history' = history
    BY <1>1, <1>2, <1>3, <1>4, HistUnmoved
  <1>5. CASE history' # history
    <2>1. history' = Prepend(hsnap[g], result[g])
      BY <1>5 DEF StoreHistory, HistoryEntry
    <2>2. /\ Sound(history', runs) /\ (uncleaned \/ NoneRunning(history'))
          /\ Runs(history') \subseteq Runs(hsnap[g]) \cup {result[g].run}
      <3>1. /\ g \in Goroutines /\ hsnap[g] \in Seq(Entry) /\ result[g] \in Entry
            /\ runs \in Nat
        BY DEF TypeOK
      <3>2. Sound(hsnap[g], runs) /\ (uncleaned \/ NoneRunning(hsnap[g]))
        BY <1>1 DEF HistInv, Closed
      <3>3. /\ result[g].run \in 1 .. runs /\ result[g].run \notin Runs(hsnap[g])
            /\ result[g].status = result[g].truth /\ result[g].status # "running"
        BY <1>1 DEF HistInv, OutcomeInv
      <3>. QED
        BY <2>1, <3>1, <3>2, <3>3, PrependSound
    <2>3. \A x \in Ending' : result[x].run \notin Runs(history')
      BY <1>1, <2>2 DEF HistInv, OutcomeInv
    <2>4. /\ Sound(history, runs)' /\ Closed(history)'
          /\ \A x \in Ending' : (result[x].run \notin Runs(history))'
      BY <1>1, <1>2, <2>2, <2>3 DEF Sound, Closed, NoneRunning, Runs
    <2>5. OutcomeInv'
      <3>1. \A x \in Ending' : x \in Ending
        BY <1>1
      <3>. QED
        BY <1>1, <1>2, <3>1 DEF HistInv, OutcomeInv
    <2>6. /\ \A x \in Recording' : (Sound(hsnap[x], runs) /\ Closed(hsnap[x]))'
          /\ \A x \in Ending', y \in Recording' : (result[x].run \notin Runs(hsnap[y]))'
      BY <1>1, <1>2, <1>3 DEF HistInv, Sound, Closed, NoneRunning, Runs
    <2>. QED
      BY <2>4, <2>5, <2>6 DEF HistInv
  <1>. QED
    BY <1>4, <1>5

\* The other steps of a run record nothing.
LEMMA HistStep ==
  ASSUME TypeInv, KnownInv, HistInv, NEW g \in Goroutines, Step(g)
  PROVE  HistInv'
  <1>. USE DEF TypeInv, TypeOK
  <1>1. phase = "up"
    <2>. pc[g] # "idle"
      BY DEF Step, ClaimJob, SkipRunningJob, BackupReturns, LoadHistory, StoreHistory,
             RereadJobs, StoreRunRecord, ReleaseJob
    <2>. QED
      BY DEF KnownInv, Quiet
  <1>2. ASSUME ClaimJob(g) \/ SkipRunningJob(g) \/ RereadJobs(g) \/ StoreRunRecord(g)
                 \/ ReleaseJob(g)
        PROVE  HistInv'
    <2>1. /\ history' = history /\ runs' = runs /\ phase' = phase
          /\ result' = result /\ hsnap' = hsnap /\ uncleaned' = uncleaned
      BY <1>2
      DEF ClaimJob, SkipRunningJob, RereadJobs, StoreRunRecord, ReleaseJob, processVars,
          ghostVars, startVars
    <2>2. Ending' \subseteq Ending /\ Recording' \subseteq Recording
      BY <1>2
      DEF ClaimJob, SkipRunningJob, RereadJobs, StoreRunRecord, ReleaseJob, Ending,
          Recording
    <2>. QED
      BY <2>1, <2>2, HistUnmoved
  <1>. QED
    BY <1>1, <1>2, HistReturns, HistLoads, HistStores DEF Step

\* The start closes what was left running; a crash forgets the outcomes not yet recorded.
LEMMA HistStart ==
  ASSUME TypeInv, KnownInv, HistInv, Start \/ Crash \/ AdvanceClock
  PROVE  HistInv'
  <1>. USE DEF TypeInv, TypeOK
  <1>1. CASE CleanupAbandonedJobs
    <2>1. runs' = runs /\ Ending' = {} /\ Recording' = {}
      BY <1>1 DEF CleanupAbandonedJobs, runVars, KnownInv, Quiet, Ending, Recording
    <2>2. Sound(Abandoned(history), runs) /\ NoneRunning(Abandoned(history))
      BY AbandonedSound DEF HistInv
    <2>3. \/ history' = Abandoned(history)
          \/ history' = history /\ uncleaned'
      BY <1>1 DEF CleanupAbandonedJobs
    <2>4. Sound(history', runs) /\ (uncleaned' \/ NoneRunning(history'))
      BY <2>2, <2>3 DEF HistInv
    <2>5. Sound(history, runs)' /\ Closed(history)'
      BY <2>1, <2>4 DEF Sound, Closed, NoneRunning
    <2>. QED
      BY <2>1, <2>5 DEF HistInv, OutcomeInv
  <1>2. CASE Crash
    <2>1. /\ runs' = runs /\ history' = history /\ phase' = "down"
          /\ Ending' = {} /\ Recording' = {}
      BY <1>2 DEF Crash, Ending, Recording
    <2>2. Sound(history, runs)'
      BY <2>1 DEF HistInv, Sound
    <2>. QED
      BY <2>1, <2>2 DEF HistInv, OutcomeInv
  <1>3. CASE ReconcileProvisionedJobs \/ RecalculateNextRuns
    <2>1. /\ runs' = runs /\ history' = history /\ phase # "down" /\ uncleaned' = uncleaned
          /\ Ending' = {} /\ Recording' = {}
      BY <1>3
      DEF ReconcileProvisionedJobs, RecalculateNextRuns, runVars, startVars, KnownInv,
          Quiet, Ending, Recording
    <2>2. Sound(history, runs)' /\ Closed(history)'
      BY <2>1 DEF HistInv, Sound, Closed, NoneRunning
    <2>. QED
      BY <2>1, <2>2 DEF HistInv, OutcomeInv
  <1>4. CASE AdvanceClock
    BY <1>4, HistUnmoved
    DEF AdvanceClock, processVars, runVars, ghostVars, startVars, Ending, Recording
  <1>. QED
    BY <1>1, <1>2, <1>3, <1>4 DEF Start

\* A goroutine that only starts has no outcome.
LEMMA HistSpawn ==
  ASSUME TypeInv, HistInv, Spawns
  PROVE  HistInv'
  <1>1. /\ history' = history /\ phase' = phase /\ result' = result /\ hsnap' = hsnap
        /\ \A g \in Goroutines : pc'[g] = pc[g] \/ (pc[g] = "idle" /\ pc'[g] = "spawned")
        /\ UNCHANGED ghostVars
    BY SpawnsTakeIdle DEF TypeInv
  <1>2. Ending' \subseteq Ending /\ Recording' \subseteq Recording
    BY <1>1 DEF Ending, Recording
  <1>. QED
    BY <1>1, <1>2, HistUnmoved DEF ghostVars, startVars

\* job_history.json tells the truth: whatever goroutines read it before others wrote,
\* whatever write fails and wherever the service is killed, an entry of a run is its real
\* outcome, no run is there twice, and the cap is kept.  None claims to be running once the
\* service has cleaned up, and a goroutine that read the history long ago brings none back;
\* only a service whose clean-up failed keeps those it found (runClaimedJob, AddJobHistory,
\* CleanupAbandonedJobs).
THEOREM HistoryIsHonest == Spec => []HistoryHonest
  <1>1. TypeInv /\ KnownInv /\ HistInv /\ [Next]_vars => HistInv'
    <2>. SUFFICES ASSUME TypeInv, KnownInv, HistInv, [Next]_vars PROVE HistInv'
      OBVIOUS
    <2>1. CASE UNCHANGED vars
      BY <2>1, HistUnmoved DEF vars, processVars, runVars, ghostVars, startVars, Ending, Recording
    <2>2. ASSUME NEW h \in Handlers, Handle(h) PROVE HistInv'
      BY <2>2, HistUnmoved
      DEF Handle, LoadJobs, StoreJobs, processVars, runVars, startVars, Ending, Recording
    <2>3. ASSUME NEW h \in Handlers, NEW op, NEW j, NEW config, Request(h, op, j, config)
          PROVE  HistInv'
      BY <2>3, HistUnmoved DEF Request, processVars, runVars, startVars, Ending, Recording
    <2>. QED
      BY <2>1, <2>2, <2>3, HistStart, HistSpawn, HistStep
      DEF Next, Spawns, DeleteScheduledJob, SaveScheduledJob, UpdateScheduledJobFromMap,
          UpdateScheduledJob
  <1>2. TypeInv /\ HistInv => HistoryHonest
    BY DEF TypeInv, TypeOK, HistInv, Sound, Closed, NoneRunning, HistoryHonest
  <1>. QED
    BY TypeInvariant, KnownInvariant, HistInit, <1>1, <1>2, PTL DEF Spec
===============================================================================
