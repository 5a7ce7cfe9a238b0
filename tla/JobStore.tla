------------------------------- MODULE JobStore -------------------------------
(***************************************************************************)
(* The contents of scheduled_jobs.json and the pure functions the scheduler *)
(* applies to it (gui/scheduler.go).  A store maps every job identifier to  *)
(* the stored job, or to NoJob.  The file itself is a JSON list; the order  *)
(* of its entries never matters to the code, and an identifier appears at   *)
(* most once because the GUI draws a new one for every job it creates.      *)
(*                                                                         *)
(* Time is counted in ticks of the wall clock, DayLength ticks to a day.    *)
(***************************************************************************)
EXTENDS Integers

CONSTANTS Jobs,        \* identifiers of the jobs
          NoJob,       \* "no such entry"
          DayLength,   \* ticks in a day
          Provisioned  \* config.json's "scheduled_jobs": [Jobs -> Declared \cup {NoJob}]

Unset == -1  \* an empty or unparseable time
Time == Nat \cup {Unset}
Schedule == (0 .. DayLength - 1) \cup {Unset}

\* What the edit form carries.  Every other field of ScheduledJob (name, folders,
\* disks, exclusions, compression, server) is copied as a whole and decides nothing here.
JobConfig == [enabled: BOOLEAN, sched: Schedule, startup: BOOLEAN]

\* A stored job: its configuration and its run record.
Job == [enabled: BOOLEAN, sched: Schedule, startup: BOOLEAN, last: Time, next: Time]

\* A job declared in config.json may carry a nextRun of its own.
Declared == [enabled: BOOLEAN, sched: Schedule, startup: BOOLEAN, next: Time]

Store == [Jobs -> Job \cup {NoJob}]

ASSUME StoreAssumption ==
  /\ Jobs # {}
  /\ DayLength \in Nat \ {0}
  /\ NoJob \notin Job \cup Declared
  /\ Provisioned \in [Jobs -> Declared \cup {NoJob}]

ConfigOf(job) == [enabled |-> job.enabled, sched |-> job.sched, startup |-> job.startup]

\* ScheduledJob.validate: a job needs a schedule, unless it runs at startup.
Valid(config) == config.sched # Unset \/ config.startup

\* The next occurrence of a schedule: today, or tomorrow when today's is past.
CalculateNextRun(sched, now) ==
  LET today == (now - (now % DayLength)) + sched
  IN  IF sched = Unset THEN Unset
      ELSE IF today < now THEN today + DayLength ELSE today

\* SaveScheduledJob's new entry.
NewJob(config, now) ==
  [enabled |-> config.enabled, sched |-> config.sched, startup |-> config.startup,
   last |-> Unset, next |-> CalculateNextRun(config.sched, now)]

\* UpdateScheduledJob's entry: the run record is kept, the run time is recomputed.
EditedJob(job, config, now) ==
  [enabled |-> config.enabled, sched |-> config.sched, startup |-> config.startup,
   last |-> job.last, next |-> CalculateNextRun(config.sched, now)]

\* runClaimedJob's entry: only the run record changes.
RanJob(job, now) ==
  [job EXCEPT !.last = now, !.next = CalculateNextRun(job.sched, now)]

\* A declared job that replaces a stored one keeps its lastRun, and its nextRun too
\* when the schedule did not change and the stored time is usable.
MergedJob(stored, declared, now) ==
  [enabled |-> declared.enabled, sched |-> declared.sched, startup |-> declared.startup,
   last |-> stored.last,
   next |-> IF declared.sched = stored.sched /\ stored.next # Unset
              THEN stored.next
            ELSE IF /\ declared.enabled
                    /\ declared.sched # Unset
                    /\ declared.sched # stored.sched \/ declared.next = Unset
              THEN CalculateNextRun(declared.sched, now)
            ELSE declared.next]

\* A declared job that is not stored yet.
AdoptedJob(declared, now) ==
  [enabled |-> declared.enabled, sched |-> declared.sched, startup |-> declared.startup,
   last |-> Unset,
   next |-> IF declared.enabled /\ declared.sched # Unset /\ declared.next = Unset
              THEN CalculateNextRun(declared.sched, now)
            ELSE declared.next]

\* mergeProvisionedJobs: upsert the declared jobs that validate; the others stay.
MergeProvisionedJobs(store, now) ==
  [j \in Jobs |->
     IF Provisioned[j] = NoJob \/ ~Valid(Provisioned[j]) THEN store[j]
     ELSE IF store[j] = NoJob THEN AdoptedJob(Provisioned[j], now)
     ELSE MergedJob(store[j], Provisioned[j], now)]

Schedulable(job) == job # NoJob /\ job.enabled /\ job.sched # Unset

\* Mutant: a missing run time is taken for a valid one.
RepairedStoreTrusting(store, now) == store

\* RecalculateNextRuns: only a missing run time of an enabled job is filled in.
RepairedStore(store, now) ==
  [j \in Jobs |->
     IF Schedulable(store[j]) /\ store[j].next = Unset
     THEN [store[j] EXCEPT !.next = CalculateNextRun(store[j].sched, now)]
     ELSE store[j]]

\* Mutant: the older two-minute window, outside of which a run is missed.
DueInWindow(job, now) ==
  job # NoJob /\ job.enabled /\ job.next # Unset /\ now = job.next + 1

\* checkAndRunScheduledJobs fires strictly after nextRun, however late.
Due(job, now) == job # NoJob /\ job.enabled /\ job.next # Unset /\ now > job.next
===============================================================================
