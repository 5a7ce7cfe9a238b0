----------------------------- MODULE MCScheduler -----------------------------
(***************************************************************************)
(* Instances of Scheduler for TLC: a day of two or three ticks, one job    *)
(* declared in config.json, and what an earlier process may have left on   *)
(* disk.                                                                   *)
(***************************************************************************)
EXTENDS Scheduler, TLC

Symmetry == Permutations(Goroutines)

CONSTANTS j1, j2

\* What users send: a job later in the day, switched off.  An update that does not say
\* whether the job is enabled keeps it switched on.
MCConfigs == {[enabled |-> FALSE, sched |-> 1, startup |-> FALSE]}

\* config.json declares j1, at the start of the day.
MCProvisioned ==
  [j \in Jobs |-> IF j = j1 THEN [enabled |-> TRUE, sched |-> 0, startup |-> TRUE, next |-> Unset]
                  ELSE NoJob]

Stored(enabled, sched, startup, next) ==
  [enabled |-> enabled, sched |-> sched, startup |-> startup, last |-> Unset, next |-> next]

NoneStored == [j \in Jobs |-> NoJob]

\* The declared job as an earlier start stored it, now due; or a job whose run time cannot
\* be read, beside no trace of the declared one.
MCStores ==
  {[NoneStored EXCEPT ![j1] = Stored(TRUE, 0, TRUE, 0)],
   [j \in Jobs |-> IF j = j1 THEN NoJob ELSE Stored(TRUE, DayLength - 1, FALSE, Unset)]}

\* An older release recorded runs as they started.
MCHistories == {<<NoEntry>>}

EmptyHistory == {<<>>}
===============================================================================
