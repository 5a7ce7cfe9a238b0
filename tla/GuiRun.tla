------------------------------- MODULE GuiRun -------------------------------
(***************************************************************************)
(* A split backup seen from the GUI: the window starts one backup per part *)
(* and waits for its outcome (frontend/src/App.jsx), the GUI process asks  *)
(* the service to run it and polls it, or runs it itself (gui/main.go,     *)
(* api/client.go), and the user may stop what runs (backup_control.go).    *)
(*                                                                         *)
(* The completion events carry no job id: whoever waits takes the next     *)
(* one.  The service is abstracted to what its answers tell (the whole of  *)
(* it is in BackupControl), a backup to whether it succeeds.               *)
(***************************************************************************)
EXTENDS Naturals, FiniteSets

CONSTANTS Parts,         \* number of parts of the plan
          MaxJobs,       \* bound on the backups started, retries included
          MaxErrors,     \* maxConsecutiveErrors: 20 in the code
          MaxCallFaults, \* bound on calls that fail and on restarts of the service
          MaxStops,      \* bound on the clicks on Stop
          Foreign,       \* a job of the service that another user or the scheduler started
          Unset

Jobs == 1..MaxJobs

GuiAssumption ==
  /\ Parts \in Nat /\ MaxJobs \in Nat
  /\ Foreign \notin Jobs /\ Unset \notin Nat \cup {"ok"}

VARIABLES
  mode,        \* "service" or "standalone"
  \* the window
  loop, part,  \* where the loop over the parts is, and the part it is at
  armed,       \* the one-shot listener for backup:complete is set
  heard,       \* what it heard, or Unset
  done,        \* parts counted as succeeded
  failedParts, \* parts counted as failed
  \* the GUI process
  current,     \* the backup StartBackup is about
  poll,        \* the goroutine of pollBackupProgress, by job
  errors,      \* its consecutive errors
  slot,        \* delegatedJobID
  target,      \* what a click on Stop is about to cancel, or Unset
  \* the service, or the goroutine of a standalone GUI
  entry,       \* what the service tells of a job: "running", "ok", "failed", or "none"
  partOf,      \* history: the part each job is for
  whole,       \* history: jobs whose backup succeeded
  stopped,     \* jobs that were told to stop
  callFaults, stops

window == <<loop, part, armed, heard, done, failedParts>>
gui == <<current, poll, errors, slot, target>>
service == <<entry, partOf, whole, stopped>>
splitVars == <<mode, window, gui, service, callFaults, stops>>

Started == {j \in Jobs : partOf[j] # Unset}
Listed == Jobs \cup {Foreign}

SplitInit ==
  /\ mode \in {"service", "standalone"}
  /\ loop = "arm" /\ part = 1
  /\ armed = FALSE /\ heard = Unset /\ done = {} /\ failedParts = {}
  /\ current = Unset
  /\ poll = [j \in Jobs |-> "off"] /\ errors = [j \in Jobs |-> 0]
  /\ slot = Unset /\ target = Unset
  /\ entry \in {[j \in Listed |-> IF j = Foreign THEN e ELSE "none"] : e \in {"none", "running"}}
  /\ partOf = [j \in Jobs |-> Unset]
  /\ whole = {} /\ stopped = {}
  /\ callFaults = 0 /\ stops = 0

CallFault == callFaults < MaxCallFaults /\ callFaults' = callFaults + 1

----------------------------------------------------------------------------
(* The window: executeSplitBackup *)

\* armBackupCompletion, before the part is started: "so a fast completion can't
\* be missed".
StartPart ==
  /\ loop = "arm" /\ part <= Parts
  /\ armed' = TRUE /\ heard' = Unset
  /\ loop' = "start"
  /\ UNCHANGED <<mode, part, done, failedParts, gui, service, callFaults, stops>>

NextPart == /\ part' = part + 1 /\ loop' = "arm"

\* The user may have the part tried again, or count it as failed.
Failed == \/ loop' = "arm" /\ UNCHANGED <<part, failedParts>>
          \/ NextPart /\ failedParts' = failedParts \cup {part}

\* StartBackup has returned without an error.
PartStarted ==
  /\ loop = "started"
  /\ loop' = "wait"
  /\ UNCHANGED <<mode, part, armed, heard, done, failedParts, gui, service, callFaults, stops>>

\* The promise of the listener is resolved.
HearOutcome ==
  /\ loop = "wait" /\ heard # Unset
  /\ IF heard = "ok" THEN NextPart /\ done' = done \cup {part} /\ UNCHANGED failedParts
     ELSE Failed /\ UNCHANGED done
  /\ UNCHANGED <<mode, armed, heard, gui, service, callFaults, stops>>

CloseSplit ==
  /\ loop = "arm" /\ part > Parts
  /\ loop' = "closed"
  /\ UNCHANGED <<mode, part, armed, heard, done, failedParts, gui, service, callFaults, stops>>

\* The frontend hears an event: the listener is gone after one.
Emit(result) ==
  /\ armed' = FALSE
  /\ heard' = IF armed THEN result ELSE heard
  /\ UNCHANGED <<loop, part, done, failedParts>>

----------------------------------------------------------------------------
(* Starting a backup *)

NewJob == Cardinality(Started) + 1

Begin(j) ==
  /\ partOf' = [partOf EXCEPT ![j] = part]
  /\ entry' = [entry EXCEPT ![j] = "running"]
  /\ UNCHANGED <<whole, stopped>>

\* startBackupDirect: the backup runs in a goroutine of the GUI.
StartDirect ==
  /\ mode = "standalone" /\ loop = "start" /\ NewJob \in Jobs
  /\ Begin(NewJob)
  /\ loop' = "started"
  /\ UNCHANGED <<mode, part, armed, heard, done, failedParts, gui, callFaults, stops>>

\* startBackupViaService: the service has accepted the request.
Accept ==
  /\ mode = "service" /\ loop = "start" /\ NewJob \in Jobs
  /\ Begin(NewJob)
  /\ current' = NewJob
  /\ loop' = "accepted"
  /\ UNCHANGED <<mode, part, armed, heard, done, failedParts, poll, errors, slot, target,
                 callFaults, stops>>

\* Its answer is here: the job is remembered for Stop, and polled.
Accepted ==
  /\ loop = "accepted"
  /\ slot' = current
  /\ poll' = [poll EXCEPT ![current] = "polling"]
  /\ loop' = "started"
  /\ UNCHANGED <<mode, part, armed, heard, done, failedParts, current, errors, target, service,
                 callFaults, stops>>

\* The request or its answer is lost (a job may then be running that nobody
\* follows), or StartBackup refuses: the listener is cancelled.
StartFails ==
  /\ loop \in {"start", "accepted"}
  /\ loop = "accepted" => mode = "service"
  /\ CallFault
  /\ armed' = FALSE
  /\ Failed
  /\ UNCHANGED <<mode, heard, done, gui, service, stops>>

\* Bound: no job is left, and the user gives up on the part.
GiveUpPart ==
  /\ loop = "start" /\ NewJob \notin Jobs
  /\ armed' = FALSE
  /\ NextPart /\ failedParts' = failedParts \cup {part}
  /\ UNCHANGED <<mode, heard, done, gui, service, callFaults, stops>>

----------------------------------------------------------------------------
(* The backup *)

\* A backup ends; when it was told to stop it may still be too late for that.
\* The entry of the service is closed, a standalone GUI calls OnComplete.
Ends(j) ==
  /\ entry[j] = "running"
  /\ \E result \in {"ok", "failed"} :
       /\ entry' = [entry EXCEPT ![j] = result]
       /\ whole' = IF result = "ok" THEN whole \cup {j} ELSE whole
       /\ IF mode = "standalone" /\ j # Foreign THEN Emit(result) ELSE UNCHANGED window
  /\ UNCHANGED <<mode, gui, partOf, stopped, callFaults, stops>>

\* The service dies and comes back: what ran is gone, and so are the entries.
Restart ==
  /\ mode = "service" /\ CallFault
  /\ entry' = [j \in Listed |-> "none"]
  /\ UNCHANGED <<mode, window, gui, partOf, whole, stopped, stops>>

----------------------------------------------------------------------------
(* pollBackupProgress and GetBackupStatus *)

\* Mutant: the body of an error is decoded as progress, neither running nor complete.
AnswerBlind(j) == {IF entry[j] = "none" THEN "running" ELSE entry[j]}

\* Mutant: a job the service does not know any more is over.
AnswerTrusting(j) == {IF entry[j] = "none" THEN "ok" ELSE entry[j]}

\* What the poll of a job gets: its entry, or an error.
Answer(j) == {IF entry[j] = "none" THEN "error" ELSE entry[j]}

PollOver(j, result) ==
  /\ poll' = [poll EXCEPT ![j] = "over"]
  /\ slot' = Unset
  /\ Emit(result)

PollFails(j) ==
  /\ errors' = [errors EXCEPT ![j] = @ + 1]
  /\ IF errors[j] + 1 >= MaxErrors THEN PollOver(j, "failed")
     ELSE UNCHANGED <<poll, slot, window>>

Polled(j, answer) ==
  \/ answer = "error" /\ PollFails(j)
  \/ answer = "running" /\ errors' = [errors EXCEPT ![j] = 0] /\ UNCHANGED <<poll, slot,
                                                                             window>>
  \/ answer \in {"ok", "failed"} /\ errors' = [errors EXCEPT ![j] = 0] /\ PollOver(j, answer)

Poll(j) ==
  /\ poll[j] = "polling"
  /\ \E answer \in Answer(j) : Polled(j, answer)
  /\ UNCHANGED <<mode, current, target, service, callFaults, stops>>

\* The call itself fails.
PollLost(j) ==
  /\ poll[j] = "polling" /\ CallFault
  /\ PollFails(j)
  /\ UNCHANGED <<mode, current, target, service, stops>>

----------------------------------------------------------------------------
(* Stop: CancelBackup without a job id *)

\* Bound: the user clicks on Stop while a part runs.
ClickStop ==
  /\ mode = "service" /\ stops < MaxStops /\ loop = "wait" /\ heard = Unset /\ target = Unset
  /\ target' \in IF slot # Unset THEN {slot} ELSE {j \in Listed : entry[j] = "running"}
  /\ stops' = stops + 1
  /\ UNCHANGED <<mode, window, current, poll, errors, slot, service, callFaults>>

\* The service refuses when the job is not running any more.
SendStop ==
  /\ target # Unset
  /\ IF entry[target] = "running" THEN stopped' = stopped \cup {target} /\ slot' = Unset
     ELSE UNCHANGED <<stopped, slot>>
  /\ target' = Unset
  /\ UNCHANGED <<mode, window, current, poll, errors, entry, partOf, whole, callFaults, stops>>

----------------------------------------------------------------------------

Done == loop = "closed" /\ UNCHANGED splitVars

\* The loop of the window, and the calls it makes.
Window ==
  \/ StartPart \/ PartStarted \/ HearOutcome \/ CloseSplit
  \/ StartDirect \/ Accept \/ Accepted \/ GiveUpPart

SplitNext ==
  \/ Window
  \/ StartFails
  \/ \E j \in Listed : Ends(j)
  \/ Restart
  \/ \E j \in Jobs : Poll(j) \/ PollLost(j)
  \/ ClickStop \/ SendStop
  \/ Done

\* The window's loop runs on, the ticker ticks, and a backup ends.
Fairness ==
  /\ WF_splitVars(Window)
  /\ \A j \in Jobs : WF_splitVars(Poll(j)) /\ WF_splitVars(Ends(j))
  /\ WF_splitVars(SendStop)

SplitSpec == SplitInit /\ [][SplitNext]_splitVars /\ Fairness

----------------------------------------------------------------------------
(* Properties *)

Committed(p) == \E j \in Started : partOf[j] = p /\ j \in whole

\* "Honest aggregate: only claim success when EVERY part actually succeeded":
\* a part that is counted as succeeded has a backup that did, and none is left
\* out, although events name no job and calls are lost.
HonestSplit ==
  /\ \A p \in done : Committed(p)
  /\ loop = "closed" => done \cup failedParts = 1..Parts

\* The split ends: every part that was started is heard of, whatever calls were
\* lost and whether or not the service was restarted.
SplitEnds == <>(loop = "closed")

\* "so a Stop click [...] can still cancel the right run" (backup_control.go): Stop
\* never reaches a job that this GUI did not start.
StopHitsOwn == Foreign \notin stopped
==============================================================================
