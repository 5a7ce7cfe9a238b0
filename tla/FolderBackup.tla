----------------------------- MODULE FolderBackup -----------------------------
(***************************************************************************)
(* The backup of one folder to Proxmox Backup Server: runBackupInline-     *)
(* Internal, backupReal and ChunkState (gui/backup_inline.go) over the     *)
(* session of PBSClient (pbscommon/pbsapi.go).                             *)
(*                                                                         *)
(* A folder is archived as two streams of chunks, the archive and its      *)
(* catalog.  A request to the server is a step: it is answered, or refused, *)
(* or the connection is lost before or after the server served it.  Retries *)
(* of a transient answer change nothing, so only their end is modelled.    *)
(*                                                                         *)
(* The server is not part of this repository: what is said of it is what   *)
(* the client relies on.                                                   *)
(***************************************************************************)
EXTENDS Naturals, Sequences, FiniteSets

CONSTANTS Chunks,      \* digests
          Content,     \* the chunks of the folder: [Streams -> Seq(Chunks)]
          Previous,    \* chunks of the group's last snapshot
          BatchSize,   \* chunks assigned to an index by one request (128)
          MaxAttempts, \* maxDirAttempts
          RetryWait,   \* sessionLostRetryWait, in ticks
          ReapDelay,   \* ticks the server takes, at most, to notice a dead connection
          MaxFaults,   \* bound: requests refused or lost, read errors, failed releases
          None

Streams == {"archive", "catalog"}

ASSUME FolderAssumption ==
  /\ Content \in [Streams -> Seq(Chunks) \ {<<>>}]
  /\ Previous \subseteq Chunks
  /\ BatchSize \in Nat \ {0} /\ MaxAttempts \in Nat \ {0}
  /\ ReapDelay \in Nat /\ RetryWait \in Nat /\ ReapDelay < RetryWait
  /\ MaxFaults \in Nat

VARIABLES
  \* the run
  pc, attempt,
  err,        \* of the attempt: "none", "fatal" (isFatalSessionError) or "other"
  waited,     \* ticks since the wait for the group lock began
  cancel,     \* opts.Ctx: "no", or cancelled "before" or "after" its last check
  failed,     \* failedchunk is not zero
  outcome,
  \* the client
  alive,      \* its connection has been opened and works
  known,      \* knownChunks
  sent,       \* chunks each stream has put in its assignments
  seen,       \* issues the walk of this attempt met
  issues,     \* ReadErrors and ExcludedFiles of the client
  \* the server
  session,    \* of the backup group: "none", "open" or "lost", its lock held unless "none"
  age,        \* ticks since it was lost
  store,      \* chunks in the datastore
  index,      \* what the session's dynamic indexes hold
  closed,     \* those of them that are closed
  sealed,     \* the session has a manifest
  snapshots,  \* committed by this run
  faults

runVars == <<pc, attempt, err, waited, failed, outcome>>
clientVars == <<alive, known, sent, seen, issues>>
lockVars == <<session, age>>
serverVars == <<store, index, closed, sealed, snapshots>>
vars == <<runVars, cancel, clientVars, lockVars, serverVars, faults>>

Issue == {"excluded", "unreadable"}
Outcome == {"verified_success", "success_with_policy_exclusions", "partial", "failed",
            "cancelled"}

TypeOK ==
  /\ pc \in {"connecting", "opening", "walking", "closing", "blobs", "sealing",
             "releasing", "failing", "waiting", "decided", "finishing",
             "reporting", "done"}
  /\ attempt \in 1 .. MaxAttempts
  /\ err \in {"none", "fatal", "other"}
  /\ waited \in 0 .. RetryWait /\ age \in 0 .. ReapDelay
  /\ cancel \in {"no", "before", "after"}
  /\ failed \in BOOLEAN /\ alive \in BOOLEAN /\ sealed \in BOOLEAN
  /\ outcome \in Outcome \cup {None}
  /\ known \subseteq Chunks /\ store \subseteq Chunks
  /\ \A s \in Streams : sent[s] \in 0 .. Len(Content[s]) /\ index[s] \in Seq(Chunks)
  /\ seen \subseteq Issue /\ issues \subseteq Issue
  /\ session \in {"none", "open", "lost"}
  /\ closed \subseteq Streams
  /\ snapshots \in Seq([content : [Streams -> Seq(Chunks)], missing : SUBSET Issue])
  /\ faults \in 0 .. MaxFaults

NothingSent == [s \in Streams |-> 0]
Empty == [s \in Streams |-> <<>>]

\* An earlier session of the group may still hold its lock.
Init ==
  /\ pc = "connecting" /\ attempt = 1 /\ err = "none" /\ waited = 0
  /\ cancel = "no" /\ failed = FALSE /\ outcome = None
  /\ alive = FALSE /\ known = {} /\ sent = NothingSent /\ seen = {} /\ issues = {}
  /\ session \in {"none", "lost"} /\ age = 0
  /\ store = Previous /\ index = Empty /\ closed = {} /\ sealed = FALSE
  /\ snapshots = <<>>
  /\ faults = 0

Fault == faults < MaxFaults /\ faults' = faults + 1

\* The attempt ends with an error.
Fail(error) == pc' = "failing" /\ err' = error

\* The connection dies; the server sees it at once, or holds the lock until it does.
\* Later requests, and retries of this one, would have to dial again, which is refused.
ConnectionLost ==
  /\ Fault
  /\ alive' = FALSE
  /\ session' \in {"none", "lost"} /\ age' = 0
  /\ \E error \in {"fatal", "other"} : Fail(error)

\* The server refuses the request, or its retries run out.
Refused == Fault /\ Fail("other") /\ UNCHANGED <<alive, lockVars>>

\* "connection lost: PBS session cannot be resumed": the only dial of a session was used.
RedialBlocked == ~alive /\ Fail("fatal") /\ UNCHANGED <<alive, lockVars, faults>>

\* Mutant: a request over a dead connection waits for it.
RequestFailsHanging == alive /\ (Refused \/ ConnectionLost)

\* A request that changes nothing on the server ends the attempt.
RequestFails ==
  \/ RedialBlocked
  \/ alive /\ (Refused \/ ConnectionLost)

Answered == alive /\ UNCHANGED <<alive, lockVars, faults>>

----------------------------------------------------------------------------
(* One attempt *)

EndAs(result) == pc' = "done" /\ outcome' = result

\* Cancelled while the run waited for its turn.
StopBeforeStart ==
  /\ pc = "connecting" /\ attempt = 1 /\ cancel # "no"
  /\ EndAs("cancelled")
  /\ UNCHANGED <<attempt, err, waited, failed, cancel, clientVars, lockVars, serverVars, faults>>

\* Connect, and the dial that the first request, for the previous index, makes: the server
\* opens a session, or refuses it (the group is locked, no such namespace ...).  The
\* error is taken for a first backup, and so is a failed download.
Connect ==
  /\ pc = "connecting" /\ pc' = "opening"
  /\ err' = "none"
  /\ sent' = NothingSent /\ seen' = {} /\ issues' = {}
  /\ \/ /\ session = "none" /\ session' = "open"
        /\ alive' = TRUE
        /\ index' = Empty /\ closed' = {} /\ sealed' = FALSE
        /\ \/ known' = Previous /\ UNCHANGED faults
           \/ known' = {} /\ Fault
     \/ /\ alive' = FALSE /\ known' = {}
        /\ IF session = "none" THEN Fault ELSE UNCHANGED faults
        /\ UNCHANGED <<session, index, closed, sealed>>
  /\ UNCHANGED <<attempt, waited, failed, outcome, cancel, age, store, snapshots>>

\* CreateDynamicIndex, once for each stream.
CreateDynamicIndexes ==
  /\ pc = "opening"
  /\ \/ Answered /\ pc' = "walking" /\ UNCHANGED err
     \/ RequestFails
  /\ UNCHANGED <<attempt, waited, failed, outcome, cancel, known, sent, seen, issues,
                 serverVars>>

NextChunk(s) == Content[s][sent[s] + 1]

\* Mutant: a chunk is known before its upload is confirmed, and its failure does not end
\* the attempt.
PutChunkUnconfirmed(s) ==
  /\ known' = known \cup {NextChunk(s)}
  /\ sent' = [sent EXCEPT ![s] = @ + 1]
  /\ \/ Answered /\ store' = store \cup {NextChunk(s)} /\ UNCHANGED failed
     \/ alive /\ Fault /\ failed' = TRUE /\ UNCHANGED <<store, alive, lockVars>>
  /\ UNCHANGED <<pc, err>>

\* The next chunk of a stream: a known one is only listed, another is uploaded first and
\* known once the upload is confirmed.  A failed upload ends the attempt, so the chunk is
\* never listed; the server may have stored it all the same.
PutChunk(s) ==
  \/ /\ NextChunk(s) \in known
     /\ sent' = [sent EXCEPT ![s] = @ + 1]
     /\ UNCHANGED <<pc, err, failed, known, store, alive, lockVars, faults>>
  \/ /\ NextChunk(s) \notin known /\ cancel = "no"
     /\ Answered
     /\ store' = store \cup {NextChunk(s)}
     /\ known' = known \cup {NextChunk(s)}
     /\ sent' = [sent EXCEPT ![s] = @ + 1]
     /\ UNCHANGED <<pc, err, failed>>
  \/ /\ NextChunk(s) \notin known
     /\ failed' = TRUE
     /\ RequestFails
     /\ store' \in {store, store \cup {NextChunk(s)}}
     /\ UNCHANGED <<known, sent>>

\* ChunkState.HandleData, from the walk.  The last chunk of a stream is put at its end.
HandleData(s) ==
  /\ pc = "walking" /\ cancel = "no"
  /\ sent[s] + 1 < Len(Content[s])
  /\ PutChunk(s)
  /\ UNCHANGED <<attempt, waited, outcome, cancel, seen, issues,
                 index, closed, sealed, snapshots>>

\* A file the user excluded, or one that could not be read.
Skip(issue) ==
  /\ pc = "walking" /\ cancel = "no" /\ issue \notin seen
  /\ IF issue = "unreadable" THEN Fault ELSE UNCHANGED faults
  /\ seen' = seen \cup {issue}
  /\ UNCHANGED <<runVars, cancel, alive, known, sent, issues, lockVars, serverVars>>

\* The walk checks the context before every write; an upload in flight fails.
StopWalk ==
  /\ pc = "walking" /\ cancel # "no"
  /\ Fail("other")
  /\ failed' \in {failed, TRUE}
  /\ UNCHANGED <<attempt, waited, outcome, cancel, clientVars, lockVars, serverVars, faults>>

EndWalk ==
  /\ pc = "walking" /\ cancel = "no"
  /\ \A s \in Streams : sent[s] + 1 = Len(Content[s])
  /\ pc' = "closing"
  /\ issues' = issues \cup seen
  /\ UNCHANGED <<attempt, err, waited, failed, outcome, cancel, alive, known, sent, seen,
                 lockVars, serverVars, faults>>

\* The archive's EOF comes before the catalog's.
InTurn(s) == s \notin closed /\ (s = "catalog" => "archive" \in closed)

\* ChunkState.EOF: the last chunk.  A cancelled context makes its upload fail.
FinalChunk(s) ==
  /\ pc = "closing" /\ InTurn(s)
  /\ sent[s] + 1 = Len(Content[s])
  /\ \/ PutChunk(s)
     \/ /\ NextChunk(s) \notin known /\ cancel # "no"
        /\ failed' = TRUE
        /\ Fail("other")
        /\ UNCHANGED <<known, sent, store, alive, lockVars, faults>>
  /\ UNCHANGED <<attempt, waited, outcome, cancel, seen, issues,
                 index, closed, sealed, snapshots>>

Least(a, b) == IF a < b THEN a ELSE b

\* AssignDynamicChunks, one batch.  The digests of an aborted attempt are not in this one's
\* assignments: ChunkState is made anew.
AssignDynamicChunks(s) ==
  /\ pc = "closing" /\ InTurn(s)
  /\ sent[s] = Len(Content[s]) /\ Len(index[s]) < sent[s]
  /\ \/ /\ Answered
        /\ index' = [index EXCEPT ![s] =
             @ \o SubSeq(Content[s], Len(@) + 1, Least(Len(@) + BatchSize, sent[s]))]
        /\ UNCHANGED <<pc, err>>
     \/ RequestFails /\ UNCHANGED index
  /\ UNCHANGED <<attempt, waited, failed, outcome, cancel, known, sent, seen, issues,
                 store, closed, sealed, snapshots>>

\* CloseDynamicIndex: the server checks the checksum and the count it is given.
CloseDynamicIndex(s) ==
  /\ pc = "closing" /\ InTurn(s)
  /\ sent[s] = Len(Content[s]) /\ Len(index[s]) = sent[s]
  /\ \/ /\ Answered
        /\ closed' = closed \cup {s}
        /\ pc' = IF closed' = Streams THEN "blobs" ELSE pc
        /\ UNCHANGED err
     \/ RequestFails /\ UNCHANGED closed
  /\ UNCHANGED <<attempt, waited, failed, outcome, cancel, known, sent, seen, issues,
                 store, index, sealed, snapshots>>

\* UploadBlob of the metadata and of the status: their failure is only logged.
UploadBlobs ==
  /\ pc = "blobs" /\ pc' = "sealing"
  /\ \/ UNCHANGED <<alive, lockVars, faults>>
     \/ Fault /\ alive' = FALSE /\ session' \in {"none", "lost"} /\ age' = 0
  /\ UNCHANGED <<attempt, err, waited, failed, outcome, cancel, known, sent, seen, issues,
                 serverVars>>

UploadManifest ==
  /\ pc = "sealing"
  /\ \/ Answered /\ sealed' = TRUE /\ pc' = "releasing" /\ UNCHANGED err
     \/ RequestFails /\ UNCHANGED sealed
  /\ UNCHANGED <<attempt, waited, failed, outcome, cancel, known, sent, seen, issues,
                 store, index, closed, snapshots>>

\* backupDirectory: the shadow copy is released, which may fail.
ReleaseSnapshot ==
  /\ pc = "releasing"
  /\ \/ pc' = "decided" /\ UNCHANGED <<err, faults>>
     \/ Fault /\ Fail("other")
  /\ UNCHANGED <<attempt, waited, failed, outcome, cancel, clientVars, lockVars, serverVars>>

----------------------------------------------------------------------------
(* Between the attempts *)

\* Mutant: the abandoned session is left to itself.
CloseForgotten == UNCHANGED <<alive, lockVars>>

\* PBSClient.Close: a live connection ends the session at the server.
Close ==
  /\ alive' = FALSE
  /\ session' = IF alive THEN "none" ELSE session
  /\ UNCHANGED age

\* The session is closed, and only a lost one is worth another attempt.
Teardown ==
  /\ pc = "failing"
  /\ Close
  /\ pc' = IF err = "fatal" /\ attempt < MaxAttempts THEN "waiting" ELSE "decided"
  /\ waited' = 0
  /\ UNCHANGED <<attempt, err, failed, outcome, cancel, known, sent, seen, issues,
                 serverVars, faults>>

StopWaiting ==
  /\ pc = "waiting" /\ cancel # "no"
  /\ EndAs("cancelled")
  /\ UNCHANGED <<attempt, err, waited, failed, cancel, clientVars, lockVars, serverVars, faults>>

Retry ==
  /\ pc = "waiting" /\ cancel = "no" /\ waited = RetryWait
  /\ pc' = "connecting"
  /\ attempt' = attempt + 1
  /\ UNCHANGED <<err, waited, failed, outcome, cancel, clientVars, lockVars, serverVars, faults>>

----------------------------------------------------------------------------
(* The end of the run *)

\* Cancelled during the attempts: the session is dropped.
StopUncommitted ==
  /\ pc = "decided" /\ cancel # "no"
  /\ Close
  /\ EndAs("cancelled")
  /\ UNCHANGED <<attempt, err, waited, failed, cancel, known, sent, seen, issues,
                 serverVars, faults>>

GiveUp ==
  /\ pc = "decided" /\ cancel = "no" /\ err # "none"
  /\ pc' = "reporting"
  /\ UNCHANGED <<attempt, err, waited, failed, outcome, cancel, clientVars, lockVars,
                 serverVars, faults>>

\* Mutant: a cancel after the upload is not looked for.
DecideBlind ==
  /\ pc = "decided" /\ err = "none"
  /\ pc' = "finishing"
  /\ UNCHANGED <<attempt, err, waited, failed, outcome, cancel, clientVars, lockVars,
                 serverVars, faults>>

Decide ==
  /\ pc = "decided" /\ cancel = "no" /\ err = "none"
  /\ pc' = "finishing"
  /\ UNCHANGED <<attempt, err, waited, failed, outcome, cancel, clientVars, lockVars,
                 serverVars, faults>>

\* The server commits a session whose indexes are closed and which has a manifest.
Commit == snapshots' = Append(snapshots, [content |-> index, missing |-> seen])

\* Finish: the server commits the session and the client closes it, or the run gives up
\* on it.  When only the answer is lost the snapshot is committed all the same.
Finish ==
  /\ pc = "finishing" /\ pc' = "reporting"
  /\ \/ /\ Commit
        /\ session' = "none"
        /\ UNCHANGED <<err, age, faults>>
     \/ /\ Fault /\ err' = "other"
        /\ \/ session' = "none" /\ UNCHANGED <<snapshots, age>>
           \/ session' = "none" /\ Commit /\ UNCHANGED age
           \/ session' = "lost" /\ age' = 0 /\ UNCHANGED snapshots
  /\ alive' = FALSE
  /\ UNCHANGED <<attempt, waited, failed, outcome, cancel, known, sent, seen, issues,
                 store, index, closed, sealed>>

\* Mutant: a file that could not be read does not count.
FinalOutcomeLenient ==
  IF err # "none" \/ failed THEN "failed"
  ELSE IF "excluded" \in issues THEN "success_with_policy_exclusions"
  ELSE "verified_success"

\* A chunk that failed in any attempt fails the run.
FinalOutcome ==
  IF err # "none" \/ failed THEN "failed"
  ELSE IF "unreadable" \in issues THEN "partial"
  ELSE IF "excluded" \in issues THEN "success_with_policy_exclusions"
  ELSE "verified_success"

Report ==
  /\ pc = "reporting"
  /\ EndAs(FinalOutcome)
  /\ UNCHANGED <<attempt, err, waited, failed, cancel, clientVars, lockVars, serverVars, faults>>

----------------------------------------------------------------------------
(* The environment *)

\* The user stops the run.
Cancel ==
  /\ pc # "done" /\ cancel = "no"
  /\ cancel' = IF pc \in {"finishing", "reporting"} THEN "after" ELSE "before"
  /\ UNCHANGED <<runVars, clientVars, lockVars, serverVars, faults>>

Tick ==
  /\ pc = "waiting" /\ waited < RetryWait
  /\ session = "lost" => age < ReapDelay
  /\ waited' = waited + 1
  /\ age' = IF session = "lost" THEN age + 1 ELSE age
  /\ UNCHANGED <<pc, attempt, err, failed, outcome, cancel, clientVars, session,
                 serverVars, faults>>

\* The server notices that a connection is dead and gives the lock back.
Reap ==
  /\ session = "lost"
  /\ session' = "none" /\ age' = 0
  /\ UNCHANGED <<runVars, cancel, clientVars, serverVars, faults>>

----------------------------------------------------------------------------
\* What the run does by a request to the server, and what it does by itself.
RequestStep ==
  \/ Connect \/ CreateDynamicIndexes
  \/ \E s \in Streams : \/ HandleData(s) \/ FinalChunk(s)
                        \/ AssignDynamicChunks(s) \/ CloseDynamicIndex(s)
  \/ UploadBlobs \/ UploadManifest \/ Finish

LocalStep ==
  \/ StopBeforeStart \/ StopWalk \/ EndWalk \/ ReleaseSnapshot
  \/ Teardown \/ StopWaiting \/ Retry
  \/ StopUncommitted \/ GiveUp \/ Decide \/ Report

Step == RequestStep \/ LocalStep

Next ==
  \/ Step
  \/ \E issue \in Issue : Skip(issue)
  \/ Cancel \/ Tick \/ Reap

Spec == Init /\ [][Next]_vars

(***************************************************************************)
(* An assumption on the server, not a fact of the code: a request is       *)
(* answered in the end, or its connection breaks, and the server notices a *)
(* connection that is dead.  Nothing in the client bounds a request: the   *)
(* requests carry no context and the client no timeout, the dial and the   *)
(* upgrade are read without a deadline (pbsapi.go), and retry.Do looks at  *)
(* its context between calls only.  The HTTP/2 ping ends a connection that *)
(* is dead, not one whose server lives and never answers: such a server    *)
(* holds the run, the lock of its group and the turn of its destination    *)
(* for ever, and a stop does not free them.                                *)
(***************************************************************************)
ServerAnswers == WF_vars(RequestStep) /\ WF_vars(Reap)

\* The goroutine of the run goes on when it can, and the wait between attempts passes.
FairSpec == Spec /\ WF_vars(LocalStep) /\ WF_vars(Tick) /\ ServerAnswers

----------------------------------------------------------------------------
(* Properties *)

\* Every chunk of a committed snapshot is in the datastore, and the snapshot is the whole
\* folder: no chunk that failed to upload, no half of an abandoned attempt ("never index
\* an unconfirmed chunk", HandleData and EOF).
CommittedRestorable ==
  \A i \in DOMAIN snapshots : \A s \in Streams :
    /\ snapshots[i].content[s] = Content[s]
    /\ \A k \in DOMAIN snapshots[i].content[s] : snapshots[i].content[s][k] \in store

\* However the run ends, it leaves no session open at the server: one would keep the
\* group's lock, and with it the next backups out (Close after a failed attempt, a failed
\* Finish and a cancel).
SessionReleased == pc = "done" => session # "open" /\ ~alive

\* A cancel that comes before the last check of the context commits nothing.
CancelCommitsNothing == cancel = "before" => snapshots = <<>>

\* The wait outlasts the server's memory of a lost session: the next attempt is not kept
\* out by the lock of the one before (sessionLostRetryWait).
RetryFindsLockFree == pc = "connecting" /\ attempt > 1 => session = "none"

\* The run implements the promise: one snapshot at most, whole, and a report that claims
\* no more than was committed.
Promise == INSTANCE Snapshot WITH
  Whole <- Content, NoReport <- None, committed <- snapshots, report <- outcome

HonestSnapshot == Promise!Spec

\* The run comes to an end, with a report, through lost connections, refusals, retries and
\* a stop, provided the server leaves no request without an answer on a connection that
\* holds (ServerAnswers): nothing in the run itself waits for ever.
RunEnds == <>(pc = "done")

(* What the comments promise and the code does not keep *)

\* OutcomeFailed, "nothing usable was produced": a run whose every request was answered
\* in the end, the commit included, is not reported as failed.
FinishedIsUsable == outcome = "failed" /\ err = "none" => snapshots = <<>>
===============================================================================
