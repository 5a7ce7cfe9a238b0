-------------------------- MODULE FolderBackupProofs --------------------------
(***************************************************************************)
(* What holds of the backup of one folder whatever its contents, the       *)
(* number of attempts, the batches, the delays and the failures; and that  *)
(* it keeps the promise of Snapshot.                                       *)
(***************************************************************************)
EXTENDS FolderBackup, SequenceTheorems, TLAPS

----------------------------------------------------------------------------
(* The inductive invariants *)

Working == {"opening", "walking", "closing", "blobs", "sealing", "releasing", "finishing"}
Idle == {"connecting", "waiting", "reporting", "done"}

\* The attempt got through: it can only be committed or dropped.
GotThrough == pc = "finishing" \/ (pc = "decided" /\ err = "none")

\* The client has a connection exactly while the server has its session open, and none
\* between attempts or once the run gave up; an error always ends the attempt.
SessionInv ==
  /\ alive <=> session = "open"
  /\ pc \in Idle => ~alive
  /\ pc = "decided" /\ err # "none" => ~alive
  /\ pc \in Working => err = "none"
  /\ pc = "failing" => err # "none"
  /\ pc = "releasing" \/ GotThrough => alive

\* A lost session that is waited for ages with the wait, and is gone before the retry.
LockInv ==
  /\ pc = "waiting" => attempt < MaxAttempts
  /\ pc = "waiting" /\ session = "lost" => age = waited
  /\ session = "lost" /\ pc \notin {"waiting", "done"} => age = 0
  /\ pc = "connecting" /\ attempt > 1 => session = "none"

\* Nothing is committed before the run finishes; after that it has not been cancelled in
\* time, and the report is still to come.
CommitInv ==
  /\ pc \notin {"reporting", "done"} => snapshots = <<>>
  /\ cancel = "before" => snapshots = <<>> /\ pc # "finishing"
  /\ outcome = None \/ pc = "done"

\* The first n chunks of a stream are in the datastore.
Stored(s, n) == \A k \in 1 .. n : Content[s][k] \in store

\* What an index holds is the start of its stream.
Prefix(i, c) == Len(i) <= Len(c) /\ \A k \in 1 .. Len(i) : i[k] = c[k]

\* What is known or listed is stored, and the indexes of a live session hold what was
\* listed, in order and whole once they are closed.
DataInv ==
  /\ Previous \subseteq store /\ known \subseteq store
  /\ \A s \in Streams : Stored(s, sent[s])
  /\ alive => \A s \in Streams :
       /\ Prefix(index[s], Content[s]) /\ Len(index[s]) <= sent[s]
       /\ s \in closed => Len(index[s]) = Len(Content[s])
  /\ pc \in {"blobs", "sealing", "releasing"} \/ GotThrough => closed = Streams

\* The issues of the report are those of the snapshot.
IssueInv ==
  /\ pc \in {"opening", "walking"} => issues = {}
  /\ \/ pc \in {"closing", "blobs", "sealing", "releasing"}
     \/ GotThrough
     \/ pc = "reporting" /\ err = "none"
     => issues = seen
  /\ pc = "reporting" /\ err = "none" => snapshots # <<>>
  /\ pc = "reporting" /\ snapshots # <<>> => snapshots[1].missing = seen

USE DEF runVars, clientVars, lockVars, serverVars

\* A request that loses its connection ends the attempt, and Close follows (fatal or
\* not), so the client's connection and the server's session go together.
LEMMA SessionStep ==
  ASSUME TypeOK, SessionInv, [Next]_vars
  PROVE  SessionInv'
  <1>. USE DEF SessionInv, Working, Idle, GotThrough, TypeOK
  <1>1. CASE StopBeforeStart
    BY <1>1 DEF StopBeforeStart, EndAs
  <1>2. CASE Connect
    BY <1>2 DEF Connect, Fault
  <1>3. CASE CreateDynamicIndexes
    BY <1>3
    DEF CreateDynamicIndexes, RequestFails, RedialBlocked, Refused, ConnectionLost, Fail, Fault, Answered
  <1>4. ASSUME NEW s \in Streams, HandleData(s) PROVE SessionInv'
    BY <1>4
    DEF HandleData, PutChunk, RequestFails, RedialBlocked, Refused, ConnectionLost, Fail, Fault, Answered
  <1>5. ASSUME NEW s \in Streams, FinalChunk(s) PROVE SessionInv'
    BY <1>5
    DEF FinalChunk, PutChunk, RequestFails, RedialBlocked, Refused, ConnectionLost, Fail, Fault, Answered
  <1>6. ASSUME NEW s \in Streams, AssignDynamicChunks(s) PROVE SessionInv'
    BY <1>6
    DEF AssignDynamicChunks, RequestFails, RedialBlocked, Refused, ConnectionLost, Fail, Fault, Answered
  <1>7. ASSUME NEW s \in Streams, CloseDynamicIndex(s) PROVE SessionInv'
    BY <1>7
    DEF CloseDynamicIndex, RequestFails, RedialBlocked, Refused, ConnectionLost, Fail, Fault, Answered
  <1>8. CASE StopWalk
    BY <1>8 DEF StopWalk, Fail
  <1>9. CASE EndWalk
    BY <1>9 DEF EndWalk
  <1>10. CASE UploadBlobs
    BY <1>10 DEF UploadBlobs, Fault
  <1>11. CASE UploadManifest
    BY <1>11
    DEF UploadManifest, RequestFails, RedialBlocked, Refused, ConnectionLost, Fail, Fault, Answered
  <1>12. CASE ReleaseSnapshot
    BY <1>12 DEF ReleaseSnapshot, Fault, Fail
  <1>13. CASE Teardown
    BY <1>13 DEF Teardown, Close
  <1>14. CASE StopWaiting
    BY <1>14 DEF StopWaiting, EndAs
  <1>15. CASE Retry
    BY <1>15 DEF Retry
  <1>16. CASE StopUncommitted
    BY <1>16 DEF StopUncommitted, Close, EndAs
  <1>17. CASE GiveUp
    BY <1>17 DEF GiveUp
  <1>18. CASE Decide
    BY <1>18 DEF Decide
  <1>19. CASE Finish
    BY <1>19 DEF Finish, Commit, Fault
  <1>20. CASE Report
    BY <1>20 DEF Report, EndAs
  <1>21. ASSUME NEW issue \in Issue, Skip(issue) PROVE SessionInv'
    BY <1>21 DEF Skip, Fault
  <1>22. CASE Cancel
    BY <1>22 DEF Cancel
  <1>23. CASE Tick
    BY <1>23 DEF Tick
  <1>24. CASE Reap
    BY <1>24 DEF Reap
  <1>25. CASE UNCHANGED vars
    BY <1>25 DEF vars
  <1>. QED
    BY <1>1, <1>2, <1>3, <1>4, <1>5, <1>6, <1>7, <1>8, <1>9, <1>10, <1>11, <1>12, <1>13, <1>14, <1>15, <1>16, <1>17, <1>18, <1>19, <1>20, <1>21, <1>22, <1>23, <1>24, <1>25
    DEF Next, Step, RequestStep, LocalStep

\* Every wait for the lock starts a lost session at age zero, and neither Tick nor Reap
\* lets the session outlive it (sessionLostRetryWait).
LEMMA LockStep ==
  ASSUME TypeOK, SessionInv, LockInv, [Next]_vars
  PROVE  LockInv'
  <1>0. ReapDelay \in Nat /\ RetryWait \in Nat /\ ReapDelay < RetryWait /\ MaxAttempts \in Nat
    BY FolderAssumption
  <1>. USE DEF SessionInv, LockInv, Working, Idle, TypeOK
  <1>1. CASE StopBeforeStart
    BY <1>1, <1>0 DEF StopBeforeStart, EndAs
  <1>2. CASE Connect
    BY <1>2, <1>0 DEF Connect, Fault
  <1>3. CASE CreateDynamicIndexes
    BY <1>3, <1>0
    DEF CreateDynamicIndexes, RequestFails, RedialBlocked, Refused, ConnectionLost, Fail, Fault, Answered
  <1>4. ASSUME NEW s \in Streams, HandleData(s) PROVE LockInv'
    BY <1>4, <1>0
    DEF HandleData, PutChunk, RequestFails, RedialBlocked, Refused, ConnectionLost, Fail, Fault, Answered
  <1>5. ASSUME NEW s \in Streams, FinalChunk(s) PROVE LockInv'
    BY <1>5, <1>0
    DEF FinalChunk, PutChunk, RequestFails, RedialBlocked, Refused, ConnectionLost, Fail, Fault, Answered
  <1>6. ASSUME NEW s \in Streams, AssignDynamicChunks(s) PROVE LockInv'
    BY <1>6, <1>0
    DEF AssignDynamicChunks, RequestFails, RedialBlocked, Refused, ConnectionLost, Fail, Fault, Answered
  <1>7. ASSUME NEW s \in Streams, CloseDynamicIndex(s) PROVE LockInv'
    BY <1>7, <1>0
    DEF CloseDynamicIndex, RequestFails, RedialBlocked, Refused, ConnectionLost, Fail, Fault, Answered
  <1>8. CASE StopWalk
    BY <1>8, <1>0 DEF StopWalk, Fail
  <1>9. CASE EndWalk
    BY <1>9, <1>0 DEF EndWalk
  <1>10. CASE UploadBlobs
    BY <1>10, <1>0 DEF UploadBlobs, Fault
  <1>11. CASE UploadManifest
    BY <1>11, <1>0
    DEF UploadManifest, RequestFails, RedialBlocked, Refused, ConnectionLost, Fail, Fault, Answered
  <1>12. CASE ReleaseSnapshot
    BY <1>12, <1>0 DEF ReleaseSnapshot, Fault, Fail
  <1>13. CASE Teardown
    BY <1>13, <1>0 DEF Teardown, Close
  <1>14. CASE StopWaiting
    BY <1>14, <1>0 DEF StopWaiting, EndAs
  <1>15. CASE Retry
    BY <1>15, <1>0 DEF Retry
  <1>16. CASE StopUncommitted
    BY <1>16, <1>0 DEF StopUncommitted, Close, EndAs
  <1>17. CASE GiveUp
    BY <1>17, <1>0 DEF GiveUp
  <1>18. CASE Decide
    BY <1>18, <1>0 DEF Decide
  <1>19. CASE Finish
    BY <1>19, <1>0 DEF Finish, Commit, Fault
  <1>20. CASE Report
    BY <1>20, <1>0 DEF Report, EndAs
  <1>21. ASSUME NEW issue \in Issue, Skip(issue) PROVE LockInv'
    BY <1>21, <1>0 DEF Skip, Fault
  <1>22. CASE Cancel
    BY <1>22, <1>0 DEF Cancel
  <1>23. CASE Tick
    BY <1>23, <1>0 DEF Tick
  <1>24. CASE Reap
    BY <1>24, <1>0 DEF Reap
  <1>25. CASE UNCHANGED vars
    BY <1>25, <1>0 DEF vars
  <1>. QED
    BY <1>1, <1>2, <1>3, <1>4, <1>5, <1>6, <1>7, <1>8, <1>9, <1>10, <1>11, <1>12, <1>13, <1>14, <1>15, <1>16, <1>17, <1>18, <1>19, <1>20, <1>21, <1>22, <1>23, <1>24, <1>25
    DEF Next, Step, RequestStep, LocalStep

\* Only Finish commits, and Decide reaches it only when the context was not cancelled.
LEMMA CommitStep ==
  ASSUME TypeOK, CommitInv, [Next]_vars
  PROVE  CommitInv'
  <1>. USE DEF CommitInv, TypeOK
  <1>1. CASE StopBeforeStart
    BY <1>1 DEF StopBeforeStart, EndAs
  <1>2. CASE Connect
    BY <1>2 DEF Connect, Fault
  <1>3. CASE CreateDynamicIndexes
    BY <1>3
    DEF CreateDynamicIndexes, RequestFails, RedialBlocked, Refused, ConnectionLost, Fail, Fault, Answered
  <1>4. ASSUME NEW s \in Streams, HandleData(s) PROVE CommitInv'
    BY <1>4
    DEF HandleData, PutChunk, RequestFails, RedialBlocked, Refused, ConnectionLost, Fail, Fault, Answered
  <1>5. ASSUME NEW s \in Streams, FinalChunk(s) PROVE CommitInv'
    BY <1>5
    DEF FinalChunk, PutChunk, RequestFails, RedialBlocked, Refused, ConnectionLost, Fail, Fault, Answered
  <1>6. ASSUME NEW s \in Streams, AssignDynamicChunks(s) PROVE CommitInv'
    BY <1>6
    DEF AssignDynamicChunks, RequestFails, RedialBlocked, Refused, ConnectionLost, Fail, Fault, Answered
  <1>7. ASSUME NEW s \in Streams, CloseDynamicIndex(s) PROVE CommitInv'
    BY <1>7
    DEF CloseDynamicIndex, RequestFails, RedialBlocked, Refused, ConnectionLost, Fail, Fault, Answered
  <1>8. CASE StopWalk
    BY <1>8 DEF StopWalk, Fail
  <1>9. CASE EndWalk
    BY <1>9 DEF EndWalk
  <1>10. CASE UploadBlobs
    BY <1>10 DEF UploadBlobs, Fault
  <1>11. CASE UploadManifest
    BY <1>11
    DEF UploadManifest, RequestFails, RedialBlocked, Refused, ConnectionLost, Fail, Fault, Answered
  <1>12. CASE ReleaseSnapshot
    BY <1>12 DEF ReleaseSnapshot, Fault, Fail
  <1>13. CASE Teardown
    BY <1>13 DEF Teardown, Close
  <1>14. CASE StopWaiting
    BY <1>14 DEF StopWaiting, EndAs
  <1>15. CASE Retry
    BY <1>15 DEF Retry
  <1>16. CASE StopUncommitted
    BY <1>16 DEF StopUncommitted, Close, EndAs
  <1>17. CASE GiveUp
    BY <1>17 DEF GiveUp
  <1>18. CASE Decide
    BY <1>18 DEF Decide
  <1>19. CASE Finish
    BY <1>19 DEF Finish, Commit, Fault
  <1>20. CASE Report
    BY <1>20 DEF Report, EndAs
  <1>21. ASSUME NEW issue \in Issue, Skip(issue) PROVE CommitInv'
    BY <1>21 DEF Skip, Fault
  <1>22. CASE Cancel
    BY <1>22 DEF Cancel
  <1>23. CASE Tick
    BY <1>23 DEF Tick
  <1>24. CASE Reap
    BY <1>24 DEF Reap
  <1>25. CASE UNCHANGED vars
    BY <1>25 DEF vars
  <1>. QED
    BY <1>1, <1>2, <1>3, <1>4, <1>5, <1>6, <1>7, <1>8, <1>9, <1>10, <1>11, <1>12, <1>13, <1>14, <1>15, <1>16, <1>17, <1>18, <1>19, <1>20, <1>21, <1>22, <1>23, <1>24, <1>25
    DEF Next, Step, RequestStep, LocalStep

\* The issues of an abandoned attempt are dropped by Connect; those reported are those of
\* the walk that was committed.
LEMMA IssueStep ==
  ASSUME TypeOK, SessionInv, CommitInv, IssueInv, [Next]_vars
  PROVE  IssueInv'
  <1>. USE DEF SessionInv, CommitInv, IssueInv, Working, Idle, GotThrough, TypeOK
  <1>1. CASE StopBeforeStart
    BY <1>1 DEF StopBeforeStart, EndAs
  <1>2. CASE Connect
    BY <1>2 DEF Connect, Fault
  <1>3. CASE CreateDynamicIndexes
    BY <1>3
    DEF CreateDynamicIndexes, RequestFails, RedialBlocked, Refused, ConnectionLost, Fail, Fault, Answered
  <1>4. ASSUME NEW s \in Streams, HandleData(s) PROVE IssueInv'
    BY <1>4
    DEF HandleData, PutChunk, RequestFails, RedialBlocked, Refused, ConnectionLost, Fail, Fault, Answered
  <1>5. ASSUME NEW s \in Streams, FinalChunk(s) PROVE IssueInv'
    BY <1>5
    DEF FinalChunk, PutChunk, RequestFails, RedialBlocked, Refused, ConnectionLost, Fail, Fault, Answered
  <1>6. ASSUME NEW s \in Streams, AssignDynamicChunks(s) PROVE IssueInv'
    BY <1>6
    DEF AssignDynamicChunks, RequestFails, RedialBlocked, Refused, ConnectionLost, Fail, Fault, Answered
  <1>7. ASSUME NEW s \in Streams, CloseDynamicIndex(s) PROVE IssueInv'
    BY <1>7
    DEF CloseDynamicIndex, RequestFails, RedialBlocked, Refused, ConnectionLost, Fail, Fault, Answered
  <1>8. CASE StopWalk
    BY <1>8 DEF StopWalk, Fail
  <1>9. CASE EndWalk
    BY <1>9 DEF EndWalk
  <1>10. CASE UploadBlobs
    BY <1>10 DEF UploadBlobs, Fault
  <1>11. CASE UploadManifest
    BY <1>11
    DEF UploadManifest, RequestFails, RedialBlocked, Refused, ConnectionLost, Fail, Fault, Answered
  <1>12. CASE ReleaseSnapshot
    BY <1>12 DEF ReleaseSnapshot, Fault, Fail
  <1>13. CASE Teardown
    BY <1>13 DEF Teardown, Close
  <1>14. CASE StopWaiting
    BY <1>14 DEF StopWaiting, EndAs
  <1>15. CASE Retry
    BY <1>15 DEF Retry
  <1>16. CASE StopUncommitted
    BY <1>16 DEF StopUncommitted, Close, EndAs
  <1>17. CASE GiveUp
    BY <1>17 DEF GiveUp
  <1>18. CASE Decide
    BY <1>18 DEF Decide
  <1>19. CASE Finish
    BY <1>19 DEF Finish, Commit, Fault
  <1>20. CASE Report
    BY <1>20 DEF Report, EndAs
  <1>21. ASSUME NEW issue \in Issue, Skip(issue) PROVE IssueInv'
    BY <1>21 DEF Skip, Fault
  <1>22. CASE Cancel
    BY <1>22 DEF Cancel
  <1>23. CASE Tick
    BY <1>23 DEF Tick
  <1>24. CASE Reap
    BY <1>24 DEF Reap
  <1>25. CASE UNCHANGED vars
    BY <1>25 DEF vars
  <1>. QED
    BY <1>1, <1>2, <1>3, <1>4, <1>5, <1>6, <1>7, <1>8, <1>9, <1>10, <1>11, <1>12, <1>13, <1>14, <1>15, <1>16, <1>17, <1>18, <1>19, <1>20, <1>21, <1>22, <1>23, <1>24, <1>25
    DEF Next, Step, RequestStep, LocalStep

\* TypeOK, with the functions it leaves to be records of the streams.
Types ==
  /\ TypeOK
  /\ sent \in [Streams -> Nat] /\ index \in [Streams -> Seq(Chunks)]

\* The parameters, as the provers need them.
LEMMA Parameters ==
  /\ ReapDelay \in Nat /\ RetryWait \in Nat /\ ReapDelay < RetryWait
  /\ MaxFaults \in Nat /\ MaxAttempts \in Nat \ {0} /\ BatchSize \in Nat \ {0}
  /\ Content \in [Streams -> Seq(Chunks)] /\ Previous \subseteq Chunks
  BY FolderAssumption

\* A new attempt has listed nothing (ChunkState is made anew).
LEMMA EmptyTypes ==
  /\ NothingSent \in [Streams -> Nat] /\ Empty \in [Streams -> Seq(Chunks)]
  /\ \A s \in Streams : NothingSent[s] \in 0 .. Len(Content[s])
  <1>1. \A s \in Streams : Len(Content[s]) \in Nat
    BY Parameters
  <1>. QED
    BY <1>1 DEF NothingSent, Empty

\* A batch is a part of its stream.
LEMMA BatchType ==
  ASSUME NEW c \in Seq(Chunks), NEW i \in Seq(Chunks), NEW n \in Nat,
         Len(i) < n, n <= Len(c)
  PROVE  LET m == Least(Len(i) + BatchSize, n)
         IN  /\ m \in Len(i) .. n
             /\ SubSeq(c, Len(i) + 1, m) \in Seq(Chunks)
             /\ Len(SubSeq(c, Len(i) + 1, m)) = m - Len(i)
             /\ \A k \in 1 .. m - Len(i) : SubSeq(c, Len(i) + 1, m)[k] = c[Len(i) + k]
  <1>. DEFINE m == Least(Len(i) + BatchSize, n)
  <1>1. m \in Len(i) .. n
    BY Parameters DEF Least
  <1>. HIDE DEF m
  <1>2. Len(i) + 1 \in 1 .. Len(c) + 1 /\ m \in (Len(i) + 1) - 1 .. Len(c)
    BY <1>1
  <1>3. /\ SubSeq(c, Len(i) + 1, m) \in Seq(Chunks)
        /\ Len(SubSeq(c, Len(i) + 1, m)) = m - (Len(i) + 1) + 1
        /\ \A k \in 1 .. m - (Len(i) + 1) + 1 :
              SubSeq(c, Len(i) + 1, m)[k] = c[Len(i) + 1 + k - 1]
    BY <1>2, SubSeqProperties
  <1>4. m - (Len(i) + 1) + 1 = m - Len(i) /\ \A k \in Nat : Len(i) + 1 + k - 1 = Len(i) + k
    BY <1>1
  <1>. QED
    BY <1>1, <1>3, <1>4 DEF m

\* The number of failures stays in its bound.
LEMMA FaultType ==
  ASSUME TypeOK, Fault PROVE faults' \in 0 .. MaxFaults
  BY Parameters DEF TypeOK, Fault

\* What a refused or lost request may change keeps its type.
LEMMA RequestTypes ==
  ASSUME TypeOK, RequestFails
  PROVE  /\ pc' = "failing" /\ err' \in {"fatal", "other"}
         /\ alive' \in BOOLEAN
         /\ session' \in {"none", "open", "lost"} /\ age' \in 0 .. ReapDelay
         /\ faults' \in 0 .. MaxFaults
  <1>1. CASE RedialBlocked
    BY <1>1 DEF RedialBlocked, Fail, TypeOK
  <1>2. CASE Refused
    BY <1>2, FaultType DEF Refused, Fail, TypeOK
  <1>3. CASE ConnectionLost
    <2>1. pc' = "failing" /\ err' \in {"fatal", "other"} /\ session' \in {"none", "open", "lost"}
      BY <1>3 DEF ConnectionLost, Fail
    <2>2. age' \in 0 .. ReapDelay
      BY <1>3, Parameters DEF ConnectionLost
    <2>3. alive' \in BOOLEAN
      BY <1>3 DEF ConnectionLost
    <2>4. faults' \in 0 .. MaxFaults
      BY <1>3, FaultType DEF ConnectionLost
    <2>. QED
      BY <2>1, <2>2, <2>3, <2>4
  <1>. QED
    BY <1>1, <1>2, <1>3 DEF RequestFails

\* What the upload of a chunk changes keeps its type (HandleData, EOF).
LEMMA PutChunkTypes ==
  ASSUME Types, NEW s \in Streams, sent[s] + 1 \in 1 .. Len(Content[s]), PutChunk(s),
         pc \in {"walking", "closing"}
  PROVE  /\ pc' \in {pc, "failing"} /\ err' \in {"none", "fatal", "other"}
         /\ failed' \in BOOLEAN /\ alive' \in BOOLEAN
         /\ session' \in {"none", "open", "lost"} /\ age' \in 0 .. ReapDelay
         /\ faults' \in 0 .. MaxFaults
         /\ known' \subseteq Chunks /\ store' \subseteq Chunks
         /\ sent' \in [Streams -> Nat] /\ \A x \in Streams : sent'[x] \in 0 .. Len(Content[x])
  <1>0. NextChunk(s) \in Chunks
    BY Parameters DEF NextChunk
  <1>. HIDE DEF NextChunk
  <1>1. CASE NextChunk(s) \in known /\ sent' = [sent EXCEPT ![s] = @ + 1]
             /\ UNCHANGED <<pc, err, failed, known, store, alive, session, age, faults>>
    BY <1>1 DEF Types, TypeOK
  <1>2. CASE /\ Answered
             /\ store' = store \cup {NextChunk(s)} /\ known' = known \cup {NextChunk(s)}
             /\ sent' = [sent EXCEPT ![s] = @ + 1]
             /\ UNCHANGED <<pc, err, failed>>
    BY <1>0, <1>2 DEF Types, TypeOK, Answered
  <1>3. CASE /\ failed' = TRUE
             /\ RequestFails
             /\ store' \in {store, store \cup {NextChunk(s)}}
             /\ UNCHANGED <<known, sent>>
    <2>1. TypeOK /\ sent \in [Streams -> Nat]
      BY DEF Types
    <2>2. failed' \in BOOLEAN
      BY <1>3
    <2>3. store' \subseteq Chunks /\ known' \subseteq Chunks
      BY <1>0, <1>3, <2>1 DEF TypeOK
    <2>4. sent' \in [Streams -> Nat] /\ \A x \in Streams : sent'[x] \in 0 .. Len(Content[x])
      BY <1>3, <2>1 DEF TypeOK
    <2>. QED
      BY <1>3, <2>1, <2>2, <2>3, <2>4, RequestTypes
  <1>. QED
    BY <1>1, <1>2, <1>3 DEF PutChunk

\* So does the whole state when a chunk is put.
LEMMA PutTypes ==
  ASSUME Types, NEW s \in Streams, sent[s] + 1 \in 1 .. Len(Content[s]), PutChunk(s),
         pc \in {"walking", "closing"},
         UNCHANGED <<attempt, waited, outcome, cancel, seen, issues, index, closed, sealed,
                     snapshots>>
  PROVE  Types'
  <1>1. /\ pc' \in {pc, "failing"} /\ err' \in {"none", "fatal", "other"}
        /\ failed' \in BOOLEAN /\ alive' \in BOOLEAN
        /\ session' \in {"none", "open", "lost"} /\ age' \in 0 .. ReapDelay
        /\ faults' \in 0 .. MaxFaults
        /\ known' \subseteq Chunks /\ store' \subseteq Chunks
        /\ sent' \in [Streams -> Nat] /\ \A x \in Streams : sent'[x] \in 0 .. Len(Content[x])
    BY PutChunkTypes
  <1>. QED
    BY <1>1 DEF Types, TypeOK

\* The type invariant in parts, for the actions that change many variables.
FlagTypes == failed \in BOOLEAN /\ alive \in BOOLEAN /\ sealed \in BOOLEAN
CounterTypes == faults \in 0 .. MaxFaults /\ age \in 0 .. ReapDelay /\ waited \in 0 .. RetryWait
StreamTypes ==
  /\ sent \in [Streams -> Nat] /\ index \in [Streams -> Seq(Chunks)]
  /\ \A x \in Streams : sent[x] \in 0 .. Len(Content[x])
SnapshotTypes ==
  snapshots \in Seq([content : [Streams -> Seq(Chunks)], missing : SUBSET Issue])
ValueTypes ==
  /\ pc \in {"connecting", "opening", "walking", "closing", "blobs", "sealing",
             "releasing", "failing", "waiting", "decided", "finishing",
             "reporting", "done"}
  /\ attempt \in 1 .. MaxAttempts /\ err \in {"none", "fatal", "other"}
  /\ cancel \in {"no", "before", "after"}
  /\ outcome \in Outcome \cup {None}
  /\ known \subseteq Chunks /\ store \subseteq Chunks
  /\ seen \subseteq Issue /\ issues \subseteq Issue
  /\ session \in {"none", "open", "lost"} /\ closed \subseteq Streams

\* Every step keeps the types; the age of a lost session stays in bounds as LockInv holds.
LEMMA TypeStep ==
  ASSUME Types, LockInv, [Next]_vars
  PROVE  Types'
  <1>. USE DEF Types, TypeOK, LockInv, FlagTypes, CounterTypes, StreamTypes, SnapshotTypes, ValueTypes
  <1>1. CASE StopBeforeStart
    BY <1>1, Parameters DEF StopBeforeStart, EndAs, Outcome
  <1>2. CASE Connect
    <2>1. FlagTypes'
      BY <1>2, EmptyTypes DEF Connect
    <2>2. CounterTypes'
      BY <1>2, EmptyTypes, Parameters, FaultType DEF Connect
    <2>3. StreamTypes'
      BY <1>2, EmptyTypes, Parameters DEF Connect, NothingSent, Empty
    <2>4. SnapshotTypes'
      BY <1>2, EmptyTypes DEF Connect
    <2>5. ValueTypes'
      BY <1>2, EmptyTypes, Parameters DEF Connect, Outcome
    <2>. HIDE DEF Types, TypeOK
    <2>. QED
      BY <2>1, <2>2, <2>3, <2>4, <2>5 DEF Types, TypeOK
  <1>3. CASE CreateDynamicIndexes
    <2>1. FlagTypes'
      BY <1>3, RequestTypes DEF CreateDynamicIndexes, Answered
    <2>2. CounterTypes'
      BY <1>3, RequestTypes, Parameters, FaultType DEF CreateDynamicIndexes, Answered
    <2>3. StreamTypes'
      BY <1>3, RequestTypes, Parameters DEF CreateDynamicIndexes, Answered, NothingSent, Empty
    <2>4. SnapshotTypes'
      BY <1>3, RequestTypes DEF CreateDynamicIndexes, Answered
    <2>5. ValueTypes'
      BY <1>3, RequestTypes, Parameters DEF CreateDynamicIndexes, Answered, Outcome
    <2>. HIDE DEF Types, TypeOK
    <2>. QED
      BY <2>1, <2>2, <2>3, <2>4, <2>5 DEF Types, TypeOK
  <1>4. ASSUME NEW s \in Streams, HandleData(s) PROVE Types'
    <2>1. Len(Content[s]) \in Nat /\ sent[s] \in Nat /\ sent[s] + 1 < Len(Content[s])
      BY <1>4, Parameters DEF HandleData
    <2>2. sent[s] + 1 \in 1 .. Len(Content[s])
      BY <2>1
    <2>. HIDE DEF Types, TypeOK
    <2>3. /\ pc \in {"walking", "closing"} /\ PutChunk(s)
          /\ UNCHANGED <<attempt, waited, outcome, cancel, seen, issues, index, closed, sealed, snapshots>>
      BY <1>4 DEF HandleData
    <2>. QED
      BY <2>2, <2>3, PutTypes
  <1>5. ASSUME NEW s \in Streams, FinalChunk(s) PROVE Types'
    <2>1. Len(Content[s]) \in Nat /\ sent[s] \in Nat /\ sent[s] + 1 = Len(Content[s])
      BY <1>5, Parameters DEF FinalChunk
    <2>2. sent[s] + 1 \in 1 .. Len(Content[s])
      BY <2>1
    <2>3. CASE PutChunk(s)
      <3>. HIDE DEF Types, TypeOK
      <3>1. /\ pc \in {"walking", "closing"}
            /\ UNCHANGED <<attempt, waited, outcome, cancel, seen, issues, index, closed, sealed, snapshots>>
        BY <1>5 DEF FinalChunk
      <3>. QED
        BY <2>2, <2>3, <3>1, PutTypes
    <2>4. CASE ~PutChunk(s)
      BY <1>5, <2>4 DEF FinalChunk, Fail
    <2>. QED
      BY <2>3, <2>4
  <1>6. ASSUME NEW s \in Streams, AssignDynamicChunks(s) PROVE Types'
    <2>0. index' \in [Streams -> Seq(Chunks)]
      <3>1. CASE Answered
        <4>1. /\ Content[s] \in Seq(Chunks) /\ index[s] \in Seq(Chunks)
              /\ sent[s] \in Nat /\ Len(index[s]) < sent[s] /\ sent[s] <= Len(Content[s])
          BY <1>6, Parameters DEF AssignDynamicChunks
        <4>. DEFINE batch == SubSeq(Content[s], Len(index[s]) + 1,
                                    Least(Len(index[s]) + BatchSize, sent[s]))
        <4>2. batch \in Seq(Chunks)
          BY <4>1, BatchType
        <4>3. index' = [index EXCEPT ![s] = @ \o batch] \/ UNCHANGED index
          BY <1>6 DEF AssignDynamicChunks
        <4>. HIDE DEF batch
        <4>4. index[s] \o batch \in Seq(Chunks)
          BY <4>1, <4>2, ConcatProperties
        <4>. QED
          BY <4>3, <4>4
      <3>2. CASE ~Answered
        BY <1>6, <3>2 DEF AssignDynamicChunks
      <3>. QED
        BY <3>1, <3>2
    <2>1. FlagTypes'
      BY <1>6, <2>0, RequestTypes DEF AssignDynamicChunks, Answered
    <2>2. CounterTypes'
      BY <1>6, <2>0, RequestTypes, Parameters, FaultType DEF AssignDynamicChunks, Answered
    <2>3. StreamTypes'
      BY <1>6, <2>0, RequestTypes, Parameters DEF AssignDynamicChunks, Answered, NothingSent, Empty
    <2>4. SnapshotTypes'
      BY <1>6, <2>0, RequestTypes DEF AssignDynamicChunks, Answered
    <2>5. ValueTypes'
      BY <1>6, <2>0, RequestTypes, Parameters DEF AssignDynamicChunks, Answered, Outcome
    <2>. HIDE DEF Types, TypeOK
    <2>. QED
      BY <2>1, <2>2, <2>3, <2>4, <2>5 DEF Types, TypeOK
  <1>7. ASSUME NEW s \in Streams, CloseDynamicIndex(s) PROVE Types'
    <2>1. FlagTypes'
      BY <1>7, RequestTypes DEF CloseDynamicIndex, Answered
    <2>2. CounterTypes'
      BY <1>7, RequestTypes, Parameters, FaultType DEF CloseDynamicIndex, Answered
    <2>3. StreamTypes'
      BY <1>7, RequestTypes, Parameters DEF CloseDynamicIndex, Answered, NothingSent, Empty
    <2>4. SnapshotTypes'
      BY <1>7, RequestTypes DEF CloseDynamicIndex, Answered
    <2>5. ValueTypes'
      BY <1>7, RequestTypes, Parameters DEF CloseDynamicIndex, Answered, Outcome
    <2>. HIDE DEF Types, TypeOK
    <2>. QED
      BY <2>1, <2>2, <2>3, <2>4, <2>5 DEF Types, TypeOK
  <1>8. CASE StopWalk
    BY <1>8, Parameters, FaultType DEF StopWalk, Fail
  <1>9. CASE EndWalk
    BY <1>9, Parameters, FaultType DEF EndWalk
  <1>10. CASE UploadBlobs
    <2>1. FlagTypes'
      BY <1>10 DEF UploadBlobs
    <2>2. CounterTypes'
      BY <1>10, Parameters, FaultType DEF UploadBlobs
    <2>3. StreamTypes'
      BY <1>10, Parameters DEF UploadBlobs, NothingSent, Empty
    <2>4. SnapshotTypes'
      BY <1>10 DEF UploadBlobs
    <2>5. ValueTypes'
      BY <1>10, Parameters DEF UploadBlobs, Outcome
    <2>. HIDE DEF Types, TypeOK
    <2>. QED
      BY <2>1, <2>2, <2>3, <2>4, <2>5 DEF Types, TypeOK
  <1>11. CASE UploadManifest
    <2>1. FlagTypes'
      BY <1>11, RequestTypes DEF UploadManifest, Answered
    <2>2. CounterTypes'
      BY <1>11, RequestTypes, Parameters, FaultType DEF UploadManifest, Answered
    <2>3. StreamTypes'
      BY <1>11, RequestTypes, Parameters DEF UploadManifest, Answered, NothingSent, Empty
    <2>4. SnapshotTypes'
      BY <1>11, RequestTypes DEF UploadManifest, Answered
    <2>5. ValueTypes'
      BY <1>11, RequestTypes, Parameters DEF UploadManifest, Answered, Outcome
    <2>. HIDE DEF Types, TypeOK
    <2>. QED
      BY <2>1, <2>2, <2>3, <2>4, <2>5 DEF Types, TypeOK
  <1>12. CASE ReleaseSnapshot
    BY <1>12, Parameters, FaultType DEF ReleaseSnapshot, Fault, Fail
  <1>13. CASE Teardown
    <2>1. FlagTypes'
      BY <1>13 DEF Teardown, Close
    <2>2. CounterTypes'
      BY <1>13, Parameters, FaultType DEF Teardown, Close
    <2>3. StreamTypes'
      BY <1>13, Parameters DEF Teardown, Close, NothingSent, Empty
    <2>4. SnapshotTypes'
      BY <1>13 DEF Teardown, Close
    <2>5. ValueTypes'
      BY <1>13, Parameters DEF Teardown, Close, Outcome
    <2>. HIDE DEF Types, TypeOK
    <2>. QED
      BY <2>1, <2>2, <2>3, <2>4, <2>5 DEF Types, TypeOK
  <1>14. CASE StopWaiting
    BY <1>14, Parameters DEF StopWaiting, EndAs, Outcome
  <1>15. CASE Retry
    BY <1>15, Parameters, FaultType DEF Retry
  <1>16. CASE StopUncommitted
    BY <1>16, Parameters DEF StopUncommitted, EndAs, Outcome, Close
  <1>17. CASE GiveUp
    BY <1>17, Parameters, FaultType DEF GiveUp
  <1>18. CASE Decide
    BY <1>18, Parameters, FaultType DEF Decide
  <1>19. CASE Finish
    <2>1. FlagTypes'
      BY <1>19 DEF Finish, Commit
    <2>2. CounterTypes'
      BY <1>19, Parameters, FaultType DEF Finish, Commit
    <2>3. StreamTypes'
      BY <1>19, Parameters DEF Finish, Commit, NothingSent, Empty
    <2>4. SnapshotTypes'
      <3>1. [content |-> index, missing |-> seen]
              \in [content : [Streams -> Seq(Chunks)], missing : SUBSET Issue]
        OBVIOUS
      <3>2. UNCHANGED snapshots \/ snapshots' = Append(snapshots, [content |-> index, missing |-> seen])
        BY <1>19 DEF Finish, Commit
      <3>. DEFINE Snap == [content : [Streams -> Seq(Chunks)], missing : SUBSET Issue]
                  entry == [content |-> index, missing |-> seen]
      <3>3. snapshots \in Seq(Snap) /\ entry \in Snap
        BY <3>1
      <3>. HIDE DEF Snap, entry
      <3>4. Append(snapshots, entry) \in Seq(Snap)
        BY <3>3, AppendProperties
      <3>5. UNCHANGED snapshots \/ snapshots' = Append(snapshots, entry)
        BY <3>2 DEF entry
      <3>6. snapshots' \in Seq(Snap)
        BY <3>3, <3>4, <3>5
      <3>. QED
        BY <3>6 DEF Snap
    <2>5. ValueTypes'
      BY <1>19, Parameters DEF Finish, Commit, Outcome
    <2>. HIDE DEF Types, TypeOK
    <2>. QED
      BY <2>1, <2>2, <2>3, <2>4, <2>5 DEF Types, TypeOK
  <1>20. CASE Report
    <2>1. FlagTypes'
      BY <1>20 DEF Report, EndAs, FinalOutcome
    <2>2. CounterTypes'
      BY <1>20, Parameters, FaultType DEF Report, EndAs, FinalOutcome
    <2>3. StreamTypes'
      BY <1>20, Parameters DEF Report, EndAs, FinalOutcome, NothingSent, Empty
    <2>4. SnapshotTypes'
      BY <1>20 DEF Report, EndAs, FinalOutcome
    <2>5. ValueTypes'
      BY <1>20, Parameters DEF Report, EndAs, FinalOutcome, Outcome
    <2>. HIDE DEF Types, TypeOK
    <2>. QED
      BY <2>1, <2>2, <2>3, <2>4, <2>5 DEF Types, TypeOK
  <1>21. ASSUME NEW issue \in Issue, Skip(issue) PROVE Types'
    BY <1>21, Parameters, FaultType DEF Skip, Fault
  <1>22. CASE Cancel
    BY <1>22, Parameters, FaultType DEF Cancel
  <1>23. CASE Tick
    BY <1>23, Parameters, FaultType DEF Tick
  <1>24. CASE Reap
    BY <1>24, Parameters, FaultType DEF Reap
  <1>25. CASE UNCHANGED vars
    BY <1>25, Parameters, FaultType DEF vars
  <1>. QED
    BY <1>1, <1>2, <1>3, <1>4, <1>5, <1>6, <1>7, <1>8, <1>9, <1>10, <1>11, <1>12, <1>13, <1>14, <1>15, <1>16, <1>17, <1>18, <1>19, <1>20, <1>21, <1>22, <1>23, <1>24, <1>25
    DEF Next, Step, RequestStep, LocalStep
\* Either nothing was listed, or the chunk that was is in the datastore, which only grows.
LEMMA PutChunkStores ==
  ASSUME Types, DataInv, NEW s \in Streams, PutChunk(s)
  PROVE  /\ store \subseteq store' /\ known' \subseteq store' /\ (alive' => alive)
         /\ \/ UNCHANGED sent
            \/ sent' = [sent EXCEPT ![s] = sent[s] + 1] /\ NextChunk(s) \in store'
         /\ pc' \in {pc, "failing"}
  <1>. USE DEF Types, TypeOK, DataInv
  <1>1. CASE /\ NextChunk(s) \in known /\ sent' = [sent EXCEPT ![s] = @ + 1]
             /\ UNCHANGED <<pc, err, failed, known, store, alive, session, age, faults>>
    BY <1>1
  <1>2. CASE /\ Answered
             /\ store' = store \cup {NextChunk(s)} /\ known' = known \cup {NextChunk(s)}
             /\ sent' = [sent EXCEPT ![s] = @ + 1]
             /\ UNCHANGED <<pc, err, failed>>
    BY <1>2 DEF Answered
  <1>3. CASE /\ failed' = TRUE
             /\ RequestFails
             /\ store' \in {store, store \cup {NextChunk(s)}}
             /\ UNCHANGED <<known, sent>>
    BY <1>3 DEF RequestFails, RedialBlocked, Refused, ConnectionLost, Fail
  <1>. QED
    BY <1>1, <1>2, <1>3 DEF PutChunk

\* A chunk is put after those before it: what is listed stays stored.
LEMMA PutChunkData ==
  ASSUME Types, DataInv, NEW s \in Streams, PutChunk(s), pc \in {"walking", "closing"},
         UNCHANGED <<index, closed>>
  PROVE  DataInv'
  <1>1. /\ store \subseteq store' /\ known' \subseteq store' /\ (alive' => alive)
        /\ \/ UNCHANGED sent
           \/ sent' = [sent EXCEPT ![s] = sent[s] + 1] /\ NextChunk(s) \in store'
        /\ pc' \in {pc, "failing"}
    BY PutChunkStores
  <1>. HIDE DEF PutChunk
  <1>2. /\ sent \in [Streams -> Nat] /\ index \in [Streams -> Seq(Chunks)]
        /\ \A x \in Streams : Len(index[x]) \in Nat
    BY DEF Types
  <1>3. Previous \subseteq store'
    BY <1>1 DEF DataInv
  <1>4. ASSUME NEW x \in Streams PROVE Stored(x, sent[x])'
    <2>1. \A k \in 1 .. sent[x] : Content[x][k] \in store'
      BY <1>1 DEF DataInv, Stored
    <2>2. CASE UNCHANGED sent
      BY <2>1, <2>2 DEF Stored
    <2>3. CASE sent' = [sent EXCEPT ![s] = sent[s] + 1] /\ NextChunk(s) \in store' /\ x = s
      <3>1. sent'[x] = sent[x] + 1 /\ Content[x][sent[x] + 1] \in store'
        BY <1>2, <2>3 DEF NextChunk
      <3>2. \A k \in 1 .. sent[x] + 1 : k \in 1 .. sent[x] \/ k = sent[x] + 1
        BY <1>2
      <3>. QED
        BY <2>1, <3>1, <3>2 DEF Stored
    <2>4. CASE sent' = [sent EXCEPT ![s] = sent[s] + 1] /\ x # s
      BY <1>2, <2>1, <2>4 DEF Stored
    <2>. QED
      BY <1>1, <2>2, <2>3, <2>4
  <1>5. ASSUME NEW x \in Streams PROVE sent[x] <= sent'[x] /\ sent'[x] \in Nat
    <2>1. sent[x] \in Nat
      BY <1>2
    <2>2. sent'[x] = sent[x] \/ sent'[x] = sent[x] + 1
      BY <1>1, <1>2
    <2>. QED
      BY <2>1, <2>2
  <1>6. ASSUME alive', NEW x \in Streams
        PROVE  /\ Prefix(index[x], Content[x])' /\ Len(index'[x]) <= sent'[x]
               /\ x \in closed' => Len(index'[x]) = Len(Content[x])
    <2>1. /\ Prefix(index[x], Content[x]) /\ Len(index[x]) <= sent[x]
          /\ x \in closed => Len(index[x]) = Len(Content[x])
      BY <1>1, <1>6 DEF DataInv
    <2>2. index' = index /\ closed' = closed
      OBVIOUS
    <2>3. Prefix(index[x], Content[x])'
      BY <2>1, <2>2 DEF Prefix
    <2>. QED
      BY <1>2, <1>5, <2>1, <2>2, <2>3
  <1>7. ~(pc \in {"blobs", "sealing", "releasing"} \/ GotThrough)'
    BY <1>1 DEF GotThrough
  <1>. QED
    BY <1>1, <1>3, <1>4, <1>6, <1>7 DEF DataInv

\* An index that holds the start of its stream holds it with the next batch, too.
LEMMA BatchExtends ==
  ASSUME NEW c \in Seq(Chunks), NEW i \in Seq(Chunks), NEW n \in Nat,
         Len(i) < n, n <= Len(c), Prefix(i, c)
  PROVE  LET j == i \o SubSeq(c, Len(i) + 1, Least(Len(i) + BatchSize, n))
         IN  j \in Seq(Chunks) /\ Prefix(j, c) /\ Len(j) <= n
  <1>. DEFINE m == Least(Len(i) + BatchSize, n)
              b == SubSeq(c, Len(i) + 1, m)
              j == i \o b
  <1>1. /\ m \in Len(i) .. n /\ b \in Seq(Chunks) /\ Len(b) = m - Len(i)
        /\ \A k \in 1 .. m - Len(i) : b[k] = c[Len(i) + k]
    BY BatchType
  <1>. HIDE DEF m, b
  <1>2. /\ j \in Seq(Chunks) /\ Len(j) = Len(i) + Len(b)
        /\ \A k \in 1 .. Len(i) + Len(b) : j[k] = IF k <= Len(i) THEN i[k] ELSE b[k - Len(i)]
    BY <1>1, ConcatProperties
  <1>3. Len(i) \in Nat /\ Len(c) \in Nat /\ m \in Nat
    BY <1>1
  <1>4. Len(j) = m /\ m <= n
    BY <1>1, <1>2, <1>3
  <1>. HIDE DEF j
  <1>5. ASSUME NEW k \in 1 .. Len(j) PROVE j[k] = c[k]
    <2>1. CASE k <= Len(i)
      <3>1. k \in 1 .. Len(i) /\ k \in 1 .. Len(i) + Len(b)
        BY <1>1, <1>3, <1>4, <1>5, <2>1
      <3>2. j[k] = i[k]
        BY <1>2, <2>1, <3>1
      <3>. QED
        BY <3>1, <3>2 DEF Prefix
    <2>2. CASE ~(k <= Len(i))
      <3>1. k - Len(i) \in 1 .. m - Len(i) /\ Len(i) + (k - Len(i)) = k
        BY <1>3, <1>4, <1>5, <2>2
      <3>2. j[k] = b[k - Len(i)]
        BY <1>1, <1>2, <1>3, <1>4, <1>5, <2>2
      <3>. QED
        BY <1>1, <3>1, <3>2
    <2>. QED
      BY <2>1, <2>2
  <1>. QED
    BY <1>2, <1>3, <1>4, <1>5 DEF Prefix, j, b, m

\* What is known or listed is stored, and the indexes hold what was listed.
LEMMA DataStep ==
  ASSUME Types, SessionInv, DataInv, [Next]_vars
  PROVE  DataInv'
  <1>0. Types /\ DataInv
    OBVIOUS
  <1>. USE DEF Types, TypeOK, SessionInv, DataInv, Stored, Prefix, Working, Idle, GotThrough
  <1>1. CASE StopBeforeStart
    BY <1>1 DEF StopBeforeStart, EndAs
  <1>2. CASE Connect
    <2>1. Previous \subseteq store' /\ known' \subseteq store'
      BY <1>2 DEF Connect
    <2>2. \A s \in Streams : Stored(s, sent[s])'
      BY <1>2 DEF Connect, NothingSent
    <2>3. ASSUME alive', NEW s \in Streams
          PROVE  /\ Prefix(index[s], Content[s])' /\ Len(index'[s]) <= sent'[s]
                 /\ s \in closed' => Len(index'[s]) = Len(Content[s])
      <3>1. index'[s] = <<>> /\ sent'[s] = 0 /\ closed' = {}
        BY <1>2, <2>3 DEF Connect, NothingSent, Empty
      <3>2. Len(Content[s]) \in Nat
        BY Parameters
      <3>. QED
        BY <3>1, <3>2
    <2>4. pc' = "opening"
      BY <1>2 DEF Connect
    <2>. QED
      BY <2>1, <2>2, <2>3, <2>4
  <1>3. CASE CreateDynamicIndexes
    BY <1>3
    DEF CreateDynamicIndexes, RequestFails, RedialBlocked, Refused, ConnectionLost, Fail, Fault, Answered
  <1>4. ASSUME NEW s \in Streams, HandleData(s) PROVE DataInv'
    <2>1. PutChunk(s) /\ pc \in {"walking", "closing"} /\ UNCHANGED <<index, closed>>
      BY <1>4 DEF HandleData
    <2>. HIDE DEF Types, DataInv
    <2>. QED
      BY <1>0, <2>1, PutChunkData
  <1>5. ASSUME NEW s \in Streams, FinalChunk(s) PROVE DataInv'
    <2>1. pc \in {"walking", "closing"} /\ UNCHANGED <<index, closed>>
      BY <1>5 DEF FinalChunk
    <2>2. CASE PutChunk(s)
      <3>. HIDE DEF Types, DataInv
      <3>. QED
        BY <1>0, <2>1, <2>2, PutChunkData
    <2>3. CASE ~PutChunk(s)
      <3>1. pc' = "failing" /\ UNCHANGED <<known, sent, store, alive, index, closed>>
        BY <1>5, <2>3 DEF FinalChunk, Fail
      <3>. QED
        BY <3>1
    <2>. QED
      BY <2>2, <2>3
  <1>6. ASSUME NEW s \in Streams, AssignDynamicChunks(s) PROVE DataInv'
    <2>1. CASE Answered
      <3>. DEFINE longer == index[s] \o SubSeq(Content[s], Len(index[s]) + 1,
                                     Least(Len(index[s]) + BatchSize, sent[s]))
      <3>1. /\ Content[s] \in Seq(Chunks) /\ index[s] \in Seq(Chunks)
            /\ sent[s] \in Nat /\ Len(index[s]) < sent[s] /\ sent[s] <= Len(Content[s])
            /\ s \notin closed
            /\ UNCHANGED <<known, sent, store, closed>>
        BY <1>6, Parameters DEF AssignDynamicChunks, InTurn
      <3>2. alive /\ Prefix(index[s], Content[s])
        BY <2>1 DEF Answered
      <3>3. longer \in Seq(Chunks) /\ Prefix(longer, Content[s]) /\ Len(longer) <= sent[s]
        <4>. HIDE DEF Prefix
        <4>. QED
          BY <3>1, <3>2, BatchExtends
      <3>4. (index' = [index EXCEPT ![s] = longer] /\ pc' = pc) \/ (UNCHANGED index /\ pc' = "failing")
        BY <1>6
        DEF AssignDynamicChunks, RequestFails, RedialBlocked, Refused, ConnectionLost, Fail
      <3>. HIDE DEF longer
      <3>5. pc = "closing" /\ pc' \in {"closing", "failing"}
        BY <1>6, <3>4 DEF AssignDynamicChunks
      <3>6. ASSUME NEW x \in Streams
            PROVE  /\ Prefix(index[x], Content[x])' /\ Len(index'[x]) <= sent'[x]
                   /\ x \in closed' => Len(index'[x]) = Len(Content[x])
        <4>1. CASE x = s /\ index' = [index EXCEPT ![s] = longer]
          BY <3>1, <3>3, <4>1
        <4>2. CASE x # s \/ UNCHANGED index
          BY <3>1, <3>2, <3>4, <4>2
        <4>. QED
          BY <3>4, <4>1, <4>2
      <3>. QED
        BY <3>1, <3>5, <3>6
    <2>2. CASE ~Answered
      BY <1>6, <2>2
      DEF AssignDynamicChunks, RequestFails, RedialBlocked, Refused, ConnectionLost, Fail, Fault
    <2>. QED
      BY <2>1, <2>2
  <1>7. ASSUME NEW s \in Streams, CloseDynamicIndex(s) PROVE DataInv'
    BY <1>7
    DEF CloseDynamicIndex, RequestFails, RedialBlocked, Refused, ConnectionLost, Fail, Fault, Answered
  <1>8. CASE StopWalk
    BY <1>8 DEF StopWalk, Fail
  <1>9. CASE EndWalk
    BY <1>9 DEF EndWalk
  <1>10. CASE UploadBlobs
    BY <1>10 DEF UploadBlobs, Fault
  <1>11. CASE UploadManifest
    BY <1>11
    DEF UploadManifest, RequestFails, RedialBlocked, Refused, ConnectionLost, Fail, Fault, Answered
  <1>12. CASE ReleaseSnapshot
    BY <1>12 DEF ReleaseSnapshot, Fault, Fail
  <1>13. CASE Teardown
    BY <1>13 DEF Teardown, Close
  <1>14. CASE StopWaiting
    BY <1>14 DEF StopWaiting, EndAs
  <1>15. CASE Retry
    BY <1>15 DEF Retry
  <1>16. CASE StopUncommitted
    BY <1>16 DEF StopUncommitted, Close, EndAs
  <1>17. CASE GiveUp
    BY <1>17 DEF GiveUp
  <1>18. CASE Decide
    BY <1>18 DEF Decide
  <1>19. CASE Finish
    BY <1>19 DEF Finish, Commit, Fault
  <1>20. CASE Report
    BY <1>20 DEF Report, EndAs
  <1>21. ASSUME NEW issue \in Issue, Skip(issue) PROVE DataInv'
    BY <1>21 DEF Skip, Fault
  <1>22. CASE Cancel
    BY <1>22 DEF Cancel
  <1>23. CASE Tick
    BY <1>23 DEF Tick
  <1>24. CASE Reap
    BY <1>24 DEF Reap
  <1>25. CASE UNCHANGED vars
    BY <1>25 DEF vars
  <1>. QED
    BY <1>1, <1>2, <1>3, <1>4, <1>5, <1>6, <1>7, <1>8, <1>9, <1>10, <1>11, <1>12, <1>13, <1>14, <1>15, <1>16, <1>17, <1>18, <1>19, <1>20, <1>21, <1>22, <1>23, <1>24, <1>25
    DEF Next, Step, RequestStep, LocalStep
----------------------------------------------------------------------------
(* What is committed *)

\* Only Finish commits, and the datastore never loses a chunk.
LEMMA SnapshotStep ==
  ASSUME [Next]_vars
  PROVE  /\ store \subseteq store'
         /\ UNCHANGED snapshots \/ (Finish /\ Commit)
  <1>1. CASE Finish
    BY <1>1 DEF Finish
  <1>2. ASSUME NEW s \in Streams, PutChunk(s) PROVE store \subseteq store'
    BY <1>2 DEF PutChunk, Answered
  <1>3. ASSUME NEW s \in Streams, HandleData(s) PROVE store \subseteq store' /\ UNCHANGED snapshots
    BY <1>2, <1>3 DEF HandleData
  <1>4. ASSUME NEW s \in Streams, FinalChunk(s) PROVE store \subseteq store' /\ UNCHANGED snapshots
    BY <1>2, <1>4 DEF FinalChunk
  <1>5. ASSUME NEW s \in Streams, AssignDynamicChunks(s) \/ CloseDynamicIndex(s)
        PROVE  UNCHANGED <<store, snapshots>>
    BY <1>5 DEF AssignDynamicChunks, CloseDynamicIndex
  <1>6. CASE \/ StopBeforeStart \/ Connect \/ CreateDynamicIndexes \/ StopWalk \/ EndWalk
             \/ UploadBlobs \/ UploadManifest \/ ReleaseSnapshot \/ Teardown
    BY <1>6
    DEF StopBeforeStart, Connect, CreateDynamicIndexes, StopWalk, EndWalk, UploadBlobs,
        UploadManifest, ReleaseSnapshot, Teardown
  <1>7. CASE \/ StopWaiting \/ Retry \/ StopUncommitted \/ GiveUp \/ Decide \/ Report
             \/ Cancel \/ Tick \/ Reap \/ UNCHANGED vars
    BY <1>7 DEF StopWaiting, Retry, StopUncommitted, GiveUp, Decide, Report, Cancel, Tick, Reap, vars
  <1>8. ASSUME NEW issue \in Issue, Skip(issue) PROVE UNCHANGED <<store, snapshots>>
    BY <1>8 DEF Skip
  <1>. QED
    BY <1>1, <1>3, <1>4, <1>5, <1>6, <1>7, <1>8 DEF Next, Step, RequestStep, LocalStep

\* What is about to be committed is the folder, every chunk of it stored.
LEMMA Complete ==
  ASSUME Types, SessionInv, DataInv, pc = "finishing"
  PROVE  index = Content /\ \A s \in Streams : \A k \in 1 .. Len(Content[s]) : Content[s][k] \in store
  <1>. USE DEF Types, TypeOK
  <1>1. alive /\ closed = Streams
    BY DEF SessionInv, DataInv, GotThrough
  <1>2. ASSUME NEW s \in Streams
        PROVE  index[s] = Content[s] /\ \A k \in 1 .. Len(Content[s]) : Content[s][k] \in store
    <2>1. /\ index[s] \in Seq(Chunks) /\ Content[s] \in Seq(Chunks) /\ sent[s] \in Nat
          /\ sent[s] <= Len(Content[s])
      BY Parameters
    <2>2. /\ Prefix(index[s], Content[s]) /\ Len(index[s]) <= sent[s]
          /\ Len(index[s]) = Len(Content[s]) /\ Stored(s, sent[s])
      BY <1>1 DEF DataInv
    <2>3. index[s] = Content[s]
      BY <2>1, <2>2, SeqEqual DEF Prefix
    <2>4. sent[s] = Len(Content[s])
      BY <2>1, <2>2
    <2>. QED
      BY <2>2, <2>3, <2>4 DEF Stored
  <1>. QED
    BY <1>2, Parameters

\* What a commit adds is the one snapshot of the run, of the whole folder.
LEMMA CommitsWhole ==
  ASSUME Types, SessionInv, CommitInv, DataInv, Finish, Commit
  PROVE  snapshots = <<>> /\ snapshots' = <<[content |-> Content, missing |-> seen]>>
  <1>1. pc = "finishing" /\ snapshots = <<>>
    BY DEF Finish, CommitInv
  <1>2. index = Content
    BY <1>1, Complete
  <1>. QED
    BY <1>1, <1>2 DEF Commit

\* A snapshot that can be restored stays so, and each new one can be.
LEMMA RestorableStep ==
  ASSUME Types, SessionInv, CommitInv, DataInv, CommittedRestorable, [Next]_vars
  PROVE  CommittedRestorable'
  <1>1. store \subseteq store' /\ (UNCHANGED snapshots \/ (Finish /\ Commit))
    BY SnapshotStep
  <1>2. CASE UNCHANGED snapshots
    BY <1>1, <1>2 DEF CommittedRestorable
  <1>3. CASE Finish /\ Commit
    <2>1. snapshots' = <<[content |-> Content, missing |-> seen]>>
      BY <1>3, CommitsWhole
    <2>2. \A s \in Streams : \A k \in 1 .. Len(Content[s]) : Content[s][k] \in store'
      BY <1>1, <1>3, Complete DEF Finish
    <2>3. \A s \in Streams : DOMAIN Content[s] = 1 .. Len(Content[s])
      BY Parameters
    <2>4. DOMAIN snapshots' = {1} /\ snapshots'[1].content = Content
      BY <2>1
    <2>. QED
      BY <2>2, <2>3, <2>4 DEF CommittedRestorable
  <1>. QED
    BY <1>1, <1>2, <1>3

----------------------------------------------------------------------------
(* The theorems *)

\* The inductive invariant.
Inv ==
  /\ Types /\ SessionInv /\ LockInv /\ CommitInv /\ DataInv /\ IssueInv
  /\ CommittedRestorable

\* A run starts with nothing sent and nothing committed.
LEMMA InvInit == Init => Inv
  <1>. SUFFICES ASSUME Init PROVE Inv
    OBVIOUS
  <1>. USE DEF Init
  <1>1. Types
    <2>0. waited \in 0 .. RetryWait /\ age \in 0 .. ReapDelay /\ faults \in 0 .. MaxFaults
      BY Parameters
    <2>1. FlagTypes /\ CounterTypes
      BY <2>0 DEF FlagTypes, CounterTypes
    <2>2. StreamTypes /\ SnapshotTypes
      BY EmptyTypes DEF StreamTypes, SnapshotTypes
    <2>3. ValueTypes
      BY Parameters DEF ValueTypes
    <2>4. \A s \in Streams : index[s] \in Seq(Chunks)
      BY <2>2 DEF StreamTypes
    <2>. QED
      BY <2>1, <2>2, <2>3, <2>4
      DEF Types, TypeOK, FlagTypes, CounterTypes, StreamTypes, SnapshotTypes, ValueTypes
  <1>2. SessionInv /\ LockInv /\ CommitInv /\ IssueInv /\ CommittedRestorable
    BY DEF SessionInv, LockInv, CommitInv, IssueInv, CommittedRestorable, Working, Idle, GotThrough
  <1>3. DataInv
    BY DEF DataInv, Stored, NothingSent, GotThrough
  <1>. QED
    BY <1>1, <1>2, <1>3 DEF Inv

\* No step of the run, of the server or of the user breaks the invariant.
LEMMA InvStep == Inv /\ [Next]_vars => Inv'
  <1>. SUFFICES ASSUME Inv, [Next]_vars PROVE Inv'
    OBVIOUS
  <1>1. TypeOK
    BY DEF Inv, Types
  <1>. QED
    BY <1>1, TypeStep, SessionStep, LockStep, CommitStep, DataStep, IssueStep, RestorableStep
    DEF Inv

\* The invariant holds throughout every run.
LEMMA Invariance == Spec => []Inv
  BY InvInit, InvStep, PTL DEF Spec

\* Every variable of a run keeps its type: a stream never lists more chunks than it has,
\* the attempts stop at maxDirAttempts, and the wait for the group lock at
\* sessionLostRetryWait (runBackupInlineInternal, ChunkState).
THEOREM TypeCorrect == Spec => []TypeOK
  <1>1. Inv => TypeOK
    BY DEF Inv, Types
  <1>. QED
    BY <1>1, Invariance, PTL

\* A committed snapshot is the whole folder and every chunk of it is in the datastore,
\* whatever was refused, lost, retried or cancelled on the way (HandleData, EOF,
\* AssignDynamicChunks).
THEOREM Restorable == Spec => []CommittedRestorable
  <1>1. Inv => CommittedRestorable
    BY DEF Inv
  <1>. QED
    BY <1>1, Invariance, PTL

\* However a run ends, no session of it is open at the server (Close, Finish).
THEOREM Released == Spec => []SessionReleased
  <1>1. Inv => SessionReleased
    BY DEF Inv, SessionInv, SessionReleased, Idle
  <1>. QED
    BY <1>1, Invariance, PTL

\* A cancel that comes in time leaves no snapshot (the check of the context before
\* Finish).
THEOREM CancelHonoured == Spec => []CancelCommitsNothing
  <1>1. Inv => CancelCommitsNothing
    BY DEF Inv, CommitInv, CancelCommitsNothing
  <1>. QED
    BY <1>1, Invariance, PTL

\* The attempt after a lost session finds the group's lock free, for any delay of the
\* server that is shorter than sessionLostRetryWait.
THEOREM RetryUnlocked == Spec => []RetryFindsLockFree
  <1>1. Inv => RetryFindsLockFree
    BY DEF Inv, LockInv, RetryFindsLockFree
  <1>. QED
    BY <1>1, Invariance, PTL

\* An end the run reports without a commit: it is cancelled before the last check.
LEMMA CancelledEnds ==
  ASSUME CommitInv, pc \in {"connecting", "waiting", "decided"}, EndAs("cancelled"),
         UNCHANGED snapshots
  PROVE  Promise!End
  BY DEF CommitInv, EndAs, Promise!End, Promise!Report, Promise!Honest

\* The report of a run that was not cancelled claims no more than was committed
\* (finalOutcome).
LEMMA ReportHonest ==
  ASSUME TypeOK, CommitInv, IssueInv, Report
  PROVE  Promise!End
  <1>1. /\ pc = "reporting" /\ outcome = None /\ UNCHANGED snapshots
        /\ outcome' = FinalOutcome
    BY DEF Report, EndAs, CommitInv
  <1>2. FinalOutcome # "failed" => snapshots # <<>> /\ issues = snapshots[1].missing
    BY <1>1 DEF FinalOutcome, IssueInv
  <1>3. issues \subseteq Issue
    BY DEF TypeOK
  <1>4. Promise!Honest(FinalOutcome)
    BY <1>2, <1>3 DEF Promise!Honest, FinalOutcome, Issue
  <1>5. FinalOutcome \in Promise!Report
    BY DEF FinalOutcome, Promise!Report
  <1>. QED
    BY <1>1, <1>4, <1>5 DEF Promise!End

\* Every step of a run commits its snapshot, reports, or changes neither.
LEMMA PromiseStep ==
  ASSUME Inv, [Next]_vars
  PROVE  [Promise!Next]_<<snapshots, outcome>>
  <1>. USE DEF Promise!Next
  <1>1. CASE Finish /\ Commit
    <2>1. snapshots = <<>> /\ snapshots' = <<[content |-> Content, missing |-> seen]>>
      BY <1>1, CommitsWhole DEF Inv
    <2>2. outcome = None /\ UNCHANGED outcome
      BY <1>1 DEF Inv, CommitInv, Finish
    <2>3. seen \in SUBSET Promise!Issue
      BY DEF Inv, Types, TypeOK, Issue, Promise!Issue
    <2>. QED
      BY <2>1, <2>2, <2>3 DEF Promise!Commit
  <1>2. CASE StopBeforeStart \/ StopWaiting \/ StopUncommitted
    <2>1. pc \in {"connecting", "waiting", "decided"} /\ EndAs("cancelled") /\ UNCHANGED snapshots
      BY <1>2 DEF StopBeforeStart, StopWaiting, StopUncommitted
    <2>. QED
      BY <2>1, CancelledEnds DEF Inv
  <1>3. CASE Report
    BY <1>3, ReportHonest DEF Inv, Types
  <1>4. CASE /\ UNCHANGED snapshots
             /\ ~(StopBeforeStart \/ StopWaiting \/ StopUncommitted \/ Report)
    <2>1. ASSUME NEW s \in Streams,
                 HandleData(s) \/ FinalChunk(s) \/ AssignDynamicChunks(s) \/ CloseDynamicIndex(s)
          PROVE  UNCHANGED outcome
      BY <2>1 DEF HandleData, FinalChunk, AssignDynamicChunks, CloseDynamicIndex
    <2>2. CASE Connect \/ CreateDynamicIndexes \/ StopWalk \/ EndWalk \/ UploadBlobs \/ UploadManifest
      BY <1>4, <2>2
      DEF Connect, CreateDynamicIndexes, StopWalk, EndWalk, UploadBlobs, UploadManifest
    <2>3. CASE \/ ReleaseSnapshot \/ Teardown \/ Retry \/ GiveUp \/ Decide \/ Finish
               \/ Cancel \/ Tick \/ Reap \/ UNCHANGED vars
      BY <1>4, <2>3
      DEF ReleaseSnapshot, Teardown, Retry, GiveUp, Decide, Finish, Cancel, Tick, Reap, vars
    <2>4. ASSUME NEW issue \in Issue, Skip(issue) PROVE UNCHANGED outcome
      BY <2>4 DEF Skip
    <2>. QED
      BY <1>4, <2>1, <2>2, <2>3, <2>4 DEF Next, Step, RequestStep, LocalStep
  <1>. QED
    BY <1>1, <1>2, <1>3, <1>4, SnapshotStep

\* The backup of a folder keeps its promise: at most one snapshot, whole, and one report
\* that claims no more than was committed.
THEOREM Implements == Spec => HonestSnapshot
  <1>1. Init => Promise!Init
    BY DEF Init, Promise!Init
  <1>2. Inv /\ [Next]_vars => [Promise!Next]_<<snapshots, outcome>>
    BY PromiseStep
  <1>. QED
    BY <1>1, <1>2, Invariance, PTL DEF Spec, HonestSnapshot, Promise!Spec
===============================================================================
