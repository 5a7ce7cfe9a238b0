----------------------------- MODULE UploadWorker -----------------------------
(***************************************************************************)
(* The pipeline that backs up one disk (machinebackuplib/machinebackup.go, *)
(* linux.go, windows.go): a reader sends the blocks of the device, posfn    *)
(* numbers them, workers upload them, and uploadWorker collects the workers *)
(* and commits the fixed index.                                            *)
(*                                                                         *)
(* The channels are unbuffered, so sending and receiving are one step; the *)
(* workers share one variable for the error of an upload, without a lock.   *)
(* Restarting the pipeline, and the bytes of a block, are left out.         *)
(***************************************************************************)
EXTENDS Naturals, Sequences, FiniteSets

CONSTANTS Workers,       \* 8 in the code
          Digests,       \* digests
          Device,        \* the blocks of the device
          Sizes,         \* sizes, in blocks, that the device may have been announced with
          PreviousIndex, \* chunks of the previous index
          MaxDiskFaults, \* bound: requests refused
          Nobody

UploadAssumption ==
  /\ Device \in Seq(Digests) /\ PreviousIndex \subseteq Digests
  /\ Sizes \subseteq Nat /\ Sizes # {}
  /\ Workers # {} /\ IsFiniteSet(Workers) /\ Nobody \notin Workers
  /\ MaxDiskFaults \in Nat

VARIABLES
  size,        \* total_size
  reader,      \* "reading", "ended" or, with the cause sent to readErrCh, "failed"
  nextBlock,   \* the next block the reader sends
  held,        \* the block posfn has for the next worker, or 0
  wpc, seg,    \* of the workers
  mutex,       \* assignment_mutex, when a worker keeps it over more than one step
  knownChunks, \* knownChunks
  listed,      \* assignments and assignments_offset: <<chunk, position>>
  count,       \* processed_size
  sharedErr,   \* the variable the workers share: the error of the last upload, or none
  mpc,         \* of uploadWorker
  nils,        \* how many workers it has seen end
  datastore,   \* the server: its chunks, and the index once it is closed
  fixedIndex,
  diskFaults

readerVars == <<reader, nextBlock, held>>
workerVars == <<wpc, seg, mutex, knownChunks, listed, count, sharedErr>>
mainVars == <<mpc, nils>>
indexVars == <<datastore, fixedIndex>>
diskVars == <<size, readerVars, workerVars, mainVars, indexVars, diskFaults>>

Blocks == DOMAIN Device

DiskInit ==
  /\ size \in Sizes
  /\ reader = "reading" /\ nextBlock = 1 /\ held = 0
  /\ wpc = [w \in Workers |-> "idle"] /\ seg = [w \in Workers |-> 0]
  /\ mutex = Nobody
  \* The previous index is downloaded, or there is none.
  /\ knownChunks \in {PreviousIndex, {}}
  /\ listed = {} /\ count = 0 /\ sharedErr = FALSE
  /\ mpc = "collecting" /\ nils = 0
  /\ datastore = PreviousIndex /\ fixedIndex = {}
  /\ diskFaults = 0

DiskFault == diskFaults < MaxDiskFaults /\ diskFaults' = diskFaults + 1

Goto(w, label) == wpc' = [wpc EXCEPT ![w] = label]
ChunkOf(w) == Device[seg[w]]

----------------------------------------------------------------------------
(* The reader, and posfn *)

\* A block goes to posfn, which numbers it.
SendBlock ==
  /\ reader = "reading" /\ nextBlock <= Len(Device) /\ held = 0
  /\ held' = nextBlock
  /\ nextBlock' = nextBlock + 1
  /\ UNCHANGED <<size, reader, workerVars, mainVars, indexVars, diskFaults>>

\* The end of the device: nil is sent to readErrCh, and then the channel is closed.
ReaderEnds ==
  /\ reader = "reading" /\ nextBlock = Len(Device) + 1
  /\ reader' = "ended"
  /\ UNCHANGED <<size, nextBlock, held, workerVars, mainVars, indexVars, diskFaults>>

\* A read error, or the user pressed Stop.
ReaderFails ==
  /\ reader = "reading" /\ nextBlock <= Len(Device)
  /\ DiskFault
  /\ reader' = "failed"
  /\ UNCHANGED <<size, nextBlock, held, workerVars, mainVars, indexVars>>

\* Mutant: the reader of a failed backup is not told.
ReaderDropsForgotten ==
  /\ reader = "reading" /\ mpc = "committed"
  /\ reader' = "failed"
  /\ UNCHANGED <<size, nextBlock, held, workerVars, mainVars, indexVars, diskFaults>>

\* The uploader is gone (uploadDone): the reader drops what it has.
ReaderDrops ==
  /\ reader = "reading" /\ mpc \in {"failed", "committed"}
  /\ reader' = "failed"
  /\ UNCHANGED <<size, nextBlock, held, workerVars, mainVars, indexVars, diskFaults>>

----------------------------------------------------------------------------
(* A worker *)

TakeBlock(w) ==
  /\ wpc[w] = "idle" /\ held # 0
  /\ Goto(w, "taken")
  /\ seg' = [seg EXCEPT ![w] = held]
  /\ held' = 0
  /\ UNCHANGED <<size, reader, nextBlock, mutex, knownChunks, listed, count, sharedErr,
                 mainVars, indexVars, diskFaults>>

\* Mutant: a chunk another worker has is not listed again.
LookUpUnlisted(w) ==
  /\ wpc[w] = "taken" /\ mutex = Nobody
  /\ knownChunks' = knownChunks \cup {ChunkOf(w)}
  /\ Goto(w, IF ChunkOf(w) \in knownChunks THEN "idle" ELSE "uploading")
  /\ UNCHANGED <<size, readerVars, seg, mutex, listed, count, sharedErr, mainVars, indexVars,
                 diskFaults>>

\* Under the mutex: the chunk is known from now on, before it is uploaded.
LookUp(w) ==
  /\ wpc[w] = "taken" /\ mutex = Nobody
  /\ knownChunks' = knownChunks \cup {ChunkOf(w)}
  /\ Goto(w, IF ChunkOf(w) \in knownChunks THEN "listing" ELSE "uploading")
  /\ UNCHANGED <<size, readerVars, seg, mutex, listed, count, sharedErr, mainVars, indexVars,
                 diskFaults>>

\* The upload ends, and its error goes to the shared variable.
Upload(w) ==
  /\ wpc[w] = "uploading"
  /\ Goto(w, "checking")
  /\ \/ sharedErr' = FALSE /\ datastore' = datastore \cup {ChunkOf(w)} /\ UNCHANGED diskFaults
     \/ sharedErr' = TRUE /\ DiskFault /\ UNCHANGED datastore
  /\ UNCHANGED <<size, readerVars, seg, mutex, knownChunks, listed, count, mainVars,
                 fixedIndex>>

\* The worker looks at that variable, which by now may hold another upload's error.
CheckError(w) ==
  /\ wpc[w] = "checking"
  /\ Goto(w, IF sharedErr THEN "failing" ELSE "listing")
  /\ UNCHANGED <<size, readerVars, seg, mutex, knownChunks, listed, count, sharedErr, mainVars,
                 indexVars, diskFaults>>

\* The block is listed.  One too many is an error, reported with the mutex still held.
ListBlock(w) ==
  /\ wpc[w] = "listing" /\ mutex = Nobody
  /\ listed' = listed \cup {<<ChunkOf(w), seg[w]>>}
  /\ count' = count + 1
  /\ IF count' > size THEN mutex' = w /\ Goto(w, "failing")
                      ELSE UNCHANGED mutex /\ Goto(w, "idle")
  /\ seg' = [seg EXCEPT ![w] = 0]
  /\ UNCHANGED <<size, readerVars, knownChunks, sharedErr, mainVars, indexVars, diskFaults>>

\* No more blocks: the worker has one message left to send.
WorkerEnds(w) ==
  /\ wpc[w] = "idle" /\ reader # "reading" /\ held = 0
  /\ Goto(w, "ending")
  /\ UNCHANGED <<size, readerVars, seg, mutex, knownChunks, listed, count, sharedErr, mainVars,
                 indexVars, diskFaults>>

----------------------------------------------------------------------------
(* uploadWorker *)

\* The error of a worker ends the backup.  The worker goes on to a send that nobody
\* receives, like every worker that ends later.
ReceiveError(w) ==
  /\ mpc = "collecting" /\ wpc[w] = "failing"
  /\ mpc' = "failed"
  /\ Goto(w, "ending")
  /\ UNCHANGED <<size, readerVars, seg, mutex, knownChunks, listed, count, sharedErr, nils,
                 indexVars, diskFaults>>

\* The message of a worker that ended; the last one ends the collection.
ReceiveNil(w) ==
  /\ mpc = "collecting" /\ wpc[w] = "ending"
  /\ Goto(w, "gone")
  /\ nils' = nils + 1
  /\ mpc' = IF nils' = Cardinality(Workers) THEN "collected" ELSE mpc
  /\ UNCHANGED <<size, readerVars, seg, mutex, knownChunks, listed, count, sharedErr, indexVars,
                 diskFaults>>

\* The value is in the buffer: it was sent before the channel of blocks was closed.
ReceiveReadError ==
  /\ mpc = "collected" /\ reader # "reading"
  /\ mpc' = IF reader = "failed" THEN "failed" ELSE "assigning"
  /\ UNCHANGED <<size, readerVars, workerVars, nils, indexVars, diskFaults>>

AssignFixedChunks ==
  /\ mpc = "assigning"
  /\ \/ mpc' = "closing" /\ UNCHANGED diskFaults
     \/ mpc' = "failed" /\ DiskFault
  /\ UNCHANGED <<size, readerVars, workerVars, nils, indexVars>>

CloseFixedIndex ==
  /\ mpc = "closing"
  /\ \/ mpc' = "committed" /\ fixedIndex' = listed /\ UNCHANGED diskFaults
     \/ mpc' = "failed" /\ DiskFault /\ UNCHANGED fixedIndex
  /\ UNCHANGED <<size, readerVars, workerVars, nils, datastore>>

----------------------------------------------------------------------------
Read == SendBlock \/ ReaderEnds \/ ReaderDrops

Work(w) ==
  \/ TakeBlock(w) \/ LookUp(w) \/ Upload(w) \/ CheckError(w) \/ ListBlock(w) \/ WorkerEnds(w)

Collect ==
  \/ \E w \in Workers : ReceiveError(w) \/ ReceiveNil(w)
  \/ ReceiveReadError \/ AssignFixedChunks \/ CloseFixedIndex

DiskNext == Read \/ ReaderFails \/ Collect \/ \E w \in Workers : Work(w)

DiskSpec == DiskInit /\ [][DiskNext]_diskVars

\* Every goroutine that can go on does, and every request is answered in the end or its
\* connection breaks: an assumption on the server, as in FolderBackup (ServerAnswers).
FairDiskSpec ==
  /\ DiskSpec
  /\ WF_diskVars(Read) /\ WF_diskVars(Collect)
  /\ \A w \in Workers : WF_diskVars(Work(w))

----------------------------------------------------------------------------
(* Properties *)

\* A committed index has every block of the device, each once and in its place, whichever
\* worker had it, and as many as were announced or fewer.
CommittedWhole ==
  mpc = "committed" =>
    /\ fixedIndex = {<<Device[b], b>> : b \in Blocks}
    /\ count = Len(Device) /\ count <= size

\* uploadWorker always returns, and the reader then ends: it is never left waiting for
\* workers that are gone ("the job hung with the VSS snapshots still held").
Returns == <>(mpc \in {"failed", "committed"} /\ reader # "reading")

(* What the comments promise and the code does not keep *)

\* "commits it (assign + close) when all data has been processed": no chunk whose upload
\* failed is in a committed index.
Confirmed == mpc = "committed" => \A entry \in fixedIndex : entry[1] \in datastore
===============================================================================
