----------------------------- MODULE ImageReader -----------------------------
(***************************************************************************)
(* Reading byte ranges of a backup without downloading it: the server of   *)
(* restored disk images over a fixed index (nbd/fidxserver.go), and the    *)
(* reader of archives and catalogs over a dynamic one                      *)
(* (pbscommon/didx_reader.go).  Both fetch the chunks they need, keep some *)
(* of them, and are called from several goroutines; the first holds a lock *)
(* over a whole read, the second only over each access to its cache.       *)
(*                                                                         *)
(* The byte at position i of the image is modelled as i itself.            *)
(***************************************************************************)
EXTENDS Naturals, Sequences, FiniteSets, SequencesExt, FiniteSetsExt, Functions

CONSTANTS Calls,       \* goroutines that read
          Total,       \* size of the image, at least 1
          ChunkSize,   \* of the fixed index, at least 1
          DynamicEnds, \* end offsets of the dynamic index: they grow, to Total
          Lens,        \* sizes of the buffers
          Life,        \* LRU_CACHE_LIFE
          CacheChunks, \* capacity of the cache over the dynamic index
          MaxReads,    \* bound on the reads
          MaxFetchFaults,   \* bound on fetches that fail
          Nil

ASSUME ImageAssumption ==
  /\ Total \in Nat \ {0} /\ ChunkSize \in Nat \ {0}
  /\ DynamicEnds \in Seq(1..Total) /\ DynamicEnds # <<>> /\ Last(DynamicEnds) = Total
  /\ \A i, k \in DOMAIN DynamicEnds : i < k => DynamicEnds[i] < DynamicEnds[k]
  /\ Lens \subseteq Nat /\ Life \in Nat /\ CacheChunks \in Nat
  /\ MaxReads \in Nat /\ MaxFetchFaults \in Nat
  /\ Nil \notin Calls \cup Seq(Nat)

VARIABLES
  index,     \* which of the two: "fixed" or "dynamic"
  lock,      \* of the server of images: the call that holds it, or Nil
  cache,     \* fixed: chunk -> [data, life]; dynamic: <<[chunk, data], ...>>, latest first
  call,      \* a goroutine's read
  readStopped, \* the predicate of SetCancelCheck
  reads, fetchFaults

imageVars == <<index, lock, cache, call, readStopped, reads, fetchFaults>>

Idle == [pc |-> "idle", off |-> 0, len |-> 0, todo |-> <<>>, got |-> <<>>, result |-> Nil]

ImageInit ==
  /\ index \in {"fixed", "dynamic"}
  /\ lock = Nil /\ cache = <<>>
  /\ call = [c \in Calls |-> Idle]
  /\ readStopped = FALSE /\ reads = 0 /\ fetchFaults = 0

Image == [i \in 1..Total |-> i]

\* Chunks count from 0.
FixedEnds == [i \in 1..((Total + ChunkSize - 1) \div ChunkSize) |-> Min({i * ChunkSize, Total})]
Ends == IF index = "fixed" THEN FixedEnds ELSE DynamicEnds
StartOf(chunk) == IF chunk = 0 THEN 0 ELSE Ends[chunk]
Chunk(chunk) == SubSeq(Image, StartOf(chunk) + 1, Ends[chunk + 1])

At(c, label) == call[c].pc = label
Ended(c, result) == [call[c] EXCEPT !.pc = "done", !.result = result]
FetchFault == fetchFaults < MaxFetchFaults /\ fetchFaults' = fetchFaults + 1

\* GetChunkData: the chunk, the start of it (a body that was cut), or an error.
Fetch(chunk, data) ==
  \/ data = Chunk(chunk) /\ UNCHANGED fetchFaults
  \/ data \in {Front(Chunk(chunk)), Nil} /\ FetchFault

\* A goroutine reads len bytes from an offset, now and then past the end.
Begin(c) ==
  /\ call[c].pc \in {"idle", "done"} /\ reads < MaxReads
  /\ reads' = reads + 1
  /\ \E off \in 0..Total, len \in Lens :
       LET asked == [Idle EXCEPT !.off = off, !.len = len]
       IN  call' = [call EXCEPT ![c] =
             IF index = "dynamic" /\ readStopped THEN [asked EXCEPT !.pc = "done", !.result = "error"]
             ELSE IF off >= Total THEN [asked EXCEPT !.pc = "done", !.result = "eof"]
             ELSE [asked EXCEPT !.pc = IF index = "fixed" THEN "locking" ELSE "next"]]
  /\ UNCHANGED <<index, lock, cache, readStopped, fetchFaults>>

----------------------------------------------------------------------------
(* FIDXServer.ReadAt *)

\* What is asked for, cut at the end of the image.
Want(c) == Min({call[c].len, Total - call[c].off})

Slice(i, off, size) ==
  LET from == i * ChunkSize
      end  == off + size
  IN  [chunk |-> i,
       start |-> IF off > from THEN off - from ELSE 0,
       end   |-> IF end > from THEN Min({ChunkSize, end - from}) ELSE 0]

\* The last slice is empty when the range ends with a chunk: it is left out.
SlicesOf(first, last, off, size) ==
  LET all == [n \in 1..(last - first + 1) |-> Slice(first + n - 1, off, size)]
  IN  IF all # <<>> /\ Last(all).end = Last(all).start THEN Front(all) ELSE all

\* Mutant: the chunk the range ends in is left out.
SlicesBelow(off, size) ==
  SlicesOf(off \div ChunkSize, ((off + size) \div ChunkSize) - 1, off, size)

\* getChunksIndexes: the part of each chunk the range overlaps.
Slices(off, size) == SlicesOf(off \div ChunkSize, (off + size) \div ChunkSize, off, size)

Lock(c) ==
  /\ At(c, "locking") /\ lock = Nil
  /\ lock' = c
  /\ call' = [call EXCEPT ![c].pc = "reading", ![c].todo = Slices(call[c].off, Want(c))]
  /\ UNCHANGED <<index, cache, readStopped, reads, fetchFaults>>

\* An error return: the lock goes, expired chunks stay until a read succeeds.
FailRead(c) ==
  /\ call' = [call EXCEPT ![c] = Ended(c, "error")]
  /\ lock' = Nil

CopySlice(c, slice, chunks) ==
  IF slice.end > Len(chunks[slice.chunk].data)
    THEN FailRead(c) /\ cache' = chunks
    ELSE /\ call' = [call EXCEPT ![c].todo = Tail(@),
                                 ![c].got = @ \o SubSeq(chunks[slice.chunk].data,
                                                         slice.start + 1, slice.end)]
         /\ cache' = [chunks EXCEPT ![slice.chunk].life = Life]
         /\ UNCHANGED lock

ReadCached(c) ==
  /\ At(c, "reading") /\ call[c].todo # <<>>
  /\ Head(call[c].todo).chunk \in DOMAIN cache
  /\ CopySlice(c, Head(call[c].todo), cache)
  /\ UNCHANGED <<index, readStopped, reads, fetchFaults>>

\* A chunk that is fetched ages the others.  Its length is looked at only as far
\* as this read needs it.
ReadFetched(c) ==
  /\ At(c, "reading") /\ call[c].todo # <<>>
  /\ LET slice == Head(call[c].todo)
         aged  == [i \in DOMAIN cache |-> [cache[i] EXCEPT !.life = IF @ = 0 THEN 0 ELSE @ - 1]]
     IN  /\ slice.chunk \notin DOMAIN cache
         /\ \E data \in {Chunk(slice.chunk), Front(Chunk(slice.chunk)), Nil} :
              /\ Fetch(slice.chunk, data)
              /\ IF data = Nil
                   THEN FailRead(c) /\ UNCHANGED cache
                   ELSE CopySlice(c, slice, [i \in DOMAIN cache \cup {slice.chunk} |->
                          IF i = slice.chunk THEN [data |-> data, life |-> Life] ELSE aged[i]])
  /\ UNCHANGED <<index, readStopped, reads>>

\* The expired chunks go, and the count is compared with what was wanted.
FinishRead(c) ==
  /\ At(c, "reading") /\ call[c].todo = <<>>
  /\ cache' = Restrict(cache, {i \in DOMAIN cache : cache[i].life > 0})
  /\ lock' = Nil
  /\ call' = [call EXCEPT ![c] =
                Ended(c, IF Len(call[c].got) # Want(c) THEN "error"
                         ELSE IF Want(c) < call[c].len THEN "eof" ELSE "ok")]
  /\ UNCHANGED <<index, readStopped, reads, fetchFaults>>

----------------------------------------------------------------------------
(* DIDXReaderAt.ReadAt *)

Pos(c) == call[c].off + Len(call[c].got)
AtEnd(c) == Len(call[c].got) = call[c].len \/ Pos(c) >= Total

\* The first chunk that ends after a position.
ChunkIndexAt(pos) == Min({i \in DOMAIN Ends : Ends[i] > pos}) - 1

Cached(chunk) == {i \in DOMAIN cache : cache[i].chunk = chunk}

\* chunkCache.get and put: the chunk moves to the front, the oldest ones go.
ToFront(chunk, data) ==
  LET others == IF Cached(chunk) = {} THEN cache
                ELSE RemoveAt(cache, CHOOSE i \in Cached(chunk) : TRUE)
      all    == <<[chunk |-> chunk, data |-> data]>> \o others
  IN  SubSeq(all, 1, Min({Len(all), CacheChunks}))

\* copy: to the end of the chunk or of the buffer.
Copy(c, chunk, data) ==
  LET from == Pos(c) - StartOf(chunk)
      n    == Min({call[c].len - Len(call[c].got), Len(data) - from})
  IN  [call EXCEPT ![c].pc = "next", ![c].got = @ \o SubSeq(data, from + 1, from + n)]

FinishDynamicRead(c) ==
  /\ At(c, "next") /\ AtEnd(c)
  /\ call' = [call EXCEPT ![c] = Ended(c, IF Len(call[c].got) = call[c].len THEN "ok" ELSE "eof")]
  /\ UNCHANGED <<index, lock, cache, readStopped, reads, fetchFaults>>

\* chunkAt: the predicate, then the cache.
GetCached(c) ==
  /\ At(c, "next") /\ ~AtEnd(c)
  /\ LET chunk == ChunkIndexAt(Pos(c))
     IN  IF readStopped THEN call' = [call EXCEPT ![c] = Ended(c, "error")] /\ UNCHANGED cache
         ELSE IF Cached(chunk) = {} THEN call' = [call EXCEPT ![c].pc = "fetching"] /\ UNCHANGED cache
         ELSE LET data == cache[CHOOSE i \in Cached(chunk) : TRUE].data
              IN  cache' = ToFront(chunk, data) /\ call' = Copy(c, chunk, data)
  /\ UNCHANGED <<index, lock, readStopped, reads, fetchFaults>>

\* The chunk arrives, after the cache was unlocked: one of another size is refused.
PutFetched(c) ==
  /\ At(c, "fetching")
  /\ LET chunk == ChunkIndexAt(Pos(c))
     IN  \E data \in {Chunk(chunk), Front(Chunk(chunk)), Nil} :
           /\ Fetch(chunk, data)
           /\ IF data = Chunk(chunk)
                THEN cache' = ToFront(chunk, data) /\ call' = Copy(c, chunk, data)
                ELSE call' = [call EXCEPT ![c] = Ended(c, "error")] /\ UNCHANGED cache
  /\ UNCHANGED <<index, lock, readStopped, reads>>

\* A search that uses the reader is stopped.
CancelReads ==
  /\ index = "dynamic" /\ ~readStopped
  /\ readStopped' = TRUE
  /\ UNCHANGED <<index, lock, cache, call, reads, fetchFaults>>

ImageNext ==
  \/ \E c \in Calls :
       \/ Begin(c)
       \/ Lock(c) \/ ReadCached(c) \/ ReadFetched(c) \/ FinishRead(c)
       \/ FinishDynamicRead(c) \/ GetCached(c) \/ PutFetched(c)
  \/ CancelReads

ImageSpec == ImageInit /\ [][ImageNext]_imageVars

----------------------------------------------------------------------------
(* Properties *)

\* A read gives the bytes of the image from its offset, all that were asked for
\* or all up to the end, whatever the cache holds and drops and who reads beside
\* it; it fails only when the reader was cancelled or a fetch once failed.
ReadsImage ==
  \A c \in Calls : At(c, "done") =>
    LET r == call[c] IN
    /\ r.got = SubSeq(Image, r.off + 1, r.off + Len(r.got))
    /\ r.result = "ok" => Len(r.got) = r.len
    /\ r.result = "eof" => r.off + Len(r.got) = Total /\ (Len(r.got) < r.len \/ r.len = 0)
    /\ r.result = "error" => fetchFaults > 0 \/ readStopped

\* "will be 16*4MB usage": the chunks an image server keeps between two reads are
\* no more than the life it gives each of them.
CacheWithinLife ==
  index = "fixed" /\ lock = Nil => Cardinality(DOMAIN cache) <= Life
==============================================================================
