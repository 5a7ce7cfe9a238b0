------------------------------- MODULE Archive -------------------------------
(***************************************************************************)
(* Writing the archive and the catalog of a folder (pbscommon/pxar.go)     *)
(* while its files change.  Both streams are sequences of cells: a header, *)
(* a cell of payload, an item of a table.  Offsets count cells as the code *)
(* counts bytes.  What the readers make of them is in ArchiveReaders.      *)
(***************************************************************************)
EXTENDS Naturals, Sequences, SequencesExt, FiniteSets, FiniteSetsExt, Functions, TLC

CONSTANTS Tree,        \* the folder: path -> [kind, size]
          NameOrder,   \* every name, in the order of a directory listing
          Hash,        \* name -> its hash
          Patterns,    \* exclusions: [anchored, path]
          SystemFolders, RootOnlyFolders, SystemFiles, \* names
          AtVolumeRoot,
          VirtualFiles, \* names injected at the root: Seq of [name, size]
          MaxChanges,  \* bound on changes made by other programs
          None

\* A sealed directory cannot be listed, and a locked file cannot be opened.
Folders == {"dir", "sealed"}
Kinds == Folders \cup {"file", "locked", "gone", "link"}

ASSUME ArchiveAssumption ==
  /\ NameOrder \in Seq(DOMAIN Hash)
  /\ Hash \in [DOMAIN Hash -> Nat]
  /\ VirtualFiles \in Seq([name : DOMAIN Hash, size : Nat])
  /\ DOMAIN Tree \subseteq Seq(ToSet(NameOrder)) /\ <<>> \in DOMAIN Tree
  /\ Tree \in [DOMAIN Tree -> [kind : Kinds, size : Nat]]
  /\ \A p \in DOMAIN Tree \ {<<>>} : Front(p) \in DOMAIN Tree /\ Tree[Front(p)].kind \in Folders
  /\ MaxChanges \in Nat /\ None \notin {"done", "failed", "cancelled"}
  /\ None \notin [path : DOMAIN Tree, declared : Nat, written : Nat, start : Nat]
  /\ None \notin [t : {"item"}, hash : Nat, offset : Nat, len : Nat]

VARIABLES
  fs,          \* the folder as it is now
  archive, catalog, \* the cells sent
  stack,       \* the WriteDir calls under way, innermost last
  file,        \* the WriteFile call under way, or None
  log,         \* history: what was written, in order
  excluded, skipped, readErrors, \* paths
  cancelled, result,
  late,        \* history: paths that changed after the walk was done with them
  changes

vars == <<fs, archive, catalog, stack, file, log, excluded, skipped, readErrors,
          cancelled, result, late, changes>>
notes == <<excluded, skipped, readErrors>>
outside == <<fs, cancelled, late, changes>>

Init ==
  /\ fs = Tree
  /\ archive = <<>> /\ catalog = <<>>
  /\ stack = <<>> /\ file = None /\ log = <<>>
  /\ excluded = {} /\ skipped = {} /\ readErrors = {}
  /\ cancelled = FALSE /\ result = None
  /\ late = {} /\ changes = 0

----------------------------------------------------------------------------
(* Cells *)

Filename(name) == [t |-> "filename", size |-> 1, name |-> name]
DirEntry == [t |-> "entry", size |-> 1, dir |-> TRUE]
FileEntry == [t |-> "entry", size |-> 1, dir |-> FALSE]
Payload(n) == [t |-> "payload", size |-> n + 1]
Goodbye(n) == [t |-> "goodbye", size |-> n + 2]
Data == [t |-> "data"]
Zero == [t |-> "zero"]
Cells(cell, n) == [i \in 1..n |-> cell]

FileHeader(name, n) == <<Filename(name), FileEntry, Payload(n)>>

\* A catalog table: its length, and its entries.
Table(dirs, files, at) ==
  <<[t |-> "table", len |-> Len(dirs) + Len(files)]>>
    \o [i \in DOMAIN dirs |-> [t |-> "d", name |-> dirs[i].name, delta |-> at - dirs[i].pos]]
    \o [i \in DOMAIN files |-> [t |-> "f", name |-> files[i].name, size |-> files[i].size]]

----------------------------------------------------------------------------
(* The goodbye table: a binary search tree of hashes, laid out as an array. *)

\* pow_of_2(log_of_2(k)): the largest power of two up to k.
PowerUpTo[k \in Nat] == IF k <= 1 THEN 1 ELSE 2 * PowerUpTo[k \div 2]

\* How many of n sorted items lie left of the root of their tree, in whose lowest
\* level there is room for p = pow_of_2(e - 1).
BstRoot(n, p) ==
  LET full == p - 1 + p \div 2
  IN  IF n >= full THEN p - 1 ELSE p - 1 - (full - n)

\* The calls of make_bst_inner for a table of count items: the one that fills a slot
\* has the n sorted items after the first lo.
BstCalls(count) ==
  LET call[slot \in Nat] ==
        IF slot = 0 THEN [lo |-> 0, n |-> count, p |-> PowerUpTo[count]]
        ELSE LET up == call[(slot - 1) \div 2]
                 k  == BstRoot(up.n, up.p)
             IN  IF slot % 2 = 1 THEN [lo |-> up.lo, n |-> k, p |-> up.p \div 2]
                 ELSE [lo |-> up.lo + k + 1, n |-> up.n - k - 1, p |-> up.p \div 2]
  IN  call

\* Mutant: the items stay sorted.
MakeBstSorted(items) == items

MakeBst(items) ==
  LET calls == BstCalls(Len(items))
  IN  [i \in 1..Len(items) |->
         items[calls[i - 1].lo + BstRoot(calls[i - 1].n, calls[i - 1].p) + 1]]

\* The items by their hashes.
Precedes(items, i, j) ==
  \/ items[i].hash < items[j].hash
  \/ items[i].hash = items[j].hash /\ i < j

ByHash(items) ==
  LET place(j) == Cardinality({i \in DOMAIN items : Precedes(items, i, j)}) + 1
  IN  [r \in 1..Len(items) |-> items[CHOOSE j \in DOMAIN items : place(j) = r]]

\* Offsets are relative to the header of the table.
GoodbyeTable(items, dirStart) ==
  LET here == Len(archive)
      sorted == MakeBst(ByHash(items))
      relative(item) == [t |-> "item", hash |-> item.hash, offset |-> here - item.start, len |-> item.len]
  IN  <<Goodbye(Len(items))>>
        \o [i \in 1..Len(items) |-> relative(sorted[i])]
        \o <<[t |-> "tail", offset |-> here - dirStart, len |-> Len(items) + 2]>>

----------------------------------------------------------------------------
(* The walk *)

Frame == Last(stack)
Place == Min(DOMAIN Frame.todo)
Child == Append(Frame.path, NameOrder[Place])
Walking == result = None /\ stack # <<>> /\ file = None
\* The virtual files come before the children.
AtChild == Walking /\ Frame.virtual = <<>> /\ DOMAIN Frame.todo # {}

WithFrame(frame) == [stack EXCEPT ![Len(stack)] = frame]
\* The item and the catalog entry of a child that was written are noted.
Noted(frame, name, start, end) ==
  [frame EXCEPT !.items = Append(@, [hash |-> Hash[name], start |-> start, len |-> end - start])]
Popped(frame) == [frame EXCEPT !.todo = Restrict(@, DOMAIN @ \ {Min(DOMAIN @)})]

\* os.ReadDir: for each name that is there, by its place in the order of names,
\* whether it is a directory.
ReadDir(path) ==
  LET kind(k) == fs[Append(path, NameOrder[k])].kind
  IN  [k \in {i \in DOMAIN NameOrder : Append(path, NameOrder[i]) \in DOMAIN fs /\ kind(i) # "gone"} |->
         kind(k) \in Folders]

NewFrame(path, start, dirStart, virtual) ==
  [path |-> path, virtual |-> virtual, todo |-> ReadDir(path), start |-> start, dirStart |-> dirStart,
   items |-> <<>>, dirs |-> <<>>, files |-> <<>>]

\* Flush: a cancel is seen before anything is sent.
Send(cells) == archive' = archive \o cells

StopIfCancelled ==
  /\ result = None /\ cancelled
  /\ result' = "cancelled"
  /\ UNCHANGED <<archive, catalog, stack, file, log, notes, outside>>

VirtualCells(vf) == FileHeader(vf.name, vf.size) \o Cells(Data, vf.size)

\* The root must be readable.
WriteRoot ==
  /\ result = None /\ stack = <<>> /\ ~cancelled
  /\ IF fs[<<>>].kind # "dir"
       THEN result' = "failed" /\ UNCHANGED <<archive, catalog, stack>>
       ELSE /\ catalog' = <<[t |-> "magic"]>>
            /\ Send(<<DirEntry>>)
            /\ stack' = <<NewFrame(<<>>, 0, 0, VirtualFiles)>>
            /\ UNCHANGED result
  /\ UNCHANGED <<file, log, notes, outside>>

WriteVirtualFile ==
  /\ Walking /\ Frame.virtual # <<>> /\ ~cancelled
  /\ LET vf == Head(Frame.virtual)
     IN  /\ Send(VirtualCells(vf))
         /\ stack' = WithFrame([Noted(Frame, vf.name, Len(archive), Len(archive'))
                                  EXCEPT !.virtual = Tail(@), !.files = Append(@, vf)])
         /\ log' = Append(log, [path |-> <<vf.name>>, dir |-> FALSE, size |-> vf.size])
  /\ UNCHANGED <<catalog, file, notes, result, outside>>

\* A pattern without a separator is a name anywhere, another one is a path or
\* what is below it.
IsExcluded(path) ==
  \E pat \in Patterns : IF pat.anchored THEN IsPrefix(pat.path, path)
                        ELSE pat.path = <<Last(path)>>

ShouldSkipSystem ==
  IF Frame.todo[Place]
    THEN \/ Last(Child) \in SystemFolders
         \/ Len(stack) = 1 /\ AtVolumeRoot /\ Last(Child) \in RootOnlyFolders
    ELSE Last(Child) \in SystemFiles

PassOver ==
  /\ stack' = WithFrame(Popped(Frame))
  /\ UNCHANGED <<archive, catalog, file, log, result, outside>>

Exclude ==
  /\ AtChild /\ IsExcluded(Child)
  /\ excluded' = excluded \cup {Child} /\ UNCHANGED <<skipped, readErrors>>
  /\ PassOver

SkipSystem ==
  /\ AtChild /\ ~IsExcluded(Child) /\ ShouldSkipSystem
  /\ skipped' = skipped \cup {Child} /\ UNCHANGED <<excluded, readErrors>>
  /\ PassOver

AtWanted(dir) == AtChild /\ ~IsExcluded(Child) /\ ~ShouldSkipSystem /\ Frame.todo[Place] = dir
Kind == fs[Child].kind

\* Links are skipped; what cannot be listed or opened is a read error.
SkipLink ==
  /\ AtWanted(TRUE) \/ AtWanted(FALSE)
  /\ Kind = "link"
  /\ skipped' = skipped \cup {Child} /\ UNCHANGED <<excluded, readErrors>>
  /\ PassOver

ReadError ==
  /\ \/ AtWanted(TRUE) /\ Kind \in {"gone", "sealed"}
     \/ AtWanted(FALSE) /\ Kind \in {"gone", "locked"}
  /\ readErrors' = readErrors \cup {Child} /\ UNCHANGED <<excluded, skipped>>
  /\ PassOver

EnterDir ==
  /\ AtWanted(TRUE) /\ Kind = "dir" /\ ~cancelled
  /\ Send(<<Filename(Last(Child)), DirEntry>>)
  /\ stack' = Append(WithFrame(Popped(Frame)), NewFrame(Child, Len(archive), Len(archive) + 1, <<>>))
  /\ log' = Append(log, [path |-> Child, dir |-> TRUE, size |-> 0])
  /\ UNCHANGED <<catalog, file, notes, result, outside>>

\* The size is declared before the content is read.
OpenFile ==
  /\ AtWanted(FALSE) /\ Kind = "file" /\ ~cancelled
  /\ LET n == fs[Child].size
     IN  /\ Send(FileHeader(Last(Child), n))
         /\ file' = [path |-> Child, declared |-> n, written |-> 0, start |-> Len(archive)]
         /\ log' = Append(log, [path |-> Child, dir |-> FALSE, size |-> n])
  /\ UNCHANGED <<catalog, stack, notes, result, outside>>

----------------------------------------------------------------------------
(* The content of a file *)

Reading == result = None /\ file # None /\ ~cancelled
HasMore == fs[file.path].size > file.written

ReadData ==
  /\ Reading /\ file.written < file.declared /\ HasMore
  /\ Send(<<Data>>)
  /\ file' = [file EXCEPT !.written = @ + 1]
  /\ UNCHANGED <<catalog, stack, log, notes, result, outside>>

\* A read that fails, unlike an open, ends the backup.
ReadFails ==
  /\ Reading /\ file.written < file.declared
  /\ result' = "failed"
  /\ UNCHANGED <<archive, catalog, stack, file, log, notes, outside>>

FileDone(end) ==
  /\ file' = None
  /\ stack' = WithFrame([Noted(Popped(Frame), Last(file.path), file.start, end)
                           EXCEPT !.files = Append(@, [name |-> Last(file.path), size |-> file.declared])])
  /\ UNCHANGED <<catalog, log, excluded, skipped, result, outside>>

\* Mutant: what is missing is not made up for.
PadUnpadded ==
  /\ Reading /\ file.written < file.declared /\ ~HasMore
  /\ readErrors' = readErrors \cup {file.path}
  /\ FileDone(Len(archive)) /\ UNCHANGED archive

\* Mutant: the padding is silent.
PadSilent ==
  /\ Reading /\ file.written < file.declared /\ ~HasMore
  /\ Send(Cells(Zero, file.declared - file.written))
  /\ FileDone(Len(archive')) /\ UNCHANGED readErrors

\* The file shrank: zeros keep the stream aligned.
Pad ==
  /\ Reading /\ file.written < file.declared /\ ~HasMore
  /\ readErrors' = readErrors \cup {file.path}
  /\ Send(Cells(Zero, file.declared - file.written))
  /\ FileDone(Len(archive'))

\* One more byte tells that the file grew.
Probe ==
  /\ Reading /\ file.written = file.declared
  /\ readErrors' = IF HasMore THEN readErrors \cup {file.path} ELSE readErrors
  /\ FileDone(Len(archive)) /\ UNCHANGED archive

----------------------------------------------------------------------------
(* The end of a directory: its table in the catalog, then its goodbye table *)

Trailer(at, end) == Table(<<[name |-> "archive", pos |-> at]>>, <<>>, end)
                      \o <<[t |-> "pointer", to |-> end]>>

\* The directory is noted in the one around it.
DirNoted(outer, end, at) ==
  [Noted(outer, Last(Frame.path), Frame.start, end)
     EXCEPT !.dirs = Append(@, [name |-> Last(Frame.path), pos |-> at])]

CloseDir ==
  /\ Walking /\ Frame.virtual = <<>> /\ DOMAIN Frame.todo = {} /\ ~cancelled
  /\ LET at    == Len(catalog)
         table == Table(Frame.dirs, Frame.files, at)
         cells == GoodbyeTable(Frame.items, Frame.dirStart)
         rest  == Front(stack)
     IN  /\ Send(cells)
         /\ IF Len(stack) = 1
              THEN /\ catalog' = catalog \o table \o Trailer(at, at + Len(table))
                   /\ result' = "done" /\ stack' = <<>>
              ELSE /\ catalog' = catalog \o table
                   /\ stack' = [rest EXCEPT ![Len(rest)] = DirNoted(@, Len(archive'), at)]
                   /\ UNCHANGED result
  /\ UNCHANGED <<file, log, notes, outside>>

----------------------------------------------------------------------------
(* The outside *)

Cancel ==
  /\ result = None /\ ~cancelled
  /\ cancelled' = TRUE
  /\ UNCHANGED <<fs, archive, catalog, stack, file, log, notes, result, late, changes>>

\* What was written of the path, apart from a virtual file of that name.
Writings(path) == {i \in DOMAIN log : i > Len(VirtualFiles) /\ log[i].path = path}
Done(path) == Writings(path) # {} /\ (file = None \/ file.path # path)

\* Another program writes, cuts, locks, removes or replaces something.
Becomes(path, now) ==
  /\ result = None /\ changes < MaxChanges
  /\ fs' = [fs EXCEPT ![path] = now]
  /\ changes' = changes + 1
  /\ late' = IF Done(path) THEN late \cup {path} ELSE late
  /\ UNCHANGED <<archive, catalog, stack, file, log, notes, cancelled, result>>

FileChanges(path) ==
  /\ fs[path].kind = "file"
  /\ \/ Becomes(path, [fs[path] EXCEPT !.size = @ + 1])
     \/ fs[path].size > 0 /\ Becomes(path, [fs[path] EXCEPT !.size = 0])
     \/ \E kind \in {"gone", "locked", "link"} : Becomes(path, [fs[path] EXCEPT !.kind = kind])

DirChanges(path) ==
  /\ fs[path].kind = "dir"
  /\ \E kind \in {"sealed", "link"} : Becomes(path, [fs[path] EXCEPT !.kind = kind])

Next ==
  \/ StopIfCancelled \/ WriteRoot \/ WriteVirtualFile \/ Exclude \/ SkipSystem \/ SkipLink \/ ReadError
  \/ EnterDir \/ OpenFile \/ ReadData \/ ReadFails \/ Pad \/ Probe \/ CloseDir
  \/ Cancel
  \/ \E path \in DOMAIN Tree : FileChanges(path) \/ DirChanges(path)

Spec == Init /\ [][Next]_vars

----------------------------------------------------------------------------
(* Properties *)

\* A backup without read errors holds every file that was not left out on
\* purpose, as long as it was when the walk left it.
Covered(path) == \E over \in excluded \cup skipped : IsPrefix(over, path)

Archived(path) ==
  \E i \in Writings(path) : log[i].dir \/ log[i].size >= fs[path].size

VerifiedIsWhole ==
  result = "done" /\ readErrors = {} =>
    /\ \A i \in DOMAIN archive : archive[i] # Zero
    /\ \A path \in DOMAIN Tree \ {<<>>} :
         Covered(path) \/ path \in late \/ fs[path].kind = "gone" \/ Archived(path)
==============================================================================
