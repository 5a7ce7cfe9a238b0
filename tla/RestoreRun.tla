------------------------------ MODULE RestoreRun ------------------------------
(***************************************************************************)
(* Listing, searching and restoring one snapshot in the application        *)
(* (gui/restore_inline.go, restore_cache.go, restore_search.go, the        *)
(* extraction of pbscommon/pxar_reader.go, and their callers in            *)
(* gui/main.go).  The cache of listings is shared by the three.  A restore *)
(* may fail at any entry, or be cut by the end of the process, and another *)
(* program may write in the destination.                                   *)
(***************************************************************************)
EXTENDS Naturals, Sequences, SequencesExt, FiniteSets

CONSTANTS Names,      \* of files and folders
          Entries,    \* the snapshot, in the order of the archive: [path, dir]
          Selections, \* the selections a user may make: sets of paths
          MaxRestoreFaults  \* bound on failures

Paths == Seq(Names) \ {<<>>}

\* Only folders have entries below them.
ASSUME RestoreAssumption ==
  /\ Entries \in Seq([path : Paths, dir : BOOLEAN])
  /\ \A i, k \in 1..Len(Entries) :
       IsStrictPrefix(Entries[i].path, Entries[k].path) => Entries[i].dir
  /\ \A includes \in Selections : includes \subseteq Paths /\ IsFiniteSet(includes)
  /\ MaxRestoreFaults \in Nat

VARIABLES
  snapshot, \* [meta, encrypted, blob]: its sidecar, its chunks, its blob of ACLs
  asked,    \* [mode, includes, overwrite, cross, acls, auth]
  before,   \* the destination when the restore starts
  disk,     \* the destination: [Files -> absent, old, new, other or partial]
  cached,   \* the listing in the cache: "no", "meta", or "nometa"
  unread,   \* history: a read of the sidecar failed
  search,   \* the search: [pc, cancelled, meta]
  pc, next, \* where the restore is, and the entry it works on
  meta,     \* the sidecar the restore knows
  acls,     \* the ACLs were loaded
  temp,     \* what the temporary file of the entry holds, or "none"
  litter,   \* temporary files that nothing removes any more
  written, failed, kept, \* entries
  outcome, restoreFaults

restoreVars == <<snapshot, asked, before, disk, cached, unread, search, pc, next, meta, acls,
          temp, litter, written, failed, kept, outcome, restoreFaults>>
given == <<snapshot, asked, before>>
tally == <<written, failed, kept>>
listing == <<cached, unread, search>>
extraction == <<disk, temp, litter, tally>>

Index == 1..Len(Entries)
Files == {Entries[i].path : i \in {j \in Index : ~Entries[j].dir}}
Modes == {"original", "alternate_abs", "alternate_flat"}

NoSearch == [pc |-> "idle", cancelled |-> FALSE, meta |-> "none"]

\* What only an in-place restore asks about is fixed for the others.
RestoreInit ==
  /\ snapshot \in [meta : {"none", "home", "away", "foreign"}, encrypted : BOOLEAN, blob : {TRUE}]
  /\ asked \in [mode : Modes, includes : Selections, overwrite : BOOLEAN,
                cross : BOOLEAN, acls : BOOLEAN, auth : {"secret", "ticket"}]
  /\ asked.mode # "original" => ~asked.cross /\ asked.auth = "secret"
  /\ before \in [Files -> {"absent", "old"}]
  /\ disk = before
  /\ cached = "no" /\ unread = FALSE
  /\ search = NoSearch
  /\ pc = "idle" /\ next = 1 /\ meta = "none" /\ acls = FALSE
  /\ temp = "none" /\ litter = 0
  /\ written = {} /\ failed = {} /\ kept = {}
  /\ outcome = "none" /\ restoreFaults = 0

RestoreFault == restoreFaults < MaxRestoreFaults /\ restoreFaults' = restoreFaults + 1

----------------------------------------------------------------------------
(* Which entries, and where *)

PathMatches(path, includes) ==
  includes = {} \/ \E inc \in includes : IsPrefix(inc, path) \/ IsPrefix(path, inc)

PathSelected(path, includes) == includes = {} \/ \E inc \in includes : IsPrefix(inc, path)

CommonAncestorDir(includes) ==
  IF Cardinality(includes) = 1 THEN Front(CHOOSE inc \in includes : TRUE)
  ELSE LongestCommonPrefix(includes)

Nowhere == <<>>

\* buildPathRewriter: the place under the destination, or Nowhere to drop the entry.
Rewrite(mode, includes, path) ==
  IF mode = "alternate_flat" /\ includes # {}
    THEN IF IsStrictPrefix(CommonAncestorDir(includes), path)
           THEN SubSeq(path, Len(CommonAncestorDir(includes)) + 1, Len(path)) ELSE Nowhere
    ELSE path

\* An in-place restore needs a sidecar of this system, and of this host.
RewriterAllowed(known) ==
  asked.mode = "original" => known = "home" \/ (known = "away" /\ asked.cross)

\* A destination is named by the archive path of the file that goes there.
Dropped(path) == Rewrite(asked.mode, asked.includes, path) = Nowhere
\* In place, what is there is replaced.
Overwrite == asked.overwrite \/ asked.mode = "original"

----------------------------------------------------------------------------
(* The listing and its cache.  A restore looks at them only before it writes,   *)
(* so they are left alone from then on.                                         *)

Browsing == pc \in {"idle", "sidecar"}

SaveCache(known) == cached' = IF known = "none" THEN "nometa" ELSE "meta"

\* assembleSnapshotTree reads the catalog, and the sidecar on its own: when that
\* read fails the listing has no sidecar.
ListSnapshotContents ==
  /\ Browsing /\ cached = "no"
  /\ \/ SaveCache(snapshot.meta) /\ UNCHANGED <<unread, restoreFaults>>
     \/ RestoreFault /\ SaveCache("none") /\ unread' = TRUE
     \/ RestoreFault /\ UNCHANGED <<cached, unread>>
  /\ UNCHANGED <<given, search, pc, next, meta, acls, extraction, outcome>>

\* SearchFiles assembles what is not in the cache, and may be stopped.
BeginSearch ==
  /\ Browsing /\ search.pc = "idle" /\ cached = "no"
  /\ search' = [pc |-> "assembling", cancelled |-> FALSE, meta |-> "none"]
  /\ UNCHANGED <<given, cached, unread, pc, next, meta, acls, extraction, outcome,
                 restoreFaults>>

CancelFileSearch ==
  /\ Browsing /\ search.pc # "idle" /\ ~search.cancelled
  /\ search' = [search EXCEPT !.cancelled = TRUE]
  /\ UNCHANGED <<given, cached, unread, pc, next, meta, acls, extraction, outcome,
                 restoreFaults>>

\* Once stopped, every read fails; any read may fail on its own.
SearchReadFails(ofSidecar) ==
  \/ search.cancelled /\ UNCHANGED <<unread, restoreFaults>>
  \/ ~search.cancelled /\ RestoreFault /\ unread' = (unread \/ ofSidecar)

\* The tree and its sidecar; the tree alone; or nothing.
SearchAssembled ==
  /\ Browsing /\ search.pc = "assembling"
  /\ \/ /\ search' = [search EXCEPT !.pc = "saving", !.meta = snapshot.meta]
        /\ UNCHANGED <<unread, restoreFaults>>
     \/ search' = [search EXCEPT !.pc = "saving"] /\ SearchReadFails(TRUE)
     \/ search' = NoSearch /\ SearchReadFails(FALSE)
  /\ UNCHANGED <<given, cached, pc, next, meta, acls, extraction, outcome>>

\* Mutant: what a stopped search read is kept.
SearchSavesPartial ==
  /\ Browsing /\ search.pc = "saving"
  /\ SaveCache(search.meta)
  /\ search' = NoSearch
  /\ UNCHANGED <<given, unread, pc, next, meta, acls, extraction, outcome,
                 restoreFaults>>

SearchSaves ==
  /\ Browsing /\ search.pc = "saving"
  /\ IF search.cancelled THEN UNCHANGED cached ELSE SaveCache(search.meta)
  /\ search' = NoSearch
  /\ UNCHANGED <<given, unread, pc, next, meta, acls, extraction, outcome,
                 restoreFaults>>

----------------------------------------------------------------------------
(* The restore *)

Refuse(why) == outcome' = why /\ pc' = "done"

\* The session with the server, and the key of the destination.
BeginRestore ==
  /\ pc = "idle"
  /\ \/ RestoreFault /\ Refuse("failed")
     \/ /\ UNCHANGED restoreFaults
        /\ IF asked.mode = "original" THEN pc' = "sidecar" ELSE pc' = "acls"
        /\ UNCHANGED outcome
  /\ UNCHANGED <<given, listing, next, meta, acls, extraction>>

\* ReadSnapshotMetaInline: a cached listing answers; a ticket is not enough.
ReadSidecar ==
  /\ pc = "sidecar"
  /\ \/ asked.auth = "ticket" /\ Refuse("failed") /\ UNCHANGED <<cached, unread, meta, restoreFaults>>
     \/ /\ asked.auth = "secret" /\ cached # "no"
        /\ meta' = IF cached = "meta" THEN snapshot.meta ELSE "none"
        /\ pc' = "rewriter" /\ UNCHANGED <<cached, unread, outcome, restoreFaults>>
     \/ /\ asked.auth = "secret" /\ cached = "no"
        /\ \/ meta' = snapshot.meta /\ UNCHANGED <<unread, restoreFaults>>
           \/ meta' = "none" /\ RestoreFault /\ unread' = TRUE
        /\ SaveCache(meta') /\ pc' = "rewriter" /\ UNCHANGED outcome
     \/ /\ asked.auth = "secret" /\ cached = "no"
        /\ RestoreFault /\ Refuse("failed") /\ UNCHANGED <<cached, unread, meta>>
  /\ UNCHANGED <<given, search, next, acls, extraction>>

CheckRewriter ==
  /\ pc = "rewriter"
  /\ IF RewriterAllowed(meta) THEN pc' = "acls" /\ UNCHANGED outcome ELSE Refuse("refused")
  /\ UNCHANGED <<given, listing, next, meta, acls, extraction, restoreFaults>>

\* The client that fetches the blob of ACLs is not given the key.
LoadAcls ==
  /\ pc = "acls"
  /\ \/ acls' = (asked.acls /\ snapshot.blob /\ ~snapshot.encrypted) /\ UNCHANGED restoreFaults
     \/ asked.acls /\ RestoreFault /\ acls' = FALSE
  /\ pc' = "extract"
  /\ UNCHANGED <<given, listing, next, meta, extraction, outcome>>

----------------------------------------------------------------------------
(* The extraction, entry by entry *)

Entry == Entries[next]
Working == pc = "extract" /\ next <= Len(Entries)
Wanted == PathMatches(Entry.path, asked.includes) /\ ~Dropped(Entry.path)
NextEntry == next' = next + 1 /\ UNCHANGED <<given, listing, pc, meta, acls, litter, outcome>>

PassEntry ==
  /\ Working /\ ~Wanted
  /\ NextEntry /\ UNCHANGED <<disk, temp, tally, restoreFaults>>

MakeFolder ==
  /\ Working /\ Wanted /\ Entry.dir
  /\ \/ written' = written \cup {next} /\ UNCHANGED <<failed, restoreFaults>>
     \/ RestoreFault /\ failed' = failed \cup {next} /\ UNCHANGED written
  /\ NextEntry /\ UNCHANGED <<disk, temp, kept>>

KeepFile ==
  /\ Working /\ Wanted /\ ~Entry.dir /\ temp = "none"
  /\ ~Overwrite /\ disk[Entry.path] # "absent"
  /\ kept' = kept \cup {next}
  /\ NextEntry /\ UNCHANGED <<disk, temp, written, failed, restoreFaults>>

FileFails ==
  /\ failed' = failed \cup {next} /\ temp' = "none" /\ RestoreFault
  /\ NextEntry /\ UNCHANGED <<disk, written, kept>>

\* Mutant: the file itself is opened and truncated.
CreateTempTruncates ==
  /\ Working /\ Wanted /\ ~Entry.dir /\ temp = "none"
  /\ Overwrite \/ disk[Entry.path] = "absent"
  /\ temp' = "empty" /\ disk' = [disk EXCEPT ![Entry.path] = "partial"]
  /\ UNCHANGED <<given, listing, pc, next, meta, acls, litter, tally, outcome,
                 restoreFaults>>

CreateTemp ==
  /\ Working /\ Wanted /\ ~Entry.dir /\ temp = "none"
  /\ Overwrite \/ disk[Entry.path] = "absent"
  /\ \/ /\ temp' = "empty"
        /\ UNCHANGED <<given, listing, pc, next, meta, acls, disk, litter, tally,
                       outcome, restoreFaults>>
     \/ FileFails

\* io.Copy and Close; what is left of it is removed when they fail.
CopyPayload ==
  /\ Working /\ temp = "empty"
  /\ \/ /\ temp' = "whole"
        /\ UNCHANGED <<given, listing, pc, next, meta, acls, disk, litter, tally,
                       outcome, restoreFaults>>
     \/ FileFails

RenameIntoPlace ==
  /\ Working /\ temp = "whole"
  /\ \/ /\ disk' = [disk EXCEPT ![Entry.path] = "new"]
        /\ temp' = "none" /\ written' = written \cup {next}
        /\ NextEntry /\ UNCHANGED <<failed, kept, restoreFaults>>
     \/ FileFails

\* A header that cannot be read ends the walk.
WalkBreaks ==
  /\ Working /\ temp = "none" /\ RestoreFault
  /\ Refuse("failed")
  /\ UNCHANGED <<given, listing, next, meta, acls, extraction>>

\* Mutant: a failed entry counts as one that was left alone.
VerdictLenient ==
  /\ pc = "extract" /\ next > Len(Entries)
  /\ Refuse("ok")
  /\ UNCHANGED <<given, listing, next, meta, acls, extraction, restoreFaults>>

\* A selection none of which was in the snapshot, or an entry that failed, is an error.
Verdict ==
  /\ pc = "extract" /\ next > Len(Entries)
  /\ LET place(path) == Rewrite(asked.mode, asked.includes, path)
         matched == \E inc \in asked.includes : ~Dropped(inc)
                      /\ \E i \in written \cup failed \cup kept :
                            IsPrefix(place(inc), place(Entries[i].path))
     IN  Refuse(IF failed = {} /\ (asked.includes = {} \/ matched) THEN "ok" ELSE "failed")
  /\ UNCHANGED <<given, listing, next, meta, acls, extraction, restoreFaults>>

----------------------------------------------------------------------------
(* The outside *)

\* The application is closed in the middle of the extraction.
Crash ==
  /\ pc = "extract" /\ RestoreFault
  /\ pc' = "dead" /\ temp' = "none" /\ litter' = litter + (IF temp = "none" THEN 0 ELSE 1)
  /\ UNCHANGED <<given, listing, next, meta, acls, disk, tally, outcome>>

\* Another program creates a file.
OtherWrites(path) ==
  /\ pc = "extract" /\ disk[path] = "absent" /\ RestoreFault
  /\ disk' = [disk EXCEPT ![path] = "other"]
  /\ UNCHANGED <<given, listing, pc, next, meta, acls, temp, litter, tally, outcome>>

RestoreNext ==
  \/ ListSnapshotContents \/ BeginSearch \/ CancelFileSearch \/ SearchAssembled \/ SearchSaves
  \/ BeginRestore \/ ReadSidecar \/ CheckRewriter \/ LoadAcls
  \/ PassEntry \/ MakeFolder \/ KeepFile \/ CreateTemp \/ CopyPayload \/ RenameIntoPlace
  \/ WalkBreaks \/ Verdict
  \/ Crash \/ \E path \in Files : OtherWrites(path)

RestoreSpec == RestoreInit /\ [][RestoreNext]_restoreVars

----------------------------------------------------------------------------
(* Properties *)

\* Whatever fails, and wherever the application is closed, each file of the
\* destination is what it was or the whole restored one, and nothing replaces a
\* file that was there when the user did not ask for it.
TargetsWhole ==
  \A path \in Files : /\ disk[path] # "partial"
                      /\ before[path] = "old" /\ ~Overwrite => disk[path] = "old"

\* A restore that reports success has put every selected file in its place (or
\* left the one that was there, when it may not replace it), and something of
\* the selection was in the snapshot.
SuccessIsThere ==
  outcome = "ok" =>
    /\ asked.includes = {} \/ \E i \in Index : PathSelected(Entries[i].path, asked.includes)
    /\ \A path \in Files : PathSelected(path, asked.includes) =>
         \/ disk[path] = "new"
         \/ ~Overwrite /\ disk[path] \in {"old", "other"}

\* The cache says "this snapshot has no sidecar" only of one that has none, or
\* whose sidecar once failed to be read: a search that is stopped never makes it so.
StoppedSearchLeavesNoTrace == cached = "nometa" => snapshot.meta = "none" \/ unread

\* "RestoreACLs re-applies the captured NTFS ACLs/attributes (Windows) or POSIX
\* ACLs/xattrs (Linux) from the snapshot's metadata blob": so it does when
\* nothing goes wrong.
AclsRestored ==
  outcome = "ok" /\ asked.acls /\ snapshot.blob /\ restoreFaults = 0 /\ written # {} => acls
==============================================================================
