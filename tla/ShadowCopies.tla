----------------------------- MODULE ShadowCopies -----------------------------
(***************************************************************************)
(* Shadow copies on Windows (snapshot/win_snapshot.go).  A run is one call *)
(* of CreateVSSSnapshot; a cleaner is a service or a desktop application   *)
(* that starts and calls VSSCleanup while runs of other processes go on.   *)
(* They share the VSS directory: one marker per shadow copy, which is a    *)
(* symbolic link to it, and beside it the lock file of its lease.          *)
(***************************************************************************)
EXTENDS Naturals, Sequences, FiniteSets, Functions

CONSTANTS ShadowRuns,  \* calls of CreateVSSSnapshot, each in a process of its own
          Volumes,     \* the volume of each path of a run, in order
          Cleaners,    \* starts of a process that calls VSSCleanup
          MaxBusy,     \* retries while VSS is busy (len(vssBusyRetryWaits))
          MaxShadowFaults,  \* bound on crashes and failing calls
          Nobody

ASSUME ShadowAssumption ==
  /\ MaxBusy \in Nat /\ MaxShadowFaults \in Nat
  /\ \A r \in ShadowRuns : Volumes[r] \in Seq(Range(Volumes[r]))

\* A shadow copy is named by the run that made it and the volume.
Ids == UNION {{<<r, volume>> : volume \in Range(Volumes[r])} : r \in ShadowRuns}
Owner(id) == id[1]

VARIABLES
  creating,  \* the run VSS is creating a shadow copy for, or Nobody
  shadows,   \* the shadow copies that exist, of this program
  marker,    \* [Ids -> "none", "directory" or "link"]
  lease,     \* [Ids -> "none", "held" or "left"], left by a process that died
  shadowRun, \* the local variables of each run
  cleaner,   \* the local variables of each VSSCleanup
  shadowFaults

shadowVars == <<creating, shadows, marker, lease, shadowRun, cleaner, shadowFaults>>
hostVars == <<creating, shadows, marker, lease>>

ShadowInit ==
  /\ creating = Nobody /\ shadows = {}
  /\ marker = [id \in Ids |-> "none"] /\ lease = [id \in Ids |-> "none"]
  /\ shadowRun = [r \in ShadowRuns |-> [pc |-> "path", at |-> 1, tries |-> 0, created |-> {}]]
  /\ cleaner = [c \in Cleaners |-> [pc |-> "idle", todo |-> {}, at |-> Nobody,
                                    orphans |-> {}, refused |-> {}]]
  /\ shadowFaults = 0

ShadowFault == shadowFaults < MaxShadowFaults /\ shadowFaults' = shadowFaults + 1

RunAt(r, label) == shadowRun[r].pc = label
RunTo(r, label) == shadowRun' = [shadowRun EXCEPT ![r].pc = label]
Id(r) == <<r, Volumes[r][shadowRun[r].at]>>
More(r) == shadowRun[r].at <= Len(Volumes[r])

----------------------------------------------------------------------------
(* CreateVSSSnapshot *)

\* A path on a volume that has its copy already shares it.
ShareVolume(r) ==
  /\ RunAt(r, "path") /\ More(r) /\ Id(r) \in shadowRun[r].created
  /\ shadowRun' = [shadowRun EXCEPT ![r].at = @ + 1]
  /\ UNCHANGED <<hostVars, cleaner, shadowFaults>>

\* VSS creates one copy at a time on the host; a busy answer is waited for.
CreateSnapshot(r) ==
  /\ RunAt(r, "path") /\ More(r) /\ Id(r) \notin shadowRun[r].created
  /\ \/ creating = Nobody /\ creating' = r /\ RunTo(r, "creating")
     \/ /\ creating # Nobody /\ UNCHANGED creating
        /\ IF shadowRun[r].tries < MaxBusy THEN shadowRun' = [shadowRun EXCEPT ![r].tries = @ + 1]
                                     ELSE RunTo(r, "release")
  /\ UNCHANGED <<shadows, marker, lease, cleaner, shadowFaults>>

SnapshotCreated(r) ==
  /\ RunAt(r, "creating")
  /\ creating' = Nobody
  /\ \/ /\ shadows' = shadows \cup {Id(r)}
        /\ shadowRun' = [shadowRun EXCEPT ![r].pc = "lease", ![r].tries = 0,
                                           ![r].created = @ \cup {Id(r)}]
        /\ UNCHANGED shadowFaults
     \/ ShadowFault /\ RunTo(r, "release") /\ UNCHANGED shadows
  /\ UNCHANGED <<marker, lease, cleaner>>

\* A lease that cannot be taken is only logged.
HoldShadowLease(r) ==
  /\ RunAt(r, "lease")
  /\ \/ lease' = [lease EXCEPT ![Id(r)] = "held"] /\ UNCHANGED shadowFaults
     \/ ShadowFault /\ UNCHANGED lease
  /\ RunTo(r, "directory")
  /\ UNCHANGED <<creating, shadows, marker, cleaner>>

\* SymlinkSnapshot makes a directory, removes it, and makes the link.
MakeMarkerDirectory(r) ==
  /\ RunAt(r, "directory")
  /\ \/ /\ marker' = [marker EXCEPT ![Id(r)] = "directory"]
        /\ RunTo(r, "remove")
        /\ UNCHANGED shadowFaults
     \/ ShadowFault /\ RunTo(r, "release") /\ UNCHANGED marker
  /\ UNCHANGED <<creating, shadows, lease, cleaner>>

RemoveMarkerDirectory(r) ==
  /\ RunAt(r, "remove")
  /\ marker' = [marker EXCEPT ![Id(r)] = "none"]
  /\ RunTo(r, "link")
  /\ UNCHANGED <<creating, shadows, lease, cleaner, shadowFaults>>

LinkMarker(r) ==
  /\ RunAt(r, "link")
  /\ \/ /\ marker' = [marker EXCEPT ![Id(r)] = "link"]
        /\ shadowRun' = [shadowRun EXCEPT ![r].pc = "path", ![r].at = @ + 1]
        /\ UNCHANGED shadowFaults
     \/ ShadowFault /\ RunTo(r, "release") /\ UNCHANGED marker
  /\ UNCHANGED <<creating, shadows, lease, cleaner>>

CallBackWithCopies(r) ==
  /\ RunAt(r, "path") /\ ~More(r)
  /\ RunTo(r, "reading")
  /\ UNCHANGED <<hostVars, cleaner, shadowFaults>>

\* The callback returns; Release ends the VSS session, and a copy may go with it.
ReleaseSnapshotters(r) ==
  /\ RunAt(r, "reading") \/ RunAt(r, "release")
  /\ \E gone \in SUBSET (shadows \cap shadowRun[r].created) : shadows' = shadows \ gone
  /\ RunTo(r, "delete")
  /\ UNCHANGED <<creating, marker, lease, cleaner, shadowFaults>>

\* A copy whose deletion fails keeps its marker, for the next VSSCleanup.
DeleteShadow(r) ==
  /\ RunAt(r, "delete")
  /\ \E id \in shadowRun[r].created :
       /\ shadowRun' = [shadowRun EXCEPT ![r].created = @ \ {id}]
       /\ \/ /\ id \in shadows
             /\ shadows' = shadows \ {id} /\ marker' = [marker EXCEPT ![id] = "none"]
             /\ UNCHANGED shadowFaults
          \/ id \notin shadows /\ UNCHANGED <<shadows, marker, shadowFaults>>
          \/ id \in shadows /\ ShadowFault /\ UNCHANGED <<shadows, marker>>
  /\ UNCHANGED <<creating, lease, cleaner>>

Leases(r) == {id \in Ids : Owner(id) = r /\ lease[id] = "held"}

\* Leases go last, once the copies are gone.
ReleaseLeases(r) ==
  /\ RunAt(r, "delete") /\ shadowRun[r].created = {}
  /\ lease' = [id \in Ids |-> IF id \in Leases(r) THEN "none" ELSE lease[id]]
  /\ RunTo(r, "done")
  /\ UNCHANGED <<creating, shadows, marker, cleaner, shadowFaults>>

\* A process dies: Windows closes its leases, and its copies may outlive it.
ShadowCrash(r) ==
  /\ shadowRun[r].pc \notin {"done", "dead"}
  /\ ShadowFault
  /\ RunTo(r, "dead")
  /\ lease' = [id \in Ids |-> IF id \in Leases(r) THEN "left" ELSE lease[id]]
  /\ \E gone \in SUBSET {id \in shadows : Owner(id) = r} : shadows' = shadows \ gone
  /\ creating' = IF creating = r THEN Nobody ELSE creating
  /\ UNCHANGED <<marker, cleaner>>

----------------------------------------------------------------------------
(* VSSCleanup *)

CleanerAt(c, label) == cleaner[c].pc = label
Entry(c) == cleaner[c].at

\* Another clean-up found that marker to lead nowhere, and is about to remove it.
Doomed(id) == \E c \in Cleaners : CleanerAt(c, "drop") /\ Entry(c) = id

\* `orphans` is the model's: the copies this clean-up has to answer for.
ReadMarkers(c) ==
  /\ CleanerAt(c, "idle")
  /\ LET entries == {id \in Ids : marker[id] # "none"} IN
     cleaner' = [cleaner EXCEPT ![c].pc = "next", ![c].todo = entries,
                   ![c].orphans = {id \in entries : RunAt(Owner(id), "dead") /\ ~Doomed(id)}]
  /\ UNCHANGED <<hostVars, shadowRun, shadowFaults>>

NextMarker(c) ==
  /\ CleanerAt(c, "next")
  /\ IF cleaner[c].todo = {}
       THEN cleaner' = [cleaner EXCEPT ![c].pc = "done"]
       ELSE \E id \in cleaner[c].todo :
              cleaner' = [cleaner EXCEPT ![c].pc = "stat", ![c].at = id, ![c].todo = @ \ {id}]
  /\ UNCHANGED <<hostVars, shadowRun, shadowFaults>>

\* Does the marker lead anywhere?
Resolves(id) == \/ marker[id] = "directory"
                \/ marker[id] = "link" /\ id \in shadows

StatMarker(c) ==
  /\ CleanerAt(c, "stat")
  /\ cleaner' = [cleaner EXCEPT ![c].pc = IF Resolves(Entry(c)) THEN "lease" ELSE "drop"]
  /\ UNCHANGED <<hostVars, shadowRun, shadowFaults>>

\* A marker that leads nowhere, or whose copy was deleted, is removed.
DropMarker(c) ==
  /\ CleanerAt(c, "drop")
  /\ marker' = [marker EXCEPT ![Entry(c)] = "none"]
  /\ cleaner' = [cleaner EXCEPT ![c].pc = "next"]
  /\ UNCHANGED <<creating, shadows, lease, shadowRun, shadowFaults>>

\* Mutant: a lock file that exists is taken for a lease that is held.
ShadowInUseByName(c) ==
  /\ CleanerAt(c, "lease")
  /\ cleaner' = [cleaner EXCEPT ![c].pc = IF lease[Entry(c)] # "none" THEN "next" ELSE "delete"]
  /\ UNCHANGED <<hostVars, shadowRun, shadowFaults>>

\* Mutant: whether the lock file could be removed is not looked at.
ShadowInUseUnchecked(c) ==
  /\ CleanerAt(c, "lease")
  /\ cleaner' = [cleaner EXCEPT ![c].pc = "delete"]
  /\ UNCHANGED <<hostVars, shadowRun, shadowFaults>>

\* The lock file of a live process cannot be removed; one left behind is.
ShadowInUse(c) ==
  /\ CleanerAt(c, "lease")
  /\ IF lease[Entry(c)] = "held"
       THEN cleaner' = [cleaner EXCEPT ![c].pc = "next"] /\ UNCHANGED lease
       ELSE /\ cleaner' = [cleaner EXCEPT ![c].pc = "delete"]
            /\ lease' = [lease EXCEPT ![Entry(c)] = "none"]
  /\ UNCHANGED <<creating, shadows, marker, shadowRun, shadowFaults>>

DeleteOrphan(c) ==
  /\ CleanerAt(c, "delete")
  /\ \/ /\ Entry(c) \in shadows
        /\ shadows' = shadows \ {Entry(c)}
        /\ cleaner' = [cleaner EXCEPT ![c].pc = "drop"]
        /\ UNCHANGED shadowFaults
     \/ /\ IF Entry(c) \in shadows THEN ShadowFault ELSE UNCHANGED shadowFaults
        /\ cleaner' = [cleaner EXCEPT ![c].pc = "next", ![c].refused = @ \cup {Entry(c)}]
        /\ UNCHANGED shadows
  /\ UNCHANGED <<creating, marker, lease, shadowRun>>

ShadowNext ==
  \/ \E r \in ShadowRuns :
       \/ ShareVolume(r) \/ CreateSnapshot(r) \/ SnapshotCreated(r) \/ HoldShadowLease(r)
       \/ MakeMarkerDirectory(r) \/ RemoveMarkerDirectory(r) \/ LinkMarker(r)
       \/ CallBackWithCopies(r)
       \/ ReleaseSnapshotters(r) \/ DeleteShadow(r) \/ ReleaseLeases(r) \/ ShadowCrash(r)
  \/ \E c \in Cleaners :
       \/ ReadMarkers(c) \/ NextMarker(c) \/ StatMarker(c) \/ DropMarker(c)
       \/ ShadowInUse(c) \/ DeleteOrphan(c)

ShadowSpec == ShadowInit /\ [][ShadowNext]_shadowVars

----------------------------------------------------------------------------
(* Properties *)

\* While a backup reads its shadow copies, each one it holds a lease of is
\* there, whatever processes start and clean up meanwhile.
LeasedShadowKept ==
  \A r \in ShadowRuns : RunAt(r, "reading") => Leases(r) \subseteq shadows

\* A clean-up leaves no copy of a run that had died with its marker in place
\* when it began, unless VSS refused to delete it, or another clean-up had
\* looked at the marker while the run was still making it.
OrphansRemoved ==
  \A c \in Cleaners : CleanerAt(c, "done") =>
    shadows \cap cleaner[c].orphans \subseteq cleaner[c].refused
==============================================================================
