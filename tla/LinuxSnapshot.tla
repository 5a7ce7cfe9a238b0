---------------------------- MODULE LinuxSnapshot ----------------------------
(***************************************************************************)
(* Block snapshots on Linux (snapshot/linux_snapshot.go).  A run is one    *)
(* call of CreateVSSSnapshot, in some process.  The kernel module has one  *)
(* tracer per minor number, shared by every process of the machine;        *)
(* `tracked` is a list in the memory of one process.  Every run removes    *)
(* what looks like a leftover on its devices before it sets up its own.    *)
(***************************************************************************)
EXTENDS Naturals, SequencesExt, FiniteSetsExt

CONSTANTS Runs,       \* calls of CreateVSSSnapshot
          ProcessOf,  \* the process of a run
          Paths,      \* the device of each of its paths, in order
          NeedFiles,  \* does it mount its snapshots, or read them raw
          MaxMinor,   \* minors are 0..MaxMinor (255 in the code)
          MaxFaults   \* bound on crashes and failing system calls

ASSUME SnapshotAssumption ==
  /\ MaxMinor \in Nat /\ MaxFaults \in Nat
  /\ \A r \in Runs : Paths[r] \in Seq(Range(Paths[r])) /\ NeedFiles[r] \in BOOLEAN

VARIABLES
  tracers,   \* of the kernel: records [minor, device, run]
  cowFiles,  \* <<device, minor>>: that device holds .pbs_snapshot_<minor>.cow
  mounts,    \* [minor, run]: mounted in the run's temporary directory
  tracked,   \* snapshots a process knows of: records [minor, device, run]
  run,       \* the local variables of each run
  disputed,  \* history: two live runs had a device in common
  faults

vars == <<tracers, cowFiles, mounts, tracked, run, disputed, faults>>
kernelVars == <<tracers, cowFiles, mounts>>

Idle == [pc |-> "idle", at |-> 1, stale |-> {}, minor |-> 0, created |-> <<>>,
         failed |-> FALSE]

Init ==
  /\ tracers = {} /\ cowFiles = {} /\ mounts = {} /\ tracked = {}
  /\ run = [r \in Runs |-> Idle]
  /\ disputed = FALSE /\ faults = 0

Fault == faults < MaxFaults /\ faults' = faults + 1

At(r, label) == run[r].pc = label
Goto(r, label) == run' = [run EXCEPT ![r].pc = label]
\* An error return; the deferred function cleans up what was created.
Fail(r) == run' = [run EXCEPT ![r].pc = "cleanup", ![r].failed = TRUE]

Live(r) == run[r].pc \notin {"idle", "done", "dead"}
Device(r) == Paths[r][run[r].at]
Snap(r) == [minor |-> run[r].minor, device |-> Device(r), run |-> r]
Shares(r) == \E s \in Range(run[r].created) : s.device = Device(r)

\* The kernel: a minor has one tracer, a device is traced once, and a tracer
\* whose device is mounted is not destroyed.
CanSetup(device, minor) == \A t \in tracers : t.minor # minor /\ t.device # device
CanDestroy(minor, mounted) == /\ \E t \in tracers : t.minor = minor
                              /\ \A m \in mounted : m.minor # minor
Without(minor) == {t \in tracers : t.minor # minor}

----------------------------------------------------------------------------
(* CreateVSSSnapshot and createOne *)

Begin(r) ==
  /\ At(r, "idle")
  /\ Goto(r, "path")
  /\ disputed' = (disputed \/ \E q \in Runs : Live(q) /\ Range(Paths[q]) \cap Range(Paths[r]) # {})
  /\ UNCHANGED <<kernelVars, tracked, faults>>

\* DetectControl finds no module this binary can talk to: nothing was made yet.
NoControl(r) ==
  /\ At(r, "idle") /\ Fault
  /\ run' = [run EXCEPT ![r].pc = "done", ![r].failed = TRUE]
  /\ UNCHANGED <<kernelVars, tracked, disputed>>

\* A path on a device that has its snapshot already shares it.
SharePath(r) ==
  /\ At(r, "path") /\ run[r].at <= Len(Paths[r]) /\ Shares(r)
  /\ run' = [run EXCEPT ![r].at = @ + 1]
  /\ UNCHANGED <<kernelVars, tracked, disputed, faults>>

\* What the info file says of the device.
StaleTracers(device) == {t.minor : t \in {u \in tracers : u.device = device}}

\* The mount table and the info file are read, or cannot be.
ReadInfo(r) ==
  /\ At(r, "path") /\ run[r].at <= Len(Paths[r]) /\ ~Shares(r)
  /\ \/ /\ run' = [run EXCEPT ![r].pc = "destroy", ![r].stale = StaleTracers(Device(r))]
        /\ UNCHANGED faults
     \/ Fault /\ Fail(r)
  /\ UNCHANGED <<kernelVars, tracked, disputed>>

DestroyStaleTracer(r) ==
  /\ At(r, "destroy")
  /\ \E minor \in run[r].stale :
       \/ /\ CanDestroy(minor, mounts)
          /\ tracers' = Without(minor) /\ cowFiles' = cowFiles \ {<<Device(r), minor>>}
          /\ run' = [run EXCEPT ![r].stale = @ \ {minor}]
       \/ /\ ~CanDestroy(minor, mounts)
          /\ run' = [run EXCEPT ![r].stale = @ \ {minor}, ![r].failed = TRUE]
          /\ UNCHANGED <<tracers, cowFiles>>
  /\ UNCHANGED <<mounts, tracked, disputed, faults>>

\* The lowest number that this process does not track and that has no device.
FreeMinors(r) ==
  {m \in 0..MaxMinor : /\ \A t \in tracked : ProcessOf[t.run] = ProcessOf[r] => t.minor # m
                       /\ \A t \in tracers : t.minor # m}

AllocMinor(r) ==
  /\ At(r, "destroy") /\ run[r].stale = {}
  /\ IF run[r].failed \/ FreeMinors(r) = {}
       THEN Fail(r) /\ UNCHANGED cowFiles
       ELSE LET minor == Min(FreeMinors(r)) IN
            /\ run' = [run EXCEPT ![r].pc = "setup", ![r].minor = minor]
            /\ cowFiles' = cowFiles \ {<<Device(r), minor>>}
  /\ UNCHANGED <<tracers, mounts, tracked, disputed, faults>>

\* Mutant: a refused set-up is undone like one that worked.
SetupUndone(r) ==
  /\ At(r, "setup")
  /\ \/ /\ CanSetup(Device(r), run[r].minor)
        /\ tracers' = tracers \cup {Snap(r)}
        /\ cowFiles' = cowFiles \cup {<<Device(r), run[r].minor>>}
        /\ Goto(r, "wait")
     \/ /\ ~CanSetup(Device(r), run[r].minor)
        /\ Goto(r, "undo")
        /\ UNCHANGED <<tracers, cowFiles>>
  /\ UNCHANGED <<mounts, tracked, disputed, faults>>

\* A refused set-up removes the file, and no tracer: the minor may be another's.
Setup(r) ==
  /\ At(r, "setup")
  /\ \/ /\ CanSetup(Device(r), run[r].minor)
        /\ tracers' = tracers \cup {Snap(r)}
        /\ cowFiles' = cowFiles \cup {<<Device(r), run[r].minor>>}
        /\ Goto(r, "wait")
     \/ /\ ~CanSetup(Device(r), run[r].minor)
        /\ cowFiles' = cowFiles \ {<<Device(r), run[r].minor>>}
        /\ Fail(r)
        /\ UNCHANGED tracers
  /\ UNCHANGED <<mounts, tracked, disputed, faults>>

\* The device appears, or does not in time.
WaitForDevice(r) ==
  /\ At(r, "wait")
  /\ \/ /\ \E t \in tracers : t.minor = run[r].minor
        /\ tracked' = tracked \cup {Snap(r)}
        /\ Goto(r, "mount")
        /\ UNCHANGED faults
     \/ Fault /\ Goto(r, "undo") /\ UNCHANGED tracked
     \/ /\ \A t \in tracers : t.minor # run[r].minor
        /\ Goto(r, "undo")
        /\ UNCHANGED <<tracked, faults>>
  /\ UNCHANGED <<kernelVars, disputed>>

Created(r) == run' = [run EXCEPT ![r].pc = "path", ![r].at = @ + 1,
                                 ![r].created = Append(@, Snap(r))]

\* The device of the snapshot is still there to be mounted.
MountWorks(r) == \E t \in tracers : t.minor = run[r].minor

MountReadOnly(r) ==
  /\ At(r, "mount")
  /\ \/ ~NeedFiles[r] /\ Created(r) /\ UNCHANGED <<mounts, faults>>
     \/ /\ NeedFiles[r] /\ MountWorks(r)
        /\ mounts' = mounts \cup {[minor |-> run[r].minor, run |-> r]}
        /\ Created(r)
        /\ UNCHANGED faults
     \/ NeedFiles[r] /\ Fault /\ Goto(r, "undo") /\ UNCHANGED mounts
     \/ /\ NeedFiles[r] /\ ~MountWorks(r)
        /\ Goto(r, "undo")
        /\ UNCHANGED <<mounts, faults>>
  /\ UNCHANGED <<tracers, cowFiles, tracked, disputed>>

\* Mutant: the error of the destroy is dropped.
CleanupOneSilent(r, s, label, rest) ==
  /\ mounts' = mounts \ {[minor |-> s.minor, run |-> r]}
  /\ cowFiles' = cowFiles \ {<<s.device, s.minor>>}
  /\ tracked' = tracked \ {s}
  /\ run' = [run EXCEPT ![r].pc = label, ![r].created = rest]
  /\ tracers' \in {tracers, Without(s.minor)}
  /\ IF tracers' = tracers THEN Fault ELSE UNCHANGED faults

\* Unmount, destroy, remove the file, forget: an error of the destroy is
\* reported, and does not keep the rest from being done.
CleanupOne(r, s, label, rest) ==
  /\ mounts' = mounts \ {[minor |-> s.minor, run |-> r]}
  /\ cowFiles' = cowFiles \ {<<s.device, s.minor>>}
  /\ tracked' = tracked \ {s}
  /\ \E destroyed \in BOOLEAN :
       /\ run' = [run EXCEPT ![r].pc = label, ![r].failed = (@ \/ ~destroyed),
                             ![r].created = rest]
       /\ \/ /\ destroyed /\ CanDestroy(s.minor, mounts')
             /\ tracers' = Without(s.minor)
             /\ UNCHANGED faults
          \/ ~destroyed /\ UNCHANGED tracers /\ Fault
          \/ ~destroyed /\ ~CanDestroy(s.minor, mounts') /\ UNCHANGED <<tracers, faults>>

\* createOne fails after the set-up: it cleans up the snapshot it made.
UndoCreate(r) ==
  /\ At(r, "undo")
  /\ CleanupOne(r, Snap(r), "undone", run[r].created)
  /\ UNCHANGED disputed

FailCreate(r) ==
  /\ At(r, "undone")
  /\ Fail(r)
  /\ UNCHANGED <<kernelVars, tracked, disputed, faults>>

----------------------------------------------------------------------------
(* The callback, and the deferred clean-up *)

CallBack(r) ==
  /\ At(r, "path") /\ run[r].at > Len(Paths[r])
  /\ Goto(r, "reading")
  /\ UNCHANGED <<kernelVars, tracked, disputed, faults>>

\* The backup returns, with or without an error.
CallbackReturns(r) ==
  /\ At(r, "reading")
  /\ Goto(r, "cleanup") \/ Fail(r)
  /\ UNCHANGED <<kernelVars, tracked, disputed, faults>>

CleanupCreated(r) ==
  /\ At(r, "cleanup") /\ run[r].created # <<>>
  /\ CleanupOne(r, Last(run[r].created), "cleanup", Front(run[r].created))
  /\ UNCHANGED disputed

Return(r) ==
  /\ At(r, "cleanup") /\ run[r].created = <<>>
  /\ Goto(r, "done")
  /\ UNCHANGED <<kernelVars, tracked, disputed, faults>>

\* A process dies: its memory goes, its tracers, mounts and files stay.
Crash(p) ==
  /\ Fault
  /\ \E r \in Runs : ProcessOf[r] = p /\ Live(r)
  /\ run' = [r \in Runs |-> IF ProcessOf[r] = p /\ Live(r)
                             THEN [Idle EXCEPT !.pc = "dead"] ELSE run[r]]
  /\ tracked' = {t \in tracked : ProcessOf[t.run] # p}
  /\ UNCHANGED <<kernelVars, disputed>>

Next ==
  \/ \E r \in Runs :
       \/ Begin(r) \/ NoControl(r) \/ SharePath(r) \/ ReadInfo(r) \/ DestroyStaleTracer(r) \/ AllocMinor(r)
       \/ Setup(r) \/ WaitForDevice(r) \/ MountReadOnly(r) \/ UndoCreate(r) \/ FailCreate(r)
       \/ CallBack(r) \/ CallbackReturns(r) \/ CleanupCreated(r) \/ Return(r)
  \/ \E p \in Range(ProcessOf) : Crash(p)

Spec == Init /\ [][Next]_vars

----------------------------------------------------------------------------
(* Properties *)

\* As long as no two runs had a device in common, a backup reads the devices it
\* was asked for, each through a tracer that is its own, and mounted if it
\* needs files: no clean-up, refused set-up, reused minor or leftover of
\* another run or of a crash takes them away.
ReadsOwnSnapshot ==
  ~disputed =>
    \A r \in Runs : At(r, "reading") =>
      \A device \in Range(Paths[r]) : \E s \in Range(run[r].created) :
        /\ s.device = device /\ s \in tracers
        /\ NeedFiles[r] => [minor |-> s.minor, run |-> r] \in mounts

\* A run that returns without an error leaves no tracer, mount or tracked
\* snapshot, even when others took its devices; one that returns with an error
\* leaves at most a tracer.
SuccessLeavesNothing ==
  \A r \in Runs : At(r, "done") =>
    /\ \A t \in tracked : t.run # r
    /\ \A m \in mounts : m.run # r
    /\ ~run[r].failed => \A t \in tracers : t.run # r

\* destroyStaleTracers removes "tracers of a previous crashed run": never one
\* of a run that is going on, as long as no two runs had a device in common.
OnlyCrashedAreStale ==
  [][~disputed => \A r, q \in Runs : r # q /\ DestroyStaleTracer(r) /\ Live(q) =>
       \A t \in tracers : t.run = q => t \in tracers']_vars
==============================================================================
